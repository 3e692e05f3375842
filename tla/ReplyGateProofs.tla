-------------------------- MODULE ReplyGateProofs --------------------------
(* Theorems about the screening of a whole reply.                          *)
EXTENDS ReplyGate, SequenceLemmas

(***************************************************************************)
(* Filtering a sequence.                                                   *)
(***************************************************************************)

(* The elements of s that are in E, in order.                              *)
Only(s, E) == FlattenSeq([i \in 1..Len(s) |-> IF s[i] \in E THEN <<s[i]>> ELSE <<>>])

(* Keeping positions is keeping elements when the elements say which.      *)
LEMMA AtIsOnly ==
  ASSUME NEW s, NEW S, NEW E, \A i \in 1..Len(s) : i \in S <=> s[i] \in E
  PROVE  At(s, S) = Only(s, E)
<1>1. [i \in 1..Len(s) |-> IF i \in S THEN <<s[i]>> ELSE <<>>]
      = [i \in 1..Len(s) |-> IF s[i] \in E THEN <<s[i]>> ELSE <<>>]
  BY Zenon
<1> QED
  BY <1>1, Zenon DEF At, Only

(* What is kept is of the type of all, and is in E.                        *)
LEMMA OnlyTyped ==
  ASSUME NEW T, NEW s \in Seq(T), NEW E
  PROVE  Only(s, E) \in Seq(T) /\ Only(s, E) \in Seq(E)
<1> DEFINE f == [i \in 1..Len(s) |-> IF s[i] \in E THEN <<s[i]>> ELSE <<>>]
<1>1. f \in Seq(Seq(T)) /\ f \in Seq(Seq(E))
  OBVIOUS
<1> HIDE DEF f
<1>2. FlattenSeq(f) \in Seq(T) /\ FlattenSeq(f) \in Seq(E)
  BY <1>1, FlattenTyped
<1> QED
  BY <1>2 DEF Only, f

LEMMA OnlyEmpty ==
  ASSUME NEW E
  PROVE  Only(<<>>, E) = <<>>
<1>1. [i \in 1..0 |-> IF <<>>[i] \in E THEN <<<<>>[i]>> ELSE <<>>] = <<>>
  OBVIOUS
<1>2. Only(<<>>, E) = FlattenSeq([i \in 1..0 |-> IF <<>>[i] \in E THEN <<<<>>[i]>> ELSE <<>>])
  BY DEF Only
<1> QED
  BY <1>1, <1>2, FlattenEmpty

(* One element more is kept or left.                                       *)
LEMMA OnlyAppend ==
  ASSUME NEW T, NEW s \in Seq(T), NEW e \in T, NEW E
  PROVE  Only(Append(s, e), E) = IF e \in E THEN Append(Only(s, E), e) ELSE Only(s, E)
<1> DEFINE t == Append(s, e)
           f == [i \in 1..Len(s) |-> IF s[i] \in E THEN <<s[i]>> ELSE <<>>]
           h == [i \in 1..Len(t) |-> IF t[i] \in E THEN <<t[i]>> ELSE <<>>]
           d == IF e \in E THEN <<e>> ELSE <<>>
<1>1. f \in Seq(Seq(T)) /\ d \in Seq(T) /\ Len(f) = Len(s)
  OBVIOUS
<1>2. h = Append(f, d)
  <2>1. /\ Len(t) = Len(s) + 1 /\ Len(s) \in Nat /\ t[Len(s) + 1] = e
        /\ \A i \in 1..Len(s) : t[i] = s[i]
    OBVIOUS
  <2>2. Append(f, d) = [i \in 1..(Len(s) + 1) |-> IF i = Len(s) + 1 THEN d ELSE f[i]]
    BY <1>1
  <2>3. \A i \in 1..(Len(s) + 1) : h[i] = IF i = Len(s) + 1 THEN d ELSE f[i]
    BY <2>1
  <2> QED
    BY <2>1, <2>2, <2>3
<1>3. FlattenSeq(h) = FlattenSeq(f) \o d
  <2> HIDE DEF f, h, d
  <2> QED
    BY <1>1, <1>2, FlattenAppend
<1>4. Only(t, E) = FlattenSeq(h) /\ Only(s, E) = FlattenSeq(f)
  BY DEF Only
<1>5. Only(s, E) \in Seq(T)
  BY OnlyTyped
<1> HIDE DEF f, h, t
<1>6. CASE e \in E
  <2>1. Only(s, E) \o <<e>> = Append(Only(s, E), e)
    BY <1>5
  <2> QED
    BY <1>3, <1>4, <1>6, <2>1 DEF t
<1>7. CASE e \notin E
  <2>1. Only(s, E) \o <<>> = Only(s, E)
    BY <1>5
  <2> QED
    BY <1>3, <1>4, <1>7, <2>1 DEF t
<1> QED
  BY <1>6, <1>7

(* Of two sequences in a row each is filtered for itself.                  *)
LEMMA OnlyConcat ==
  ASSUME NEW T, NEW s \in Seq(T), NEW t \in Seq(T), NEW E
  PROVE  Only(s \o t, E) = Only(s, E) \o Only(t, E)
<1> DEFINE w == s \o t
           F(x) == [i \in 1..Len(x) |-> IF x[i] \in E THEN <<x[i]>> ELSE <<>>]
<1>1. F(s) \in Seq(Seq(T)) /\ F(t) \in Seq(Seq(T)) /\ Len(F(s)) = Len(s) /\ Len(F(t)) = Len(t)
  OBVIOUS
<1>2. F(w) = F(s) \o F(t)
  <2>1. /\ Len(w) = Len(s) + Len(t) /\ Len(s) \in Nat /\ Len(t) \in Nat
        /\ \A i \in 1..Len(w) : w[i] = IF i <= Len(s) THEN s[i] ELSE t[i - Len(s)]
    OBVIOUS
  <2>2. F(s) \o F(t) = [i \in 1..(Len(s) + Len(t)) |->
                          IF i <= Len(s) THEN F(s)[i] ELSE F(t)[i - Len(s)]]
    BY <1>1
  <2>3. \A i \in 1..(Len(s) + Len(t)) : F(w)[i] = IF i <= Len(s) THEN F(s)[i] ELSE F(t)[i - Len(s)]
    <3> TAKE i \in 1..(Len(s) + Len(t))
    <3>1. CASE i <= Len(s)
      BY <2>1, <3>1
    <3>2. CASE i > Len(s)
      <4>1. i - Len(s) \in 1..Len(t)
        BY <2>1, <3>2
      <4> QED
        BY <2>1, <3>2, <4>1
    <3> QED
      BY <2>1, <3>1, <3>2
  <2> QED
    BY <2>1, <2>2, <2>3
<1>3. Only(w, E) = FlattenSeq(F(w)) /\ Only(s, E) = FlattenSeq(F(s)) /\ Only(t, E) = FlattenSeq(F(t))
  BY DEF Only
<1> HIDE DEF F, w
<1>4. FlattenSeq(F(s) \o F(t)) = FlattenSeq(F(s)) \o FlattenSeq(F(t))
  BY <1>1, FlattenConcat
<1> QED
  BY <1>2, <1>3, <1>4 DEF w

(* Filtering twice is filtering once.                                      *)
LEMMA OnlyOnly ==
  ASSUME NEW T, NEW s \in Seq(T), NEW A, NEW B
  PROVE  Only(Only(s, A), B) = Only(s, A \cap B)
<1> DEFINE upto(n) == SubSeq(s, 1, n)
           N == {n \in Nat : n <= Len(s) => Only(Only(upto(n), A), B) = Only(upto(n), A \cap B)}
<1>1. 0 \in N
  <2>1. upto(0) = <<>>
    OBVIOUS
  <2> QED
    BY <2>1, OnlyEmpty
<1>2. ASSUME NEW n \in Nat, n \in N PROVE n + 1 \in N
  <2> SUFFICES ASSUME n + 1 <= Len(s)
               PROVE  Only(Only(upto(n + 1), A), B) = Only(upto(n + 1), A \cap B)
    OBVIOUS
  <2> DEFINE u == upto(n)
             e == s[n + 1]
             v == Only(u, A)
  <2>1. u \in Seq(T) /\ e \in T
    BY SubSeqProperties
  <2>2. upto(n + 1) = Append(u, e)
    <3>1. Len(upto(n + 1)) = n + 1 /\ Len(u) = n
      OBVIOUS
    <3>2. \A j \in 1..(n + 1) : upto(n + 1)[j] = Append(u, e)[j]
      OBVIOUS
    <3>3. upto(n + 1) \in Seq(T) /\ Append(u, e) \in Seq(T) /\ Len(Append(u, e)) = n + 1
      BY <2>1, <3>1
    <3> HIDE DEF u, e, upto
    <3> QED
      BY <3>1, <3>2, <3>3, SeqEqual
  <2>3. Only(v, B) = Only(u, A \cap B)
    BY <1>2
  <2> HIDE DEF u, e, v
  <2>4. v \in Seq(T)
    BY <2>1, OnlyTyped DEF v
  <2>5. Only(Append(u, e), A) = IF e \in A THEN Append(v, e) ELSE v
    BY <2>1, OnlyAppend DEF v
  <2>6. Only(Append(u, e), A \cap B) =
          IF e \in A \cap B THEN Append(Only(u, A \cap B), e) ELSE Only(u, A \cap B)
    BY <2>1, OnlyAppend
  <2>7. Only(Append(v, e), B) = IF e \in B THEN Append(Only(v, B), e) ELSE Only(v, B)
    BY <2>1, <2>4, OnlyAppend
  <2> HIDE DEF upto, N
  <2>8. Only(Only(Append(u, e), A), B) = Only(Append(u, e), A \cap B)
    <3>1. CASE e \in A
      <4>1. Only(Only(Append(u, e), A), B) = Only(Append(v, e), B)
        BY <2>5, <3>1
      <4> QED
        BY <2>3, <2>6, <2>7, <3>1, <4>1
    <3>2. CASE e \notin A
      <4>1. Only(Only(Append(u, e), A), B) = Only(v, B)
        BY <2>5, <3>2
      <4> QED
        BY <2>3, <2>6, <3>2, <4>1
    <3> QED
      BY <3>1, <3>2
  <2> QED
    BY <2>2, <2>8
<1> HIDE DEF N
<1>3. Nat \subseteq N
  BY <1>1, <1>2, SetInduction
<1>4. Len(s) \in N /\ Len(s) <= Len(s)
  BY <1>3
<1>5. upto(Len(s)) = s
  OBVIOUS
<1> HIDE DEF upto
<1>6. Only(Only(upto(Len(s)), A), B) = Only(upto(Len(s)), A \cap B)
  BY <1>4 DEF N
<1> QED
  BY <1>5, <1>6

(* Nothing is left out of a sequence of what is kept.                      *)
LEMMA OnlyAll ==
  ASSUME NEW E, NEW s \in Seq(E)
  PROVE  Only(s, E) = s
<1>1. [i \in 1..Len(s) |-> IF s[i] \in E THEN <<s[i]>> ELSE <<>>] = [i \in 1..Len(s) |-> <<s[i]>>]
  OBVIOUS
<1> QED
  BY <1>1, FlattenSingles DEF Only
-----------------------------------------------------------------------------
(***************************************************************************)
(* The lists of a reply.                                                   *)
(***************************************************************************)

(* What the filters of the code and of the properties keep.                *)
CallItems  == {x \in Items : IsCall(x)}
BadItems   == {x \in Items : IsCall(x) /\ Evaluate(x) = "block"}
ClearItems == {x \in Items : IsCall(x) /\ x # Echo /\ Evaluate(x) # "block"}
Places(s, E) == {i \in 1..Len(s) : s[i] \in E}

(* The filters of code and properties, by what the items are.              *)
LEMMA ListIs ==
  ASSUME NEW s \in Seq(Items)
  PROVE  /\ At(s, CallsIn(s)) = Only(s, CallItems)
         /\ At(s, OthersIn(s)) = Only(s, {Text})
         /\ Clear(s) = Only(s, ClearItems)
         /\ Bad(s) = Places(s, BadItems)
         /\ \A S : S = Bad(s) => At(s, (1..Len(s)) \ S) = Only(s, Items \ BadItems)
<1>1. \A i \in 1..Len(s) : s[i] \in Items
  OBVIOUS
<1>2. \A i \in 1..Len(s) : i \in CallsIn(s) <=> s[i] \in CallItems
  BY <1>1 DEF CallsIn, CallItems
<1>3. \A i \in 1..Len(s) : i \in OthersIn(s) <=> s[i] \in {Text}
  BY <1>1 DEF OthersIn, CallsIn, IsCall
<1>4. \A i \in 1..Len(s) :
        i \in {j \in CallsIn(s) : s[j] # Echo /\ Evaluate(s[j]) # "block"} <=> s[i] \in ClearItems
  BY <1>1 DEF CallsIn, ClearItems
<1>5. \A i \in 1..Len(s) : i \in (1..Len(s)) \ Bad(s) <=> s[i] \in Items \ BadItems
  BY <1>1 DEF Bad, CallsIn, BadItems
<1>6. At(s, CallsIn(s)) = Only(s, CallItems)
  BY <1>2, AtIsOnly
<1>7. At(s, OthersIn(s)) = Only(s, {Text})
  BY <1>3, AtIsOnly
<1>8. Clear(s) = Only(s, ClearItems)
  BY <1>4, AtIsOnly DEF Clear
<1>9. At(s, (1..Len(s)) \ Bad(s)) = Only(s, Items \ BadItems)
  BY <1>5, AtIsOnly
<1>10. Bad(s) = Places(s, BadItems)
  BY <1>1 DEF Bad, CallsIn, BadItems, Places
<1> QED
  BY <1>6, <1>7, <1>8, <1>9, <1>10

(* A list some of whose blocked calls are rewritten.                       *)
Swap(s, S) == [i \in 1..Len(s) |-> IF i \in S THEN Echo ELSE s[i]]

(* It has the same other items, and the same calls that are not blocked.   *)
LEMMA SwapIs ==
  ASSUME NEW s \in Seq(Items), NEW S, S \subseteq Places(s, BadItems)
  PROVE  /\ Swap(s, S) \in Seq(Items) /\ Len(Swap(s, S)) = Len(s)
         /\ Only(Swap(s, S), {Text}) = Only(s, {Text})
         /\ Only(Swap(s, S), ClearItems) = Only(s, ClearItems)
         /\ (\E i \in 1..Len(s) : IsCall(Swap(s, S)[i])) <=> \E i \in 1..Len(s) : IsCall(s[i])
<1> DEFINE t == Swap(s, S)
           F(x, E) == [i \in 1..Len(s) |-> IF x[i] \in E THEN <<x[i]>> ELSE <<>>]
<1>1. /\ t \in Seq(Items) /\ Len(t) = Len(s)
      /\ \A i \in 1..Len(s) : t[i] = IF i \in S THEN Echo ELSE s[i]
  BY DEF Swap, Items
<1>2. \A i \in S : i \in 1..Len(s) /\ IsCall(s[i]) /\ Evaluate(s[i]) = "block"
  BY DEF Places, BadItems
<1>3. Echo # Text
  BY MarkersAssumption
<1> HIDE DEF t
<1>4. \A i \in 1..Len(s) : t[i] \in {Text} <=> s[i] \in {Text}
  BY <1>1, <1>2, <1>3 DEF IsCall
<1>5. \A i \in 1..Len(s) : t[i] \in ClearItems <=> s[i] \in ClearItems
  BY <1>1, <1>2 DEF ClearItems
<1>6. \A i \in 1..Len(s) : t[i] \in {Text} \/ t[i] \in ClearItems => t[i] = s[i]
  BY <1>1, <1>3 DEF ClearItems
<1>7. F(t, {Text}) = F(s, {Text}) /\ F(t, ClearItems) = F(s, ClearItems)
  BY <1>4, <1>5, <1>6
<1>8. Only(t, {Text}) = FlattenSeq(F(t, {Text})) /\ Only(s, {Text}) = FlattenSeq(F(s, {Text}))
      /\ Only(t, ClearItems) = FlattenSeq(F(t, ClearItems))
      /\ Only(s, ClearItems) = FlattenSeq(F(s, ClearItems))
  BY <1>1 DEF Only
<1> HIDE DEF F
<1>9. Only(t, {Text}) = Only(s, {Text}) /\ Only(t, ClearItems) = Only(s, ClearItems)
  BY <1>7, <1>8
<1>10. \A i \in 1..Len(s) : IsCall(t[i]) <=> IsCall(s[i])
  BY <1>4 DEF IsCall
<1> QED
  BY <1>1, <1>9, <1>10 DEF t

(* A list without the blocked calls.                                       *)
LEMMA StripIs ==
  ASSUME NEW s \in Seq(Items)
  PROVE  /\ Only(s, Items \ BadItems) \in Seq(Items)
         /\ Only(Only(s, Items \ BadItems), {Text}) = Only(s, {Text})
         /\ Only(Only(s, Items \ BadItems), ClearItems) = Only(s, ClearItems)
<1>1. (Items \ BadItems) \cap {Text} = {Text} /\ (Items \ BadItems) \cap ClearItems = ClearItems
  BY DEF Items, BadItems, ClearItems, IsCall
<1>2. /\ Only(Only(s, Items \ BadItems), {Text}) = Only(s, (Items \ BadItems) \cap {Text})
      /\ Only(Only(s, Items \ BadItems), ClearItems) = Only(s, (Items \ BadItems) \cap ClearItems)
  BY OnlyOnly
<1>3. Only(s, Items \ BadItems) \in Seq(Items)
  BY OnlyTyped
<1> QED
  BY <1>1, <1>2, <1>3

(* What becomes of a list whose items in E are blocked.                    *)
Dealt(s, E, rewriting) ==
  IF rewriting THEN Swap(s, Places(s, E)) ELSE Only(s, Items \ E)

(* A list none of whose calls is blocked loses none, and another loses     *)
(* them as the property says.                                              *)
LEMMA DealtIs ==
  ASSUME NEW s \in Seq(Items)
  PROVE  /\ Dealt(s, BadItems, Rewrites) = Outcome(s)
         /\ Places(s, BadItems) = {} => Dealt(s, BadItems, Rewrites) = s
<1>1. CASE Rewrites
  <2>1. Outcome(s) = Swap(s, Places(s, BadItems))
    BY <1>1, ListIs DEF Outcome, Swap
  <2>2. Places(s, BadItems) = {} => Swap(s, Places(s, BadItems)) = s
    BY DEF Swap
  <2> QED
    BY <1>1, <2>1, <2>2 DEF Dealt
<1>2. CASE ~Rewrites
  <2>1. Outcome(s) = Only(s, Items \ BadItems)
    BY <1>2, ListIs DEF Outcome
  <2>2. ASSUME Places(s, BadItems) = {} PROVE Only(s, Items \ BadItems) = s
    <3>1. \A i \in 1..Len(s) : s[i] \in Items \ BadItems
      BY <2>2 DEF Places
    <3>2. s \in Seq(Items \ BadItems)
      BY <3>1
    <3> QED
      BY <3>2, OnlyAll
  <2> QED
    BY <1>2, <2>1, <2>2 DEF Dealt
<1> QED
  BY <1>1, <1>2

(* The end of a turn touches the finish reason only.                       *)
LEMMA StopIs ==
  ASSUME NEW gr \in Group
  PROVE  /\ Stop(gr) \in Group /\ Stop(gr).items = gr.items /\ Stop(gr).notes = gr.notes
         /\ Stop(gr).fin = IF original.shape = "responses" THEN gr.fin ELSE "stop"
BY DEF Stop, Group, Reasons

(* A group with another list of items and one more note.                   *)
LEMMA Noted ==
  ASSUME NEW gr \in Group, NEW a \in Seq(Items)
  PROVE  LET new == [gr EXCEPT !.items = a, !.notes = @ + 1] IN
         /\ new \in Group /\ new.items = a /\ new.fin = gr.fin
         /\ gr.notes \in Nat /\ new.notes = gr.notes + 1
<1> DEFINE new == [gr EXCEPT !.items = a, !.notes = @ + 1]
<1>1. gr = [items |-> gr.items, fin |-> gr.fin, notes |-> gr.notes]
      /\ gr.fin \in Reasons /\ gr.notes \in Nat /\ gr.notes + 1 \in Nat
  BY DEF Group
<1>2. new = [items |-> a, fin |-> gr.fin, notes |-> gr.notes + 1]
  <2>1. DOMAIN gr = {"items", "fin", "notes"}
    BY <1>1
  <2>2. new = [x \in {"items", "fin", "notes"} |->
                 IF x = "items" THEN a ELSE IF x = "notes" THEN gr.notes + 1 ELSE gr[x]]
    BY <2>1
  <2> QED
    BY <1>1, <2>2
<1> HIDE DEF new
<1>3. new \in Group /\ new.items = a /\ new.fin = gr.fin /\ new.notes = gr.notes + 1
  BY <1>1, <1>2 DEF Group
<1> QED
  BY <1>1, <1>3 DEF new

(* A group that is stripped has its clear calls and its other items left,  *)
(* a note, and the end of a turn when no call is left.                     *)
LEMMA StrippedIs ==
  ASSUME NEW gr \in Group, blocked = Places(gr.items, BadItems)
  PROVE  LET new == Stripped(gr) IN
         /\ new \in Group /\ new.items = Only(gr.items, Items \ BadItems) /\ new.notes > 0
         /\ HasCalls(new) => new.fin = gr.fin
         /\ ~HasCalls(new) => new.fin = IF original.shape = "responses" THEN gr.fin ELSE "stop"
         /\ original.shape = "responses" => new.fin = gr.fin
<1> DEFINE s == gr.items
           kept == [gr EXCEPT !.items = At(@, (1..Len(@)) \ blocked), !.notes = @ + 1]
<1>1. s \in Seq(Items) /\ gr.fin \in Reasons /\ gr.notes \in Nat
  BY DEF Group
<1>2. At(s, (1..Len(s)) \ blocked) = Only(s, Items \ BadItems) /\ Only(s, Items \ BadItems) \in Seq(Items)
  BY <1>1, ListIs, StripIs
<1>3. kept = [gr EXCEPT !.items = Only(s, Items \ BadItems), !.notes = @ + 1]
  BY <1>2
<1>4. kept \in Group /\ kept.items = Only(s, Items \ BadItems) /\ kept.fin = gr.fin /\ kept.notes > 0
  <2> DEFINE a == Only(s, Items \ BadItems)
  <2>1. a \in Seq(Items)
    BY <1>2
  <2> HIDE DEF a, kept, s
  <2>2. LET new == [gr EXCEPT !.items = a, !.notes = @ + 1] IN
        new \in Group /\ new.items = a /\ new.fin = gr.fin
        /\ gr.notes \in Nat /\ new.notes = gr.notes + 1
    BY <2>1, Noted
  <2>3. kept = [gr EXCEPT !.items = a, !.notes = @ + 1]
    BY <1>3 DEF a
  <2> QED
    BY <2>2, <2>3 DEF a
<1>5. Stripped(gr) = IF HasCalls(kept) THEN kept ELSE Stop(kept)
  BY DEF Stripped
<1> HIDE DEF kept, s
<1>6. /\ Stop(kept) \in Group /\ Stop(kept).items = kept.items /\ Stop(kept).notes = kept.notes
      /\ Stop(kept).fin = IF original.shape = "responses" THEN kept.fin ELSE "stop"
  BY <1>4, StopIs
<1>7. HasCalls(Stop(kept)) <=> HasCalls(kept)
  BY <1>6 DEF HasCalls
<1>8. CASE HasCalls(kept)
  BY <1>4, <1>5, <1>8 DEF s
<1>9. CASE ~HasCalls(kept)
  BY <1>4, <1>5, <1>6, <1>7, <1>9 DEF s
<1> QED
  BY <1>8, <1>9

(* A group all of whose calls are dropped keeps its other items.           *)
LEMMA DroppedIs ==
  ASSUME NEW gr \in Group
  PROVE  LET new == Dropped(gr) IN
         /\ new \in Group /\ new.items = Only(gr.items, {Text}) /\ ~HasCalls(new)
         /\ HasCalls(gr) =>
              new.notes > 0 /\ new.fin = IF original.shape = "responses" THEN gr.fin ELSE "stop"
         /\ ~HasCalls(gr) => new.notes >= gr.notes /\ new.fin \in {gr.fin, "stop"}
         /\ original.shape = "responses" => new.fin = gr.fin
<1> DEFINE s == gr.items
           kept == [gr EXCEPT !.items = At(@, OthersIn(@)), !.notes = @ + 1]
<1>1. s \in Seq(Items) /\ gr.fin \in Reasons /\ gr.notes \in Nat
  BY DEF Group
<1>2. /\ At(s, OthersIn(s)) = Only(s, {Text})
      /\ Only(s, {Text}) \in Seq(Items) /\ Only(s, {Text}) \in Seq({Text})
  BY <1>1, ListIs, OnlyTyped
<1>3. kept = [gr EXCEPT !.items = Only(s, {Text}), !.notes = @ + 1]
  BY <1>2
<1>4. kept \in Group /\ kept.items = Only(s, {Text}) /\ kept.fin = gr.fin /\ kept.notes = gr.notes + 1
  <2> HIDE DEF kept
  <2> QED
    BY <1>2, <1>3, Noted
<1>5. Dropped(gr) = IF HasCalls(gr) \/ original.shape # "chat" THEN Stop(kept) ELSE gr
  BY DEF Dropped
<1> HIDE DEF kept
<1>6. /\ Stop(kept) \in Group /\ Stop(kept).items = kept.items /\ Stop(kept).notes = kept.notes
      /\ Stop(kept).fin = IF original.shape = "responses" THEN kept.fin ELSE "stop"
  BY <1>4, StopIs
<1>7. ~HasCalls(Stop(kept))
  <2> SUFFICES ASSUME NEW i \in 1..Len(kept.items), IsCall(kept.items[i]) PROVE FALSE
    BY <1>6 DEF HasCalls
  <2>1. kept.items[i] \in {Text}
    BY <1>2, <1>4
  <2> QED
    BY <2>1 DEF IsCall
<1>8. CASE HasCalls(gr) \/ original.shape # "chat"
  BY <1>1, <1>4, <1>5, <1>6, <1>7, <1>8
<1>9. CASE ~HasCalls(gr) /\ original.shape = "chat"
  <2>1. \A i \in 1..Len(s) : s[i] = Text
    BY <1>9 DEF HasCalls, IsCall
  <2>2. s \in Seq({Text})
    BY <1>1, <2>1
  <2>3. Only(s, {Text}) = s
    BY <2>2, OnlyAll
  <2>4. Dropped(gr) = gr
    BY <1>5, <1>9
  <2> QED
    BY <1>1, <1>9, <2>3, <2>4
<1> QED
  BY <1>8, <1>9
-----------------------------------------------------------------------------
(***************************************************************************)
(* The inductive invariant.                                                *)
(***************************************************************************)

(* The items of the first n groups, and those before item m of group n.    *)
Flat(gs, n)      == FlattenSeq([i \in 1..n |-> gs[i].items])
Before(gs, n, m) == Flat(gs, n - 1) \o [j \in 1..(m - 1) |-> gs[n].items[j]]

(* The row a call should have.                                             *)
RowOf == [x \in Items |-> [call |-> x, verdict |-> Evaluate(x)]]

Working == phase \in {"judge", "rewrite", "strip"}

(* At every moment a group has its other items; if it lost all of its      *)
(* calls it says so and ends the turn, and else it ends as it did.         *)
Fits(gr, was, shape) ==
  /\ Only(gr.items, {Text}) = Only(was.items, {Text})
  /\ HasCalls(was) /\ ~HasCalls(gr) => gr.notes > 0 /\ gr.fin # "tool_calls"
  /\ HasCalls(gr) => gr.fin = was.fin
  /\ shape = "responses" => gr.fin = was.fin
GroupsInv ==
  \A i \in 1..Len(groups) : Fits(groups[i], original.groups[i], original.shape)

(* The groups behind the one at work are as they were, it is as far as     *)
(* phase, k and blocked say, and those before it are as their verdicts     *)
(* demand.                                                                 *)
AsBefore(was) ==
  LET bad == Places(was.items, BadItems)
  IN  /\ k \in 1..(Len(was.items) + 1)
      /\ phase # "rewrite" => groups[g] = was
      /\ phase = "judge" => blocked = {j \in bad : j < k}
      /\ phase = "strip" => blocked = bad /\ ~Rewrites
      /\ phase = "rewrite" =>
           /\ blocked \subseteq bad /\ Rewrites
           /\ groups[g] = [was EXCEPT !.items = Swap(@, bad \ blocked)]
      /\ phase # "judge" => k = Len(was.items) + 1
WorkInv ==
  Working =>
    /\ cause = "none" /\ original.shape # "other"
    /\ \A i \in 1..Len(groups) : i > g => groups[i] = original.groups[i]
    /\ \A i \in 1..Len(groups) : i < g =>
         groups[i].items = Dealt(original.groups[i].items, BadItems, Rewrites)
    /\ g > Len(groups) => phase = "judge" /\ k = 1
    /\ \A i \in 1..Len(groups) : i = g => AsBefore(original.groups[i])

(* How it ended.                                                           *)
EndInv ==
  /\ phase = "done" /\ cause = "none" /\ original.shape # "other" =>
       \A i \in 1..Len(groups) :
         groups[i].items = Dealt(original.groups[i].items, BadItems, Rewrites)
  /\ phase = "drop" => cause = "guard" /\ conf.fail = "closed"
  /\ cause = "guard" /\ conf.fail = "closed" =>
       /\ \A i \in 1..Len(groups) : i < g => ~HasCalls(groups[i])
       /\ phase = "done" => g = Len(groups) + 1

(* The rows are those of the first calls: while the reply is screened, of  *)
(* the calls before the one that is judged next, and when it is done, of   *)
(* all.  Those of a group are there before it is changed.                  *)
RowsInv ==
  LET calls == Only(Flat(original.groups, Len(original.groups)), CallItems) IN
  /\ Len(rows) <= Len(calls)
  /\ \A i \in 1..Len(rows) : rows[i] = RowOf[calls[i]]
  /\ Working => Len(rows) = Len(Only(Before(original.groups, g, k), CallItems))
  /\ Returned /\ cause = "none" => Len(rows) = Len(calls)
ChangedInv ==
  cause = "none" \/ conf.fail = "open" =>
    \A i \in 1..Len(groups) :
      /\ Only(groups[i].items, ClearItems) = Only(original.groups[i].items, ClearItems)
      /\ groups[i] # original.groups[i] =>
           Len(rows) >= Len(Only(Flat(original.groups, i), CallItems))

ReplyInv == TypeOK /\ GroupsInv /\ WorkInv /\ EndInv /\ RowsInv /\ ChangedInv
-----------------------------------------------------------------------------
(***************************************************************************)
(* The calls of the reply, in order.                                       *)
(***************************************************************************)

(* What RepliesAssumption says of the groups the upstream sent.            *)
LEMMA OriginalIs ==
  ASSUME original \in Replies
  PROVE  /\ original.groups \in Seq(Group) /\ Len(original.groups) \in Nat
         /\ \A i \in 1..Len(original.groups) :
              /\ original.groups[i] \in Group
              /\ original.groups[i].items \in Seq(Items)
              /\ original.groups[i].items \in Seq(Calls \cup {Text})
              /\ original.shape = "responses" => original.groups[i].fin = "none"
<1> DEFINE Sent == [items : Seq(Calls \cup {Text}), fin : Reasons, notes : {0}]
           gs   == original.groups
<1>1. /\ original \in [shape : Shapes, groups : Seq(Sent)]
      /\ original.shape # "chat" => Len(gs) = 1
      /\ original.shape = "responses" => gs[1].fin = "none"
  BY RepliesAssumption
<1>2. \A x \in Sent : x \in Group /\ x.items \in Seq(Items) /\ x.items \in Seq(Calls \cup {Text})
  BY DEF Group, Items
<1>3. Sent \subseteq Group
  BY <1>2
<1> HIDE DEF Sent
<1>4. gs \in Seq(Sent)
  BY <1>1
<1> HIDE DEF gs
<1>5. /\ gs \in Seq(Group) /\ Len(gs) \in Nat
      /\ \A i \in 1..Len(gs) : gs[i] \in Sent
  BY <1>3, <1>4
<1>6. \A i \in 1..Len(gs) : original.shape = "responses" => gs[i].fin = "none"
  <2> SUFFICES ASSUME NEW i \in 1..Len(gs), original.shape = "responses" PROVE gs[i].fin = "none"
    OBVIOUS
  <2>1. Len(gs) = 1
    BY <1>1
  <2>2. i = 1
    BY <2>1
  <2> QED
    BY <1>1, <2>2
<1> QED
  BY <1>2, <1>5, <1>6 DEF gs

(* A concatenation, index by index.                                        *)
LEMMA ConcatIs ==
  ASSUME NEW T, NEW a \in Seq(T), NEW b \in Seq(T)
  PROVE  a \o b = [j \in 1..(Len(a) + Len(b)) |-> IF j <= Len(a) THEN a[j] ELSE b[j - Len(a)]]
<1> DEFINE c == a \o b
<1>1. /\ c \in Seq(T) /\ Len(c) = Len(a) + Len(b)
      /\ \A j \in 1..Len(c) : c[j] = IF j <= Len(a) THEN a[j] ELSE b[j - Len(a)]
  BY ConcatProperties
<1> HIDE DEF c
<1>2. c = [j \in 1..Len(c) |-> c[j]]
  BY <1>1
<1> QED
  BY <1>1, <1>2 DEF c

(* What comes before a group, and the calls in it.                         *)
LEMMA FlatIs ==
  ASSUME original \in Replies, NEW n \in 0..Len(original.groups)
  PROVE  /\ Flat(original.groups, n) \in Seq(Items)
         /\ \E t \in Seq(Items) :
              Flat(original.groups, Len(original.groups)) = Flat(original.groups, n) \o t
         /\ CallsOf(SubSeq(original.groups, 1, n)) = Only(Flat(original.groups, n), CallItems)
         /\ CallsOf(original.groups) = Only(Flat(original.groups, Len(original.groups)), CallItems)
<1> DEFINE N == Len(original.groups)
           f(l) == [i \in 1..l |-> original.groups[i].items]
           r == [i \in 1..(N - n) |-> original.groups[n + i].items]
<1>1. N \in Nat /\ \A i \in 1..N : original.groups[i].items \in Seq(Items)
  BY OriginalIs
<1>2. f(n) \in Seq(Seq(Items)) /\ r \in Seq(Seq(Items)) /\ f(N) \in Seq(Seq(Items))
      /\ Len(f(n)) = n /\ Len(r) = N - n
  BY <1>1
<1>3. f(N) = f(n) \o r
  <2>1. f(n) \o r = [i \in 1..(n + (N - n)) |-> IF i <= n THEN f(n)[i] ELSE r[i - n]]
    BY <1>2
  <2>2. n + (N - n) = N
    BY <1>1
  <2>3. \A i \in 1..N : f(N)[i] = IF i <= n THEN f(n)[i] ELSE r[i - n]
    BY <1>1
  <2> QED
    BY <2>1, <2>2, <2>3
<1>4. Flat(original.groups, n) = FlattenSeq(f(n)) /\ Flat(original.groups, N) = FlattenSeq(f(N))
  BY DEF Flat
<1> HIDE DEF f, r, N
<1>5. FlattenSeq(f(n)) \in Seq(Items) /\ FlattenSeq(f(N)) \in Seq(Items) /\ FlattenSeq(r) \in Seq(Items)
  BY <1>2, FlattenTyped
<1>6. FlattenSeq(f(n) \o r) = FlattenSeq(f(n)) \o FlattenSeq(r)
  BY <1>2, FlattenConcat
<1>7. \E t \in Seq(Items) : Flat(original.groups, N) = Flat(original.groups, n) \o t
  BY <1>3, <1>4, <1>5, <1>6
<1>8. CallsOf(SubSeq(original.groups, 1, n)) = Only(Flat(original.groups, n), CallItems)
  <2> DEFINE q == SubSeq(original.groups, 1, n)
             a == FlattenSeq([i \in 1..Len(q) |-> q[i].items])
  <2>1. original.groups \in Seq(Group)
    BY OriginalIs
  <2>2. Len(q) = n /\ \A i \in 1..n : q[i] = original.groups[i]
    BY <1>1, <2>1 DEF N
  <2>3. [i \in 1..Len(q) |-> q[i].items] = f(n)
    BY <2>2 DEF f
  <2>4. a = Flat(original.groups, n)
    BY <1>4, <2>3
  <2>5. CallsOf(q) = At(a, CallsIn(a))
    BY DEF CallsOf
  <2> HIDE DEF a, q
  <2>6. At(a, CallsIn(a)) = Only(a, CallItems)
    BY <1>4, <1>5, <2>4, ListIs
  <2> QED
    BY <2>4, <2>5, <2>6 DEF q
<1>9. CallsOf(original.groups) = Only(Flat(original.groups, N), CallItems)
  <2> DEFINE a == FlattenSeq([i \in 1..Len(original.groups) |-> original.groups[i].items])
  <2>1. a = Flat(original.groups, N)
    BY DEF Flat, N
  <2>2. CallsOf(original.groups) = At(a, CallsIn(a))
    BY DEF CallsOf
  <2> HIDE DEF a
  <2>3. At(a, CallsIn(a)) = Only(a, CallItems)
    BY <1>4, <1>5, <2>1, ListIs
  <2> QED
    BY <2>1, <2>2, <2>3
<1> QED
  BY <1>4, <1>5, <1>7, <1>8, <1>9 DEF N

(* What comes before an item, in the whole reply.                          *)
LEMMA BeforeIs ==
  ASSUME original \in Replies, NEW n \in 1..Len(original.groups),
         NEW m \in 1..(Len(original.groups[n].items) + 1)
  PROVE  /\ Before(original.groups, n, m) \in Seq(Items)
         /\ Before(original.groups, n, 1) = Flat(original.groups, n - 1)
         /\ m <= Len(original.groups[n].items) =>
              Before(original.groups, n, m + 1) =
                Append(Before(original.groups, n, m), original.groups[n].items[m])
         /\ m = Len(original.groups[n].items) + 1 =>
              Before(original.groups, n, m) = Flat(original.groups, n)
         /\ \E t \in Seq(Items) :
              Flat(original.groups, Len(original.groups)) = Before(original.groups, n, m) \o t
<1> DEFINE N == Len(original.groups)
           s == original.groups[n].items
           p(l) == [j \in 1..(l - 1) |-> s[j]]
           r == [j \in 1..(Len(s) + 1 - m) |-> s[j + m - 1]]
<1>1. N \in Nat /\ s \in Seq(Items) /\ n - 1 \in 0..N /\ n \in 0..N
  BY OriginalIs
<1>2. Flat(original.groups, n - 1) \in Seq(Items)
  BY <1>1, FlatIs
<1>3. /\ p(m) \in Seq(Items) /\ r \in Seq(Items)
      /\ Len(p(m)) = m - 1 /\ Len(r) = Len(s) + 1 - m
  BY <1>1
<1>4. p(1) = <<>> /\ (m = Len(s) + 1 => p(m) = s)
  BY <1>1
<1>5. Flat(original.groups, n) = Flat(original.groups, n - 1) \o s
  <2> DEFINE f(l) == [i \in 1..l |-> original.groups[i].items]
  <2>1. \A i \in 1..N : original.groups[i].items \in Seq(Items)
    BY OriginalIs
  <2>2. f(n - 1) \in Seq(Seq(Items)) /\ f(n) = Append(f(n - 1), s)
    BY <1>1, <2>1
  <2>3. Flat(original.groups, n) = FlattenSeq(f(n)) /\ Flat(original.groups, n - 1) = FlattenSeq(f(n - 1))
    BY DEF Flat
  <2> HIDE DEF f, s
  <2>4. FlattenSeq(Append(f(n - 1), s)) = FlattenSeq(f(n - 1)) \o s
    BY <1>1, <2>2, FlattenAppend
  <2> QED
    BY <2>2, <2>3, <2>4
<1>6. s = p(m) \o r
  <2>1. p(m) \o r = [j \in 1..((m - 1) + (Len(s) + 1 - m)) |->
                       IF j <= m - 1 THEN p(m)[j] ELSE r[j - (m - 1)]]
    <3> HIDE DEF p, r, s
    <3>1. p(m) \o r = [j \in 1..(Len(p(m)) + Len(r)) |->
                         IF j <= Len(p(m)) THEN p(m)[j] ELSE r[j - Len(p(m))]]
      BY <1>3, ConcatIs
    <3> QED
      BY <1>3, <3>1
  <2>2. (m - 1) + (Len(s) + 1 - m) = Len(s)
    BY <1>1
  <2>3. \A j \in 1..Len(s) : s[j] = IF j <= m - 1 THEN p(m)[j] ELSE r[j - (m - 1)]
    BY <1>1
  <2> QED
    BY <1>1, <2>1, <2>2, <2>3
<1>7. m <= Len(s) => p(m + 1) = Append(p(m), s[m]) /\ s[m] \in Items
  BY <1>1
<1>8. /\ Before(original.groups, n, m) = Flat(original.groups, n - 1) \o p(m)
      /\ Before(original.groups, n, 1) = Flat(original.groups, n - 1) \o p(1)
      /\ Before(original.groups, n, m + 1) = Flat(original.groups, n - 1) \o p(m + 1)
  BY DEF Before
<1> HIDE DEF p, r, s, N
<1>9. Flat(original.groups, n - 1) \o <<>> = Flat(original.groups, n - 1)
  BY <1>2
<1>10. m <= Len(s) =>
         Flat(original.groups, n - 1) \o Append(p(m), s[m]) =
           Append(Flat(original.groups, n - 1) \o p(m), s[m])
  BY <1>2, <1>3, <1>7
<1>11. PICK t \in Seq(Items) : Flat(original.groups, N) = Flat(original.groups, n) \o t
  BY <1>1, FlatIs DEF N
<1>12. Flat(original.groups, N) = Before(original.groups, n, m) \o (r \o t)
  <2>1. Flat(original.groups, N) = (Flat(original.groups, n - 1) \o (p(m) \o r)) \o t
    BY <1>5, <1>6, <1>11
  <2>2. (Flat(original.groups, n - 1) \o (p(m) \o r)) \o t
          = (Flat(original.groups, n - 1) \o p(m)) \o (r \o t)
    <3> DEFINE a == Flat(original.groups, n - 1)
               b == p(m)
    <3>1. a \in Seq(Items) /\ b \in Seq(Items) /\ r \in Seq(Items) /\ t \in Seq(Items)
      BY <1>2, <1>3, <1>11
    <3> HIDE DEF a, b
    <3>2. a \o (b \o r) = (a \o b) \o r /\ a \o b \in Seq(Items)
      BY <3>1
    <3> DEFINE e == a \o b
    <3>3. e \in Seq(Items) /\ a \o (b \o r) = e \o r
      BY <3>2
    <3> HIDE DEF e
    <3>4. (e \o r) \o t = e \o (r \o t)
      BY <3>1, <3>3
    <3> QED
      BY <3>3, <3>4 DEF a, b, e
  <2> QED
    BY <1>8, <2>1, <2>2
<1>13. r \o t \in Seq(Items) /\ Before(original.groups, n, m) \in Seq(Items)
  BY <1>2, <1>3, <1>8
<1> QED
  BY <1>4, <1>5, <1>7, <1>8, <1>9, <1>10, <1>12, <1>13 DEF s, N

(* The calls before an item are the first of the reply, and the item, if   *)
(* it is a call, is the next.                                              *)
LEMMA NextCall ==
  ASSUME original \in Replies, NEW n \in 1..Len(original.groups),
         NEW m \in 1..Len(original.groups[n].items)
  PROVE  LET seen  == Only(Before(original.groups, n, m), CallItems)
             item  == original.groups[n].items[m]
             calls == CallsOf(original.groups)
         IN  /\ seen \in Seq(Items) /\ calls \in Seq(Items)
             /\ ~IsCall(item) => Only(Before(original.groups, n, m + 1), CallItems) = seen
             /\ IsCall(item) =>
                  /\ Len(Only(Before(original.groups, n, m + 1), CallItems)) = Len(seen) + 1
                  /\ Len(seen) + 1 <= Len(calls) /\ calls[Len(seen) + 1] = item
<1> DEFINE seen  == Only(Before(original.groups, n, m), CallItems)
           item  == original.groups[n].items[m]
           calls == CallsOf(original.groups)
           N     == Len(original.groups)
           all   == Flat(original.groups, N)
<1>1. /\ N \in Nat /\ original.groups[n].items \in Seq(Items) /\ item \in Items
      /\ m \in 1..(Len(original.groups[n].items) + 1)
      /\ m + 1 \in 1..(Len(original.groups[n].items) + 1)
      /\ m <= Len(original.groups[n].items) /\ N \in 0..N
  BY OriginalIs
<1>2. /\ Before(original.groups, n, m) \in Seq(Items)
      /\ Before(original.groups, n, m + 1) = Append(Before(original.groups, n, m), item)
  BY <1>1, BeforeIs
<1>3. PICK t \in Seq(Items) : all = Before(original.groups, n, m + 1) \o t
  BY <1>1, BeforeIs
<1>4. calls = Only(all, CallItems) /\ all \in Seq(Items)
  BY <1>1, FlatIs
<1>5. seen \in Seq(Items) /\ calls \in Seq(Items)
  BY <1>2, <1>4, OnlyTyped
<1> HIDE DEF item
<1>6. Only(Append(Before(original.groups, n, m), item), CallItems)
        = IF item \in CallItems THEN Append(seen, item) ELSE seen
  BY <1>1, <1>2, OnlyAppend
<1>7. item \in CallItems <=> IsCall(item)
  BY <1>1 DEF CallItems
<1>8. ASSUME IsCall(item)
      PROVE  Len(seen) + 1 <= Len(calls) /\ calls[Len(seen) + 1] = item
  <2>1. Before(original.groups, n, m + 1) \in Seq(Items)
    <3>1. Append(Before(original.groups, n, m), item) \in Seq(Items)
      BY <1>1, <1>2
    <3> QED
      BY <1>2, <3>1
  <2>2. Only(Before(original.groups, n, m + 1) \o t, CallItems)
          = Only(Before(original.groups, n, m + 1), CallItems) \o Only(t, CallItems)
    BY <2>1, OnlyConcat
  <2>3. Only(t, CallItems) \in Seq(Items)
    BY OnlyTyped
  <2>4. calls = Append(seen, item) \o Only(t, CallItems)
    BY <1>2, <1>3, <1>4, <1>6, <1>7, <1>8, <2>2
  <2> HIDE DEF calls, seen, item
  <2> QED
    BY <1>1, <1>5, <2>3, <2>4
<1>9. IsCall(item) => Len(Append(seen, item)) = Len(seen) + 1
  BY <1>1, <1>5
<1> HIDE DEF calls, seen, item
<1>10. /\ ~IsCall(item) => Only(Before(original.groups, n, m + 1), CallItems) = seen
       /\ IsCall(item) => Len(Only(Before(original.groups, n, m + 1), CallItems)) = Len(seen) + 1
  BY <1>2, <1>6, <1>7, <1>9
<1> QED
  BY <1>5, <1>8, <1>10 DEF calls, seen, item
-----------------------------------------------------------------------------
(***************************************************************************)
(* Each step keeps the invariant.                                          *)
(***************************************************************************)

LEMMA VerdictIs ==
  ASSUME NEW x
  PROVE  Evaluate(x) \in Verdicts
BY DEF Evaluate, Verdicts

(* The rules are the same for the whole reply.                             *)
LEMMA SameRules ==
  ASSUME conf' = conf
  PROVE  /\ BadItems' = BadItems /\ ClearItems' = ClearItems
         /\ Rewrites' = Rewrites /\ RowOf' = RowOf
<1>1. \A x : Evaluate(x)' = Evaluate(x)
  BY DEF Evaluate
<1> QED
  BY <1>1 DEF BadItems, ClearItems, Rewrites, RowOf

(* Before the first item of a group there are the groups before it.        *)
LEMMA BeforeFirst ==
  ASSUME original \in Replies, NEW n \in 1..(Len(original.groups) + 1)
  PROVE  /\ Before(original.groups, n, 1) = Flat(original.groups, n - 1)
         /\ n = 1 => Flat(original.groups, n - 1) = <<>>
<1>1. n - 1 \in 0..Len(original.groups)
  BY OriginalIs
<1>2. Flat(original.groups, n - 1) \in Seq(Items)
  BY <1>1, FlatIs
<1>3. [j \in 1..0 |-> original.groups[n].items[j]] = <<>>
  OBVIOUS
<1>4. Before(original.groups, n, 1) = Flat(original.groups, n - 1) \o <<>>
  BY <1>3 DEF Before
<1>5. n = 1 => Flat(original.groups, n - 1) = <<>>
  <2> SUFFICES ASSUME n = 1 PROVE Flat(original.groups, n - 1) = <<>>
    OBVIOUS
  <2>1. [i \in 1..0 |-> original.groups[i].items] = <<>>
    OBVIOUS
  <2>2. Flat(original.groups, n - 1) = FlattenSeq([i \in 1..0 |-> original.groups[i].items])
    BY DEF Flat
  <2> QED
    BY <2>1, <2>2, FlattenEmpty
<1> QED
  BY <1>2, <1>4, <1>5

LEMMA InitReplyInv == Init => ReplyInv
<1> SUFFICES ASSUME Init PROVE ReplyInv
  OBVIOUS
<1>1. /\ conf \in Conf /\ original \in Replies /\ groups = original.groups /\ g = 1 /\ k = 1
      /\ blocked = {} /\ phase = (IF original.shape = "other" THEN "done" ELSE "judge")
      /\ cause = "none" /\ rows = <<>>
  BY DEF Init
<1>2. /\ groups \in Seq(Group) /\ Len(groups) \in Nat
      /\ \A i \in 1..Len(groups) : groups[i] \in Group /\ groups[i].items \in Seq(Items)
  BY <1>1, OriginalIs
<1>3. TypeOK
  BY <1>1, <1>2 DEF TypeOK, Judging
<1>4. GroupsInv
  BY <1>1 DEF GroupsInv, Fits
<1>5. WorkInv
  <2>1. ASSUME phase = "judge", NEW i \in 1..Len(groups), i = g PROVE AsBefore(original.groups[i])
    <3>1. blocked = {j \in Places(original.groups[i].items, BadItems) : j < k}
      BY <1>1 DEF Places
    <3>2. k \in 1..(Len(original.groups[i].items) + 1)
      BY <1>1, <1>2
    <3> QED
      BY <1>1, <2>1, <3>1, <3>2 DEF AsBefore
  <2>2. g > Len(groups) => phase \in {"judge", "done"} /\ k = 1
    BY <1>1
  <2>3. \A i \in 1..Len(groups) : ~(i < g) /\ groups[i] = original.groups[i]
    BY <1>1, <1>2
  <2>4. phase = "judge" => original.shape # "other"
    BY <1>1
  <2>5. phase \in {"judge", "done"}
    BY <1>1
  <2> QED
    BY <1>1, <2>1, <2>2, <2>3, <2>4, <2>5 DEF WorkInv, Working
<1>6. EndInv
  BY <1>1, <1>2 DEF EndInv
<1> DEFINE calls == Only(Flat(original.groups, Len(original.groups)), CallItems)
<1>7. Len(calls) \in Nat
  <2>1. Len(original.groups) \in 0..Len(original.groups)
    BY <1>1, <1>2
  <2>2. Flat(original.groups, Len(original.groups)) \in Seq(Items)
    BY <1>1, <2>1, FlatIs
  <2>3. calls \in Seq(Items)
    BY <2>2, OnlyTyped
  <2> QED
    BY <2>3
<1>8. Len(Only(Before(original.groups, g, k), CallItems)) = 0
  <2>1. Before(original.groups, 1, 1) = <<>>
    BY <1>1, <1>2, BeforeFirst
  <2>2. Only(Before(original.groups, 1, 1), CallItems) = <<>>
    BY <2>1, OnlyEmpty
  <2> QED
    BY <1>1, <2>2
<1>9. RowsInv
  BY <1>1, <1>7, <1>8 DEF RowsInv, Returned
<1>10. ChangedInv
  BY <1>1 DEF ChangedInv
<1> QED
  BY <1>3, <1>4, <1>5, <1>6, <1>9, <1>10 DEF ReplyInv

(* What TypeOK says of the group at work and the original.                 *)
LEMMA TypesAre ==
  ASSUME ReplyInv
  PROVE  /\ original \in Replies /\ conf \in Conf
         /\ groups \in Seq(Group) /\ Len(groups) = Len(original.groups) /\ Len(groups) \in Nat
         /\ g \in 1..(Len(groups) + 1) /\ rows \in Seq(Row) /\ Len(rows) \in Nat
         /\ \A i \in 1..Len(groups) :
              /\ groups[i] \in Group /\ groups[i].items \in Seq(Items)
              /\ original.groups[i] \in Group /\ original.groups[i].items \in Seq(Items)
<1>1. /\ original \in Replies /\ conf \in Conf
      /\ groups \in Seq(Group) /\ Len(groups) = Len(original.groups)
      /\ g \in 1..(Len(groups) + 1) /\ rows \in Seq(Row)
  BY DEF ReplyInv, TypeOK
<1>2. \A i \in 1..Len(groups) : groups[i] \in Group
  BY <1>1
<1>3. \A x \in Group : x.items \in Seq(Items)
  BY DEF Group
<1> QED
  BY <1>1, <1>2, <1>3, OriginalIs

LEMMA JudgeItemStep ==
  ASSUME ReplyInv, JudgeItem
  PROVE  ReplyInv'
<1> DEFINE was  == original.groups[g]
           item == was.items[k]
<1>0. /\ original \in Replies /\ conf \in Conf
      /\ groups \in Seq(Group) /\ Len(groups) = Len(original.groups) /\ Len(groups) \in Nat
      /\ g \in 1..(Len(groups) + 1) /\ rows \in Seq(Row) /\ Len(rows) \in Nat
      /\ \A i \in 1..Len(groups) :
           /\ groups[i] \in Group /\ groups[i].items \in Seq(Items)
           /\ original.groups[i] \in Group /\ original.groups[i].items \in Seq(Items)
  BY TypesAre
<1>1. /\ phase = "judge" /\ g <= Len(groups) /\ k <= Len(groups[g].items)
      /\ rows' = IF IsCall(Item) THEN Judged ELSE rows
      /\ blocked' = IF IsCall(Item) /\ Evaluate(Item) = "block" THEN blocked \cup {k} ELSE blocked
      /\ k' = k + 1
      /\ UNCHANGED <<conf, original, groups, g, phase, cause>>
  BY DEF JudgeItem, Judging
<1>2. /\ g \in 1..Len(groups) /\ groups[g] = was /\ k \in 1..(Len(was.items) + 1)
      /\ cause = "none" /\ original.shape # "other"
      /\ blocked = {j \in Places(was.items, BadItems) : j < k}
      /\ Len(rows) = Len(Only(Before(original.groups, g, k), CallItems))
  BY <1>0, <1>1 DEF ReplyInv, WorkInv, Working, AsBefore, RowsInv
<1>3. k \in 1..Len(was.items) /\ Item = item /\ item \in Items /\ item \in Calls \cup {Text}
      /\ was.items \in Seq(Items) /\ k + 1 \in 1..(Len(was.items) + 1)
  <2>1. was.items \in Seq(Calls \cup {Text})
    BY <1>0, <1>2, OriginalIs
  <2> QED
    BY <1>0, <1>1, <1>2, <2>1 DEF Item
<1>4. BadItems' = BadItems /\ ClearItems' = ClearItems /\ Rewrites' = Rewrites /\ RowOf' = RowOf
  BY <1>1, SameRules
<1>5. /\ Judged = Append(rows, RowOf[item])
      /\ IsCall(item) => RowOf[item] \in Row
  BY <1>3, VerdictIs DEF Judged, RowOf, Row, IsCall
<1>6. rows' \in Seq(Row) /\ Len(rows') >= Len(rows)
  BY <1>0, <1>1, <1>3, <1>5
<1>7. blocked' = {j \in Places(was.items, BadItems) : j < k + 1}
  <2>1. k \in Places(was.items, BadItems) <=> IsCall(item) /\ Evaluate(item) = "block"
    BY <1>3 DEF Places, BadItems
  <2>2. \A j \in Places(was.items, BadItems) : j \in Nat
    BY DEF Places
  <2> QED
    BY <1>1, <1>2, <1>3, <2>1, <2>2
<1>8. TypeOK'
  <2>1. blocked' \subseteq 1..Len(was.items)
    BY <1>7 DEF Places
  <2> QED
    BY <1>0, <1>1, <1>2, <1>3, <1>6, <2>1 DEF ReplyInv, TypeOK, Judging
<1>9. GroupsInv'
  BY <1>1 DEF ReplyInv, GroupsInv
<1>10. WorkInv'
  <2>1. AsBefore(was)'
    BY <1>1, <1>2, <1>3, <1>4, <1>7 DEF AsBefore
  <2> QED
    BY <1>0, <1>1, <1>2, <1>4, <2>1 DEF ReplyInv, WorkInv, Working
<1>11. EndInv'
  BY <1>1, <1>2 DEF ReplyInv, EndInv
<1>12. RowsInv'
  <2> DEFINE calls == Only(Flat(original.groups, Len(original.groups)), CallItems)
             seen  == Only(Before(original.groups, g, k), CallItems)
             next  == Only(Before(original.groups, g, k + 1), CallItems)
  <2>1. /\ seen \in Seq(Items) /\ calls \in Seq(Items)
        /\ ~IsCall(item) => next = seen
        /\ IsCall(item) => /\ Len(next) = Len(seen) + 1
                           /\ Len(seen) + 1 <= Len(calls) /\ calls[Len(seen) + 1] = item
    <3>1. calls = CallsOf(original.groups)
      BY <1>0, FlatIs
    <3> QED
      BY <1>0, <1>2, <1>3, <3>1, NextCall
  <2>2. /\ Len(rows) <= Len(calls) /\ Len(rows) = Len(seen)
        /\ \A i \in 1..Len(rows) : rows[i] = RowOf[calls[i]]
    BY <1>2 DEF ReplyInv, RowsInv
  <2>3. calls' = calls /\ Only(Before(original.groups, g, k), CallItems)' = next
    BY <1>1
  <2> HIDE DEF calls, seen, next, item
  <2>4. Len(rows') <= Len(calls) /\ Len(rows') = Len(next)
        /\ \A i \in 1..Len(rows') : rows'[i] = RowOf[calls[i]]
    <3>1. CASE IsCall(item)
      <4>1. rows' = Append(rows, RowOf[item])
        BY <1>1, <1>3, <1>5, <3>1
      <4>2. Len(rows') = Len(rows) + 1 /\ rows'[Len(rows) + 1] = RowOf[item]
            /\ \A i \in 1..Len(rows) : rows'[i] = rows[i]
        BY <1>0, <4>1
      <4>3. \A i \in 1..Len(rows') : i \in 1..Len(rows) \/ i = Len(rows) + 1
        BY <1>0, <4>2
      <4> QED
        BY <2>1, <2>2, <3>1, <4>2, <4>3
    <3>2. CASE ~IsCall(item)
      <4>1. rows' = rows
        BY <1>1, <1>3, <3>2
      <4> QED
        BY <2>1, <2>2, <3>2, <4>1
    <3> QED
      BY <3>1, <3>2
  <2>5. ~Returned'
    BY <1>1 DEF Returned
  <2> QED
    BY <1>4, <2>3, <2>4, <2>5 DEF RowsInv, calls
<1>13. ChangedInv'
  <2> SUFFICES ASSUME NEW i \in 1..Len(groups)
               PROVE  /\ Only(groups[i].items, ClearItems) = Only(original.groups[i].items, ClearItems)
                      /\ groups[i] # original.groups[i] =>
                           Len(rows') >= Len(Only(Flat(original.groups, i), CallItems))
    BY <1>1, <1>4 DEF ChangedInv
  <2>1. groups[i] # original.groups[i] => Len(rows) >= Len(Only(Flat(original.groups, i), CallItems))
    BY <1>2 DEF ReplyInv, ChangedInv
  <2>2. Len(Only(Flat(original.groups, i), CallItems)) \in Nat
    <3>1. i \in 0..Len(original.groups)
      BY <1>0
    <3>2. Only(Flat(original.groups, i), CallItems) \in Seq(Items)
      BY <1>0, <3>1, FlatIs, OnlyTyped
    <3> QED
      BY <3>2
  <2> QED
    BY <1>0, <1>2, <1>6, <2>1, <2>2 DEF ReplyInv, ChangedInv
<1> QED
  BY <1>8, <1>9, <1>10, <1>11, <1>12, <1>13 DEF ReplyInv

(* Once the items of a group are judged, the rows are those of the calls   *)
(* of the groups up to it.                                                 *)
LEMMA GroupRows ==
  ASSUME ReplyInv, Working, g <= Len(groups), k = Len(original.groups[g].items) + 1
  PROVE  /\ Len(rows) = Len(Only(Flat(original.groups, g), CallItems))
         /\ Len(rows) = Len(Only(Before(original.groups, g + 1, 1), CallItems))
<1>0. /\ original \in Replies /\ g \in 1..Len(original.groups) /\ Len(groups) = Len(original.groups)
      /\ original.groups[g].items \in Seq(Items) /\ Len(groups) \in Nat
  BY TypesAre
<1>1. Len(rows) = Len(Only(Before(original.groups, g, k), CallItems))
  BY DEF ReplyInv, RowsInv
<1>2. k \in 1..(Len(original.groups[g].items) + 1)
  BY <1>0
<1>3. Before(original.groups, g, k) = Flat(original.groups, g)
  BY <1>0, <1>2, BeforeIs
<1>4. g + 1 \in 1..(Len(original.groups) + 1) /\ (g + 1) - 1 = g
  BY <1>0
<1>5. Before(original.groups, g + 1, 1) = Flat(original.groups, g)
  BY <1>0, <1>4, BeforeFirst
<1> QED
  BY <1>1, <1>3, <1>5

(* The step to the next group, once one is dealt with.                     *)
LEMMA NextGroupStep ==
  ASSUME ReplyInv, Working, g <= Len(groups), k = Len(original.groups[g].items) + 1,
         NextGroup, UNCHANGED <<conf, original, cause, rows>>,
         groups' \in Seq(Group), Len(groups') = Len(groups),
         \A i \in 1..Len(groups) : i # g => groups'[i] = groups[i],
         groups'[g].items = Dealt(original.groups[g].items, BadItems, Rewrites)
  PROVE  TypeOK' /\ WorkInv' /\ EndInv' /\ RowsInv'
<1>0. /\ original \in Replies /\ conf \in Conf /\ g \in 1..Len(groups) /\ Len(groups) = Len(original.groups)
      /\ Len(groups) \in Nat /\ rows \in Seq(Row)
      /\ \A i \in 1..Len(groups) :
           /\ groups[i] \in Group /\ groups[i].items \in Seq(Items)
           /\ original.groups[i] \in Group /\ original.groups[i].items \in Seq(Items)
  BY TypesAre
<1>1. /\ g' = g + 1 /\ k' = 1 /\ blocked' = {} /\ phase' = "judge"
      /\ conf' = conf /\ original' = original /\ cause' = cause /\ rows' = rows
  BY DEF NextGroup
<1>2. /\ cause = "none" /\ original.shape # "other"
      /\ \A i \in 1..Len(groups) : i > g => groups[i] = original.groups[i]
      /\ \A i \in 1..Len(groups) : i < g =>
           groups[i].items = Dealt(original.groups[i].items, BadItems, Rewrites)
  BY DEF ReplyInv, WorkInv
<1>3. BadItems' = BadItems /\ ClearItems' = ClearItems /\ Rewrites' = Rewrites /\ RowOf' = RowOf
  BY <1>1, SameRules
<1>4. \A i \in 1..Len(groups) : groups'[i] \in Group
  BY <1>0
<1>5. TypeOK'
  <2>1. g' \in 1..(Len(groups') + 1) /\ cause' \in {"none", "guard", "strip"}
    BY <1>0, <1>1, <1>2
  <2>2. \A x \in Group : x.items \in Seq(Items)
    BY DEF Group
  <2>3. Judging' => k' \in 1..(Len(groups'[g'].items) + 1)
    <3>1. Judging' => g' \in 1..Len(groups)
      BY <1>0, <1>1 DEF Judging
    <3> QED
      BY <1>1, <1>4, <2>2, <3>1
  <2> QED
    BY <1>0, <1>1, <1>2, <2>1, <2>3 DEF TypeOK
<1>6. WorkInv'
  <2>0. ASSUME NEW i \in 1..Len(groups), i > g PROVE groups'[i] = original.groups[i]
    <3>1. i # g
      BY <1>0, <2>0
    <3>2. groups'[i] = groups[i]
      BY <3>1
    <3>3. groups[i] = original.groups[i]
      BY <1>2, <2>0
    <3> QED
      BY <3>2, <3>3
  <2>1. \A i \in 1..Len(groups) : i > g + 1 => groups'[i] = original.groups[i]
    BY <1>0, <2>0
  <2>2. \A i \in 1..Len(groups) : i < g + 1 =>
          groups'[i].items = Dealt(original.groups[i].items, BadItems, Rewrites)
    BY <1>0, <1>2
  <2>3. ASSUME NEW i \in 1..Len(groups), i = g + 1 PROVE AsBefore(original.groups[i])'
    <3>1. groups'[i] = original.groups[i]
      BY <1>0, <2>0, <2>3
    <3>2. blocked' = {j \in Places(original.groups[i].items, BadItems) : j < 1}
      BY <1>1 DEF Places
    <3>3. 1 \in 1..(Len(original.groups[i].items) + 1)
      BY <1>0
    <3> QED
      BY <1>1, <1>3, <2>3, <3>1, <3>2, <3>3 DEF AsBefore
  <2> QED
    BY <1>0, <1>1, <1>2, <1>3, <2>1, <2>2, <2>3 DEF WorkInv, Working
<1>7. EndInv'
  BY <1>1, <1>2 DEF EndInv
<1>8. RowsInv'
  <2>1. Len(rows) = Len(Only(Before(original.groups, g + 1, 1), CallItems))
    BY GroupRows
  <2>2. ~Returned'
    BY <1>1 DEF Returned
  <2> QED
    BY <1>1, <1>3, <2>1, <2>2 DEF ReplyInv, RowsInv
<1> QED
  BY <1>5, <1>6, <1>7, <1>8

LEMMA GroupJudgedStep ==
  ASSUME ReplyInv, GroupJudged
  PROVE  ReplyInv'
<1> DEFINE was == original.groups[g]
           bad == Places(was.items, BadItems)
<1>0. /\ original \in Replies /\ conf \in Conf
      /\ groups \in Seq(Group) /\ Len(groups) = Len(original.groups) /\ Len(groups) \in Nat
      /\ g \in 1..(Len(groups) + 1) /\ rows \in Seq(Row) /\ Len(rows) \in Nat
      /\ \A i \in 1..Len(groups) :
           /\ groups[i] \in Group /\ groups[i].items \in Seq(Items)
           /\ original.groups[i] \in Group /\ original.groups[i].items \in Seq(Items)
  BY TypesAre
<1>1. /\ phase = "judge" /\ g <= Len(groups) /\ k > Len(groups[g].items)
      /\ \/ blocked = {} /\ NextGroup
         \/ /\ blocked # {}
            /\ phase' = IF Rewrites THEN "rewrite" ELSE "strip"
            /\ UNCHANGED <<g, k, blocked>>
      /\ UNCHANGED <<conf, original, groups, cause, rows>>
  BY DEF GroupJudged, Judging
<1>2. /\ g \in 1..Len(groups) /\ groups[g] = was /\ k \in 1..(Len(was.items) + 1) /\ Working
      /\ cause = "none" /\ original.shape # "other"
      /\ blocked = {j \in bad : j < k}
  BY <1>0, <1>1 DEF ReplyInv, WorkInv, Working, AsBefore
<1>3. k = Len(was.items) + 1 /\ was.items \in Seq(Items)
  BY <1>0, <1>1, <1>2
<1>4. blocked = bad /\ bad \subseteq 1..Len(was.items)
  BY <1>2, <1>3 DEF Places
<1>5. BadItems' = BadItems /\ ClearItems' = ClearItems /\ Rewrites' = Rewrites /\ RowOf' = RowOf
  BY <1>1, SameRules
<1>6. GroupsInv'
  BY <1>1 DEF ReplyInv, GroupsInv
<1>7. ChangedInv'
  BY <1>1, <1>5 DEF ReplyInv, ChangedInv
<1>8. CASE blocked = {}
  <2>1. NextGroup /\ groups' = groups
    BY <1>1, <1>8
  <2>2. groups'[g].items = Dealt(was.items, BadItems, Rewrites)
    BY <1>2, <1>3, <1>4, <1>8, <2>1, DealtIs
  <2>3. TypeOK' /\ WorkInv' /\ EndInv' /\ RowsInv'
    BY <1>0, <1>1, <1>2, <1>3, <2>1, <2>2, NextGroupStep
  <2> QED
    BY <1>6, <1>7, <2>3 DEF ReplyInv
<1>9. CASE blocked # {}
  <2>1. /\ phase' = IF Rewrites THEN "rewrite" ELSE "strip"
        /\ g' = g /\ k' = k /\ blocked' = blocked /\ groups' = groups
        /\ conf' = conf /\ original' = original /\ cause' = cause /\ rows' = rows
    BY <1>1, <1>9
  <2>2. TypeOK'
    BY <1>0, <1>1, <1>2, <1>3, <1>4, <2>1 DEF ReplyInv, TypeOK, Judging
  <2>3. WorkInv'
    <3>1. [was EXCEPT !.items = Swap(@, bad \ blocked)] = was
      <4>1. Swap(was.items, bad \ blocked) = was.items
        BY <1>3, <1>4 DEF Swap
      <4>2. was \in Group
        BY <1>0, <1>2
      <4> QED
        BY <4>1, <4>2 DEF Group
    <3>2. AsBefore(was)'
      BY <1>2, <1>3, <1>4, <1>5, <2>1, <3>1 DEF AsBefore
    <3> QED
      BY <1>0, <1>2, <1>5, <2>1, <3>2 DEF ReplyInv, WorkInv, Working
  <2>4. EndInv'
    BY <1>2, <2>1 DEF ReplyInv, EndInv
  <2>5. RowsInv'
    BY <1>2, <1>5, <2>1 DEF ReplyInv, RowsInv, Working, Returned
  <2> QED
    BY <1>6, <1>7, <2>2, <2>3, <2>4, <2>5 DEF ReplyInv
<1> QED
  BY <1>8, <1>9

(* A group another list of items is put into.                              *)
LEMMA Relisted ==
  ASSUME NEW gr \in Group, NEW a \in Seq(Items)
  PROVE  LET new == [gr EXCEPT !.items = a] IN
         /\ new \in Group /\ new.items = a /\ new.fin = gr.fin /\ new.notes = gr.notes
         /\ \A b : [new EXCEPT !.items = b] = [gr EXCEPT !.items = b]
<1>1. gr = [items |-> gr.items, fin |-> gr.fin, notes |-> gr.notes]
      /\ gr.fin \in Reasons /\ gr.notes \in Nat
  BY DEF Group
<1>2. \A b : [gr EXCEPT !.items = b] = [items |-> b, fin |-> gr.fin, notes |-> gr.notes]
  BY <1>1
<1>3. \A b : [[items |-> a, fin |-> gr.fin, notes |-> gr.notes] EXCEPT !.items = b]
               = [items |-> b, fin |-> gr.fin, notes |-> gr.notes]
  OBVIOUS
<1>4. [items |-> a, fin |-> gr.fin, notes |-> gr.notes] \in Group
  BY <1>1 DEF Group
<1> QED
  BY <1>2, <1>3, <1>4

LEMMA RewriteCallStep ==
  ASSUME ReplyInv, RewriteCall
  PROVE  ReplyInv'
<1> DEFINE was  == original.groups[g]
           s    == was.items
           bad  == Places(s, BadItems)
           done == bad \ blocked
           i    == CHOOSE j \in blocked : \A l \in blocked : j <= l
           a    == Swap(s, done \cup {i})
           new  == [was EXCEPT !.items = a]
<1>0. /\ original \in Replies /\ conf \in Conf
      /\ groups \in Seq(Group) /\ Len(groups) = Len(original.groups) /\ Len(groups) \in Nat
      /\ g \in 1..(Len(groups) + 1) /\ rows \in Seq(Row) /\ Len(rows) \in Nat
      /\ \A n \in 1..Len(groups) :
           /\ groups[n] \in Group /\ groups[n].items \in Seq(Items)
           /\ original.groups[n] \in Group /\ original.groups[n].items \in Seq(Items)
  BY TypesAre
<1>1. /\ phase = "rewrite" /\ blocked # {}
      /\ groups' = [groups EXCEPT ![g].items[i] = Echo]
      /\ blocked' = blocked \ {i}
      /\ UNCHANGED <<conf, original, g, k, phase, cause, rows>>
  BY DEF RewriteCall
<1>2. /\ g \in 1..Len(groups) /\ Working /\ cause = "none"
      /\ k = Len(s) + 1 /\ blocked \subseteq bad /\ Rewrites
      /\ groups[g] = [was EXCEPT !.items = Swap(s, done)]
  <2>1. g \in 1..Len(groups) /\ Working /\ cause = "none" /\ AsBefore(was)
    BY <1>0, <1>1 DEF ReplyInv, WorkInv, Working
  <2> QED
    BY <1>1, <2>1 DEF AsBefore
<1>3. was \in Group /\ s \in Seq(Items)
  BY <1>0, <1>2
<1>4. i \in blocked /\ i \in 1..Len(s) /\ i \in bad
  <2>1. bad \subseteq Nat /\ bad \subseteq 1..Len(s)
    BY DEF Places
  <2>2. blocked \subseteq Nat
    BY <1>2, <2>1
  <2>3. \E j \in blocked : \A l \in blocked : j <= l
    <3> HIDE DEF bad
    <3> QED
      BY <1>1, <2>2, LeastNumber
  <2>4. i \in blocked
    BY <2>3
  <2> HIDE DEF i, bad
  <2> QED
    BY <1>2, <2>1, <2>4
<1> HIDE DEF i
<1>5. bad \ blocked' = done \cup {i}
  BY <1>1, <1>2, <1>4
<1>6. groups' = [groups EXCEPT ![g] = new]
  <2>1. groups' = [groups EXCEPT ![g] = [groups[g] EXCEPT !.items = [groups[g].items EXCEPT ![i] = Echo]]]
    BY <1>1, Zenon
  <2> DEFINE b == Swap(s, done)
             c == [b EXCEPT ![i] = Echo]
  <2>2. b \in Seq(Items)
    BY <1>3, SwapIs
  <2>3. c = a
    BY <1>3, <1>4 DEF Swap
  <2>4. groups[g] = [was EXCEPT !.items = b]
    BY <1>2
  <2> HIDE DEF was, a, b, c
  <2>5. groups[g].items = b /\ [groups[g] EXCEPT !.items = a] = [was EXCEPT !.items = a]
    <3>1. LET r == [was EXCEPT !.items = b] IN
          r.items = b /\ \A d : [r EXCEPT !.items = d] = [was EXCEPT !.items = d]
      BY <1>3, <2>2, Relisted
    <3> QED
      BY <2>4, <3>1
  <2> QED
    BY <2>1, <2>3, <2>5 DEF c
<1>7. /\ a \in Seq(Items) /\ Len(a) = Len(s) /\ Only(a, {Text}) = Only(s, {Text})
      /\ Only(a, ClearItems) = Only(s, ClearItems)
      /\ (\E j \in 1..Len(s) : IsCall(a[j])) <=> \E j \in 1..Len(s) : IsCall(s[j])
  <2>1. done \cup {i} \subseteq Places(s, BadItems)
    BY <1>4
  <2> HIDE DEF s, done
  <2> QED
    BY <1>3, <2>1, SwapIs
<1>8. new \in Group /\ new.items = a /\ new.fin = was.fin /\ new.notes = was.notes
  <2> HIDE DEF was, a
  <2> QED
    BY <1>3, <1>7, Relisted
<1>9. HasCalls(new) <=> HasCalls(was)
  BY <1>7, <1>8 DEF HasCalls
<1> HIDE DEF new, a
<1>10. groups' \in Seq(Group) /\ Len(groups') = Len(groups) /\ groups'[g] = new
       /\ \A n \in 1..Len(groups) : n # g => groups'[n] = groups[n]
  BY <1>0, <1>2, <1>6, <1>8
<1>11. BadItems' = BadItems /\ ClearItems' = ClearItems /\ Rewrites' = Rewrites /\ RowOf' = RowOf
  BY <1>1, SameRules
<1>12. TypeOK'
  <2>1. blocked' \subseteq 1..Len(s)
    BY <1>1, <1>2 DEF Places
  <2> QED
    BY <1>0, <1>1, <1>2, <1>10, <2>1 DEF ReplyInv, TypeOK, Judging
<1>13. GroupsInv'
  <2>1. Fits(new, was, original.shape)
    BY <1>3, <1>7, <1>8, <1>9 DEF Fits
  <2>2. \A n \in 1..Len(groups) : Fits(groups'[n], original.groups[n], original.shape)
    BY <1>2, <1>10, <2>1 DEF ReplyInv, GroupsInv
  <2> QED
    BY <1>1, <1>10, <2>2 DEF GroupsInv
<1>14. WorkInv'
  <2>1. ASSUME NEW n \in 1..Len(groups), n = g PROVE AsBefore(original.groups[n])'
    <3>1. blocked' \subseteq bad
      BY <1>1, <1>2
    <3>2. groups'[g] = [was EXCEPT !.items = Swap(s, bad \ blocked')]
      BY <1>5, <1>10 DEF new, a
    <3>3. (original.groups[n])' = was /\ k' \in 1..(Len(s) + 1) /\ g' = g
      BY <1>1, <1>2, <1>3, <2>1
    <3> QED
      BY <1>1, <1>2, <1>11, <3>1, <3>2, <3>3 DEF AsBefore
  <2> QED
    <3>1. /\ original.shape # "other"
          /\ \A n \in 1..Len(groups) : n > g => groups[n] = original.groups[n]
          /\ \A n \in 1..Len(groups) : n < g =>
               groups[n].items = Dealt(original.groups[n].items, BadItems, Rewrites)
      BY <1>2 DEF ReplyInv, WorkInv
    <3>2. \A n \in 1..Len(groups) : n > g => groups'[n] = original.groups[n]
      BY <1>0, <1>10, <3>1
    <3>3. \A n \in 1..Len(groups) : n < g =>
            groups'[n].items = Dealt(original.groups[n].items, BadItems, Rewrites)
      BY <1>0, <1>10, <3>1
    <3>5. g \in Nat /\ ~(g > Len(groups))
      BY <1>0, <1>2
    <3> QED
      BY <1>1, <1>2, <1>10, <1>11, <3>1, <3>2, <3>3, <2>1, <3>5 DEF WorkInv
<1>15. EndInv'
  BY <1>1, <1>2 DEF EndInv
<1>16. RowsInv'
  BY <1>1, <1>11 DEF ReplyInv, RowsInv, Working, Returned
<1>17. ChangedInv'
  <2>1. Len(rows) = Len(Only(Flat(original.groups, g), CallItems))
    BY <1>2, GroupRows
  <2>2. ASSUME NEW n \in 1..Len(groups)
        PROVE  /\ Only(groups'[n].items, ClearItems) = Only(original.groups[n].items, ClearItems)
               /\ groups'[n] # original.groups[n] =>
                    Len(rows) >= Len(Only(Flat(original.groups, n), CallItems))
    <3>1. CASE n = g
      BY <1>0, <1>7, <1>8, <1>10, <2>1, <3>1
    <3>2. CASE n # g
      BY <1>2, <1>10, <3>2 DEF ReplyInv, ChangedInv
    <3> QED
      BY <3>1, <3>2
  <2> QED
    BY <1>1, <1>10, <1>11, <2>2 DEF ChangedInv
<1> QED
  BY <1>12, <1>13, <1>14, <1>15, <1>16, <1>17 DEF ReplyInv

LEMMA GroupRewrittenStep ==
  ASSUME ReplyInv, GroupRewritten
  PROVE  ReplyInv'
<1> DEFINE was == original.groups[g]
           s   == was.items
<1>0. /\ groups \in Seq(Group) /\ Len(groups) = Len(original.groups) /\ Len(groups) \in Nat
      /\ g \in 1..(Len(groups) + 1)
      /\ \A n \in 1..Len(groups) : original.groups[n] \in Group /\ original.groups[n].items \in Seq(Items)
  BY TypesAre
<1>1. /\ phase = "rewrite" /\ blocked = {} /\ NextGroup
      /\ UNCHANGED <<conf, original, groups, cause, rows>>
  BY DEF GroupRewritten
<1>2. /\ g \in 1..Len(groups) /\ Working /\ k = Len(s) + 1 /\ Rewrites
      /\ groups[g] = [was EXCEPT !.items = Swap(s, Places(s, BadItems))]
  <2>1. g \in 1..Len(groups) /\ Working /\ AsBefore(was)
    BY <1>0, <1>1 DEF ReplyInv, WorkInv, Working
  <2>2. Places(s, BadItems) \ blocked = Places(s, BadItems)
    BY <1>1
  <2> QED
    BY <1>1, <2>1, <2>2 DEF AsBefore
<1>3. groups[g].items = Dealt(s, BadItems, Rewrites)
  <2>1. was \in Group /\ s \in Seq(Items)
    BY <1>0, <1>2
  <2>2. Swap(s, Places(s, BadItems)) \in Seq(Items)
    BY <2>1, SwapIs
  <2>3. groups[g].items = Swap(s, Places(s, BadItems))
    <3>1. LET r == [was EXCEPT !.items = Swap(s, Places(s, BadItems))] IN
          r.items = Swap(s, Places(s, BadItems))
      BY <2>1, <2>2, Relisted
    <3> QED
      BY <1>2, <3>1
  <2> QED
    BY <1>2, <2>3 DEF Dealt
<1>4. BadItems' = BadItems /\ ClearItems' = ClearItems /\ Rewrites' = Rewrites /\ RowOf' = RowOf
  BY <1>1, SameRules
<1>5. TypeOK' /\ WorkInv' /\ EndInv' /\ RowsInv'
  <2>1. groups' = groups /\ g <= Len(groups)
    BY <1>0, <1>1, <1>2
  <2> QED
    BY <1>0, <1>1, <1>2, <1>3, <2>1, NextGroupStep
<1>6. GroupsInv'
  BY <1>1 DEF ReplyInv, GroupsInv
<1>7. ChangedInv'
  BY <1>1, <1>4 DEF ReplyInv, ChangedInv
<1> QED
  BY <1>5, <1>6, <1>7 DEF ReplyInv

LEMMA StripGroupStep ==
  ASSUME ReplyInv, StripGroup
  PROVE  ReplyInv'
<1> DEFINE was == original.groups[g]
           s   == was.items
           new == Stripped(was)
<1>0. /\ original \in Replies
      /\ groups \in Seq(Group) /\ Len(groups) = Len(original.groups) /\ Len(groups) \in Nat
      /\ g \in 1..(Len(groups) + 1)
      /\ \A n \in 1..Len(groups) :
           groups[n] \in Group /\ original.groups[n] \in Group /\ original.groups[n].items \in Seq(Items)
  BY TypesAre
<1>1. /\ phase = "strip" /\ groups' = [groups EXCEPT ![g] = Stripped(groups[g])] /\ NextGroup
      /\ UNCHANGED <<conf, original, cause, rows>>
  BY DEF StripGroup
<1>2. /\ g \in 1..Len(groups) /\ g <= Len(groups) /\ Working /\ k = Len(s) + 1 /\ ~Rewrites
      /\ groups[g] = was /\ blocked = Places(s, BadItems)
  <2>1. g \in 1..Len(groups) /\ Working /\ AsBefore(was)
    BY <1>0, <1>1 DEF ReplyInv, WorkInv, Working
  <2> QED
    BY <1>0, <1>1, <2>1 DEF AsBefore
<1>3. was \in Group /\ s \in Seq(Items)
  BY <1>0, <1>2
<1>4. /\ new \in Group /\ new.items = Only(s, Items \ BadItems) /\ new.notes > 0
      /\ HasCalls(new) => new.fin = was.fin
      /\ ~HasCalls(new) => new.fin = IF original.shape = "responses" THEN was.fin ELSE "stop"
      /\ original.shape = "responses" => new.fin = was.fin
  BY <1>2, <1>3, StrippedIs
<1>5. original.shape = "responses" => was.fin = "none"
  BY <1>0, <1>2, OriginalIs
<1> HIDE DEF new
<1>6. groups' \in Seq(Group) /\ Len(groups') = Len(groups) /\ groups'[g] = new
      /\ \A n \in 1..Len(groups) : n # g => groups'[n] = groups[n]
  <2>1. groups' = [groups EXCEPT ![g] = new]
    BY <1>1, <1>2 DEF new
  <2> QED
    BY <1>0, <1>2, <1>4, <2>1
<1>7. BadItems' = BadItems /\ ClearItems' = ClearItems /\ Rewrites' = Rewrites /\ RowOf' = RowOf
  BY <1>1, SameRules
<1>8. TypeOK' /\ WorkInv' /\ EndInv' /\ RowsInv'
  <2>1. groups'[g].items = Dealt(s, BadItems, Rewrites)
    BY <1>2, <1>4, <1>6 DEF Dealt
  <2> QED
    BY <1>1, <1>2, <1>6, <2>1, NextGroupStep
<1>9. /\ Only(new.items, {Text}) = Only(s, {Text})
      /\ Only(new.items, ClearItems) = Only(s, ClearItems)
  BY <1>3, <1>4, StripIs
<1>10. GroupsInv'
  <2>1. Fits(new, was, original.shape)
    BY <1>4, <1>5, <1>9 DEF Fits
  <2>2. \A n \in 1..Len(groups) : Fits(groups'[n], original.groups[n], original.shape)
    BY <1>2, <1>6, <2>1 DEF ReplyInv, GroupsInv
  <2> QED
    BY <1>1, <1>6, <2>2 DEF GroupsInv
<1>11. ChangedInv'
  <2>1. Len(rows) = Len(Only(Flat(original.groups, g), CallItems)) /\ Len(rows) \in Nat
    BY <1>2, GroupRows, TypesAre
  <2>2. cause = "none"
    BY <1>2 DEF ReplyInv, WorkInv
  <2>3. ASSUME NEW n \in 1..Len(groups)
        PROVE  /\ Only(groups'[n].items, ClearItems) = Only(original.groups[n].items, ClearItems)
               /\ groups'[n] # original.groups[n] =>
                    Len(rows) >= Len(Only(Flat(original.groups, n), CallItems))
    <3>1. CASE n = g
      BY <1>6, <1>9, <2>1, <3>1
    <3>2. CASE n # g
      BY <1>6, <2>2, <3>2 DEF ReplyInv, ChangedInv
    <3> QED
      BY <3>1, <3>2
  <2> QED
    BY <1>1, <1>6, <1>7, <2>3 DEF ChangedInv
<1> QED
  BY <1>8, <1>10, <1>11 DEF ReplyInv

(* The end of a reply that was screened to its last group, or all of whose *)
(* calls were dropped.                                                     *)
LEMMA ReturnStep ==
  ASSUME ReplyInv, Return
  PROVE  ReplyInv'
<1> DEFINE N == Len(original.groups)
           calls == Only(Flat(original.groups, N), CallItems)
<1>0. /\ original \in Replies /\ Len(groups) = N /\ N \in Nat /\ g \in 1..(Len(groups) + 1)
  BY TypesAre
<1>1. /\ phase \in {"judge", "drop"} /\ g > Len(groups) /\ phase' = "done"
      /\ UNCHANGED <<conf, original, groups, g, k, blocked, cause, rows>>
  BY DEF Return
<1>2. g = N + 1
  BY <1>0, <1>1
<1>3. BadItems' = BadItems /\ ClearItems' = ClearItems /\ Rewrites' = Rewrites /\ RowOf' = RowOf
  BY <1>1, SameRules
<1>4. phase = "drop" => cause = "guard" /\ conf.fail = "closed"
  BY DEF ReplyInv, EndInv
<1>5. phase = "judge" =>
        /\ cause = "none" /\ k = 1
        /\ \A i \in 1..Len(groups) :
             i < g => groups[i].items = Dealt(original.groups[i].items, BadItems, Rewrites)
  BY <1>1 DEF ReplyInv, WorkInv, Working
<1>6. phase = "judge" => Len(rows) = Len(calls)
  <2>1. phase = "judge" => Len(rows) = Len(Only(Before(original.groups, N + 1, 1), CallItems))
    BY <1>2, <1>5 DEF ReplyInv, RowsInv, Working
  <2>2. N + 1 \in 1..(N + 1) /\ (N + 1) - 1 = N
    BY <1>0
  <2>3. Before(original.groups, N + 1, 1) = Flat(original.groups, N)
    BY <1>0, <2>2, BeforeFirst
  <2> QED
    BY <2>1, <2>3
<1>7. TypeOK'
  BY <1>1 DEF ReplyInv, TypeOK, Judging
<1>8. GroupsInv'
  BY <1>1 DEF ReplyInv, GroupsInv
<1>9. WorkInv'
  BY <1>1 DEF WorkInv, Working
<1>10. EndInv'
  <2>1. \A i \in 1..Len(groups) : i < g
    BY <1>0, <1>2
  <2>2. cause = "guard" /\ conf.fail = "closed" => \A i \in 1..Len(groups) : i < g => ~HasCalls(groups[i])
    BY DEF ReplyInv, EndInv
  <2> QED
    BY <1>0, <1>1, <1>2, <1>3, <1>4, <1>5, <2>1, <2>2 DEF EndInv
<1>11. RowsInv'
  BY <1>1, <1>3, <1>4, <1>6 DEF ReplyInv, RowsInv, Working, Returned
<1>12. ChangedInv'
  BY <1>1, <1>3 DEF ReplyInv, ChangedInv
<1> QED
  BY <1>7, <1>8, <1>9, <1>10, <1>11, <1>12 DEF ReplyInv

(* The row of a call that is judged is that of the next call.              *)
LEMMA JudgedIs ==
  ASSUME ReplyInv, Judging, k <= Len(groups[g].items), IsCall(Item)
  PROVE  LET calls == Only(Flat(original.groups, Len(original.groups)), CallItems) IN
         /\ Judged \in Seq(Row) /\ Len(Judged) = Len(rows) + 1 /\ Len(Judged) <= Len(calls)
         /\ \A i \in 1..Len(Judged) : Judged[i] = RowOf[calls[i]]
<1> DEFINE was  == original.groups[g]
           item == was.items[k]
           calls == Only(Flat(original.groups, Len(original.groups)), CallItems)
           seen  == Only(Before(original.groups, g, k), CallItems)
<1>0. /\ original \in Replies /\ Len(groups) = Len(original.groups) /\ Len(groups) \in Nat
      /\ g \in 1..(Len(groups) + 1) /\ rows \in Seq(Row) /\ Len(rows) \in Nat
  BY TypesAre
<1>1. phase = "judge" /\ g \in 1..Len(groups) /\ Working
  BY <1>0 DEF Judging, Working
<1>2. /\ groups[g] = was /\ k \in 1..(Len(was.items) + 1)
      /\ Len(rows) = Len(seen) /\ Len(rows) <= Len(calls)
      /\ \A i \in 1..Len(rows) : rows[i] = RowOf[calls[i]]
  BY <1>1 DEF ReplyInv, WorkInv, AsBefore, RowsInv
<1>3. was.items \in Seq(Calls \cup {Text}) /\ was.items \in Seq(Items)
  BY <1>0, <1>1, OriginalIs
<1>4. k \in 1..Len(was.items) /\ Item = item
  BY <1>2, <1>3 DEF Item
<1>5. item \in Items /\ item \in Calls
  BY <1>3, <1>4 DEF IsCall
<1>6. Judged = Append(rows, RowOf[item]) /\ RowOf[item] \in Row
  BY <1>4, <1>5, VerdictIs DEF Judged, RowOf, Row
<1>7. Len(seen) + 1 <= Len(calls) /\ calls[Len(seen) + 1] = item
  <2>1. calls = CallsOf(original.groups)
    BY <1>0, FlatIs
  <2> QED
    BY <1>0, <1>1, <1>4, <2>1, NextCall
<1> HIDE DEF calls, seen, item, was
<1>8. /\ Judged \in Seq(Row) /\ Len(Judged) = Len(rows) + 1
      /\ Judged[Len(rows) + 1] = RowOf[item]
      /\ \A i \in 1..Len(rows) : Judged[i] = rows[i]
  BY <1>0, <1>6
<1>9. Len(Judged) <= Len(calls)
  BY <1>2, <1>7, <1>8
<1>10. \A i \in 1..Len(Judged) : Judged[i] = RowOf[calls[i]]
  <2>1. \A i \in 1..Len(Judged) : i \in 1..Len(rows) \/ i = Len(rows) + 1
    BY <1>0, <1>8
  <2> QED
    BY <1>2, <1>7, <1>8, <2>1
<1> QED
  BY <1>8, <1>9, <1>10 DEF calls

LEMMA GuardErrorStep ==
  ASSUME ReplyInv, GuardError
  PROVE  ReplyInv'
<1> DEFINE calls == Only(Flat(original.groups, Len(original.groups)), CallItems)
<1>0. /\ original \in Replies /\ Len(groups) = Len(original.groups) /\ Len(groups) \in Nat
      /\ conf \in Conf /\ rows \in Seq(Row) /\ Len(rows) \in Nat
  BY TypesAre
<1>1. /\ \/ Judging /\ k <= Len(groups[g].items) /\ IsCall(Item) /\ rows' \in {rows, Judged}
         \/ phase = "rewrite" /\ blocked # {} /\ UNCHANGED rows
         \/ phase = "strip" /\ UNCHANGED rows
      /\ cause' = "guard"
      /\ phase' = IF conf.fail = "closed" THEN "drop" ELSE "done"
      /\ g' = 1
      /\ UNCHANGED <<conf, original, groups, k, blocked>>
  BY DEF GuardError
<1>2. cause = "none"
  BY <1>1 DEF ReplyInv, WorkInv, Working, Judging
<1>3. BadItems' = BadItems /\ ClearItems' = ClearItems /\ Rewrites' = Rewrites /\ RowOf' = RowOf
  BY <1>1, SameRules
<1>4. /\ rows' \in Seq(Row) /\ Len(rows') \in Nat /\ Len(rows') >= Len(rows) /\ Len(rows') <= Len(calls)
      /\ \A i \in 1..Len(rows') : rows'[i] = RowOf[calls[i]]
  <2>1. CASE rows' = rows
    BY <1>0, <2>1 DEF ReplyInv, RowsInv
  <2>2. CASE /\ Judging /\ k <= Len(groups[g].items) /\ IsCall(Item)
             /\ rows' = Judged
    <3>1. /\ Judged \in Seq(Row) /\ Len(Judged) = Len(rows) + 1 /\ Len(Judged) <= Len(calls)
          /\ \A i \in 1..Len(Judged) : Judged[i] = RowOf[calls[i]]
      BY <2>2, JudgedIs
    <3> QED
      BY <1>0, <2>2, <3>1
  <2> QED
    BY <1>1, <2>1, <2>2
<1>5. phase' \in {"drop", "done"} /\ (phase' = "drop" <=> conf.fail = "closed")
  BY <1>1
<1>6. TypeOK'
  BY <1>0, <1>1, <1>4, <1>5 DEF ReplyInv, TypeOK, Judging
<1>7. GroupsInv'
  BY <1>1 DEF ReplyInv, GroupsInv
<1>8. WorkInv'
  BY <1>5 DEF WorkInv, Working
<1>9. EndInv'
  BY <1>1, <1>5 DEF EndInv
<1>10. RowsInv'
  BY <1>1, <1>3, <1>4, <1>5 DEF RowsInv, Working, Returned
<1>11. ChangedInv'
  <2>1. ASSUME NEW i \in 1..Len(groups)
        PROVE  /\ Only(groups[i].items, ClearItems) = Only(original.groups[i].items, ClearItems)
               /\ groups[i] # original.groups[i] =>
                    Len(rows') >= Len(Only(Flat(original.groups, i), CallItems))
    <3>1. Len(Only(Flat(original.groups, i), CallItems)) \in Nat
      <4>1. i \in 0..Len(original.groups)
        BY <1>0
      <4>2. Only(Flat(original.groups, i), CallItems) \in Seq(Items)
        BY <1>0, <4>1, FlatIs, OnlyTyped
      <4> QED
        BY <4>2
    <3>2. /\ Only(groups[i].items, ClearItems) = Only(original.groups[i].items, ClearItems)
          /\ groups[i] # original.groups[i] =>
               Len(rows) >= Len(Only(Flat(original.groups, i), CallItems))
      BY <1>2 DEF ReplyInv, ChangedInv
    <3> QED
      BY <1>0, <1>4, <3>1, <3>2
  <2> QED
    BY <1>1, <1>3, <2>1 DEF ChangedInv
<1> QED
  BY <1>6, <1>7, <1>8, <1>9, <1>10, <1>11 DEF ReplyInv

LEMMA DropGroupStep ==
  ASSUME ReplyInv, DropGroup
  PROVE  ReplyInv'
<1> DEFINE was == original.groups[g]
           gr  == groups[g]
           new == Dropped(gr)
<1>0. /\ original \in Replies
      /\ groups \in Seq(Group) /\ Len(groups) = Len(original.groups) /\ Len(groups) \in Nat
      /\ g \in 1..(Len(groups) + 1)
      /\ \A n \in 1..Len(groups) : groups[n] \in Group /\ groups[n].items \in Seq(Items)
  BY TypesAre
<1>1. /\ phase = "drop" /\ g <= Len(groups)
      /\ groups' = [groups EXCEPT ![g] = Dropped(groups[g])] /\ g' = g + 1
      /\ UNCHANGED <<conf, original, k, blocked, phase, cause, rows>>
  BY DEF DropGroup
<1>2. /\ g \in 1..Len(groups) /\ cause = "guard" /\ conf.fail = "closed"
      /\ \A i \in 1..Len(groups) : i < g => ~HasCalls(groups[i])
  BY <1>0, <1>1 DEF ReplyInv, EndInv
<1>3. gr \in Group /\ gr.items \in Seq(Items) /\ gr.notes \in Nat
  <2>1. gr \in Group /\ gr.items \in Seq(Items)
    BY <1>0, <1>2
  <2> QED
    BY <2>1 DEF Group
<1>4. /\ new \in Group /\ new.items = Only(gr.items, {Text}) /\ ~HasCalls(new)
      /\ HasCalls(gr) =>
           new.notes > 0 /\ new.fin = IF original.shape = "responses" THEN gr.fin ELSE "stop"
      /\ ~HasCalls(gr) => new.notes >= gr.notes /\ new.fin \in {gr.fin, "stop"}
      /\ original.shape = "responses" => new.fin = gr.fin
  BY <1>3, DroppedIs
<1>5. original.shape = "responses" => was.fin = "none"
  BY <1>0, <1>2, OriginalIs
<1>6. Fits(gr, was, original.shape)
  BY <1>2 DEF ReplyInv, GroupsInv
<1>7. groups' = [groups EXCEPT ![g] = new]
  BY <1>1
<1>8. new.notes \in Nat
  BY <1>4 DEF Group
<1> HIDE DEF new
<1>9. groups' \in Seq(Group) /\ Len(groups') = Len(groups) /\ groups'[g] = new
      /\ \A n \in 1..Len(groups) : n # g => groups'[n] = groups[n]
  BY <1>0, <1>2, <1>4, <1>7
<1>10. Fits(new, was, original.shape)
  <2>1. Only(new.items, {Text}) = Only(gr.items, {Text})
    <3>1. {Text} \cap {Text} = {Text}
      OBVIOUS
    <3> QED
      BY <1>3, <1>4, <3>1, OnlyOnly
  <2> HIDE DEF gr, was
  <2>2. ASSUME HasCalls(was) PROVE new.notes > 0 /\ new.fin # "tool_calls"
    <3>1. CASE HasCalls(gr)
      BY <1>4, <1>5, <1>6, <3>1 DEF Fits
    <3>2. CASE ~HasCalls(gr)
      BY <1>3, <1>4, <1>6, <1>8, <2>2, <3>2 DEF Fits
    <3> QED
      BY <3>1, <3>2
  <2> QED
    BY <1>4, <1>6, <2>1, <2>2 DEF Fits
<1>11. TypeOK'
  BY <1>0, <1>1, <1>2, <1>9 DEF ReplyInv, TypeOK, Judging
<1>12. GroupsInv'
  <2>1. \A n \in 1..Len(groups) : Fits(groups'[n], original.groups[n], original.shape)
    BY <1>2, <1>9, <1>10 DEF ReplyInv, GroupsInv
  <2> QED
    BY <1>1, <1>9, <2>1 DEF GroupsInv
<1>13. WorkInv'
  BY <1>1 DEF WorkInv, Working
<1>14. EndInv'
  <2>1. \A i \in 1..Len(groups) : i < g + 1 => ~HasCalls(groups'[i])
    <3> TAKE i \in 1..Len(groups)
    <3>1. CASE i = g
      BY <1>4, <1>9, <3>1
    <3>2. CASE i # g
      BY <1>0, <1>2, <1>9, <3>2
    <3> QED
      BY <3>1, <3>2
  <2> QED
    BY <1>1, <1>2, <1>9, <2>1 DEF EndInv
<1>15. RowsInv'
  <2>1. RowOf' = RowOf
    BY <1>1, SameRules
  <2> QED
    BY <1>1, <2>1 DEF ReplyInv, RowsInv, Working, Returned
<1>16. ChangedInv'
  BY <1>1, <1>2 DEF ChangedInv
<1> QED
  BY <1>11, <1>12, <1>13, <1>14, <1>15, <1>16 DEF ReplyInv

LEMMA DropErrorStep ==
  ASSUME ReplyInv, DropError
  PROVE  ReplyInv'
<1>1. /\ phase = "drop" /\ phase' = "done" /\ cause' = "strip"
      /\ UNCHANGED <<conf, original, groups, g, k, blocked, rows>>
  BY DEF DropError
<1>2. conf.fail = "closed" /\ RowOf' = RowOf
  BY <1>1, SameRules DEF ReplyInv, EndInv
<1>3. TypeOK' /\ GroupsInv'
  BY <1>1 DEF ReplyInv, TypeOK, Judging, GroupsInv
<1>4. WorkInv' /\ EndInv' /\ ChangedInv'
  BY <1>1, <1>2 DEF WorkInv, EndInv, ChangedInv, Working, Conf
<1>5. RowsInv'
  BY <1>1, <1>2 DEF ReplyInv, RowsInv, Working, Returned
<1> QED
  BY <1>3, <1>4, <1>5 DEF ReplyInv

LEMMA NoStep ==
  ASSUME ReplyInv, UNCHANGED vars
  PROVE  ReplyInv'
<1>1. UNCHANGED <<conf, original, groups, g, k, blocked, phase, cause, rows>>
  BY DEF vars
<1>2. BadItems' = BadItems /\ ClearItems' = ClearItems /\ Rewrites' = Rewrites /\ RowOf' = RowOf
  BY <1>1, SameRules
<1>3. TypeOK' /\ GroupsInv' /\ ChangedInv'
  BY <1>1, <1>2 DEF ReplyInv, TypeOK, Judging, GroupsInv, ChangedInv
<1>4. WorkInv' /\ EndInv' /\ RowsInv'
  BY <1>1, <1>2 DEF ReplyInv, WorkInv, EndInv, RowsInv, AsBefore, Working, Returned
<1> QED
  BY <1>3, <1>4 DEF ReplyInv

LEMMA NextReplyInv ==
  ASSUME ReplyInv, [Next]_vars
  PROVE  ReplyInv'
<1>1. CASE JudgeItem
  BY <1>1, JudgeItemStep
<1>2. CASE GroupJudged
  BY <1>2, GroupJudgedStep
<1>3. CASE RewriteCall
  BY <1>3, RewriteCallStep
<1>4. CASE GroupRewritten
  BY <1>4, GroupRewrittenStep
<1>5. CASE StripGroup
  BY <1>5, StripGroupStep
<1>6. CASE Return
  BY <1>6, ReturnStep
<1>7. CASE GuardError
  BY <1>7, GuardErrorStep
<1>8. CASE DropGroup
  BY <1>8, DropGroupStep
<1>9. CASE DropError
  BY <1>9, DropErrorStep
<1>10. CASE Over \/ UNCHANGED vars
  BY <1>10, NoStep DEF Over
<1> QED
  BY <1>1, <1>2, <1>3, <1>4, <1>5, <1>6, <1>7, <1>8, <1>9, <1>10 DEF Next
-----------------------------------------------------------------------------
(***************************************************************************)
(* What it means for the reply.                                            *)
(***************************************************************************)

LEMMA ThenCallsAsJudged == ReplyInv => CallsAsJudged
<1> SUFFICES ASSUME ReplyInv, Returned PROVE
      /\ cause = "none" =>
           \A i \in 1..Len(groups) : groups[i].items = Outcome(original.groups[i].items)
      /\ cause = "guard" /\ conf.fail = "closed" => \A i \in 1..Len(groups) : ~HasCalls(groups[i])
  BY DEF CallsAsJudged
<1>1. phase = "done" /\ original.shape # "other"
  BY DEF Returned
<1>2. g \in 1..(Len(groups) + 1) /\ Len(groups) \in Nat
      /\ \A i \in 1..Len(groups) : original.groups[i].items \in Seq(Items)
  BY TypesAre
<1>3. ASSUME cause = "none", NEW i \in 1..Len(groups)
      PROVE  groups[i].items = Outcome(original.groups[i].items)
  <2>1. groups[i].items = Dealt(original.groups[i].items, BadItems, Rewrites)
    BY <1>1, <1>3 DEF ReplyInv, EndInv
  <2> QED
    BY <1>2, <2>1, DealtIs
<1>4. ASSUME cause = "guard", conf.fail = "closed", NEW i \in 1..Len(groups)
      PROVE  ~HasCalls(groups[i])
  <2>1. g = Len(groups) + 1 /\ (i < g => ~HasCalls(groups[i]))
    BY <1>1, <1>4 DEF ReplyInv, EndInv
  <2> QED
    BY <1>2, <2>1
<1> QED
  BY <1>3, <1>4

LEMMA ThenFinishFits == ReplyInv => FinishFits
BY DEF ReplyInv, GroupsInv, Fits, FinishFits

LEMMA ThenOtherKept == ReplyInv => OtherKept
<1> SUFFICES ASSUME ReplyInv, NEW i \in 1..Len(groups)
             PROVE  At(groups[i].items, OthersIn(groups[i].items)) =
                      At(original.groups[i].items, OthersIn(original.groups[i].items))
  BY DEF OtherKept
<1>1. groups[i].items \in Seq(Items) /\ original.groups[i].items \in Seq(Items)
  BY TypesAre
<1>2. Only(groups[i].items, {Text}) = Only(original.groups[i].items, {Text})
  BY DEF ReplyInv, GroupsInv, Fits
<1>3. At(groups[i].items, OthersIn(groups[i].items)) = Only(groups[i].items, {Text})
  BY <1>1, ListIs
<1>4. At(original.groups[i].items, OthersIn(original.groups[i].items))
        = Only(original.groups[i].items, {Text})
  BY <1>1, ListIs
<1> QED
  BY <1>2, <1>3, <1>4

LEMMA ThenRowsFirst == ReplyInv => RowsFirst
<1> SUFFICES ASSUME ReplyInv PROVE RowsFirst
  OBVIOUS
<1> DEFINE calls == CallsOf(original.groups)
           N == Len(original.groups)
<1>1. /\ original \in Replies /\ Len(groups) = N /\ N \in Nat /\ N \in 0..N
      /\ Len(rows) \in Nat
      /\ \A i \in 1..Len(groups) : groups[i].items \in Seq(Items) /\ original.groups[i].items \in Seq(Items)
  BY TypesAre
<1>2. calls = Only(Flat(original.groups, N), CallItems) /\ Flat(original.groups, N) \in Seq(Items)
  BY <1>1, FlatIs
<1>3. calls \in Seq(Items)
  BY <1>2, OnlyTyped
<1>4. /\ Len(rows) <= Len(calls) /\ \A i \in 1..Len(rows) : rows[i] = RowOf[calls[i]]
      /\ Returned /\ cause = "none" => Len(rows) = Len(calls)
  BY <1>2 DEF ReplyInv, RowsInv
<1>5. \A i \in 1..Len(rows) : rows[i] = [call |-> calls[i], verdict |-> Evaluate(calls[i])]
  <2> SUFFICES ASSUME NEW i \in 1..Len(rows)
               PROVE  rows[i] = [call |-> calls[i], verdict |-> Evaluate(calls[i])]
    OBVIOUS
  <2> HIDE DEF calls
  <2>1. i \in 1..Len(calls)
    BY <1>1, <1>3, <1>4
  <2>2. calls[i] \in Items
    BY <1>3, <2>1
  <2> QED
    BY <1>4, <2>2 DEF RowOf
<1>6. ASSUME cause = "none" \/ conf.fail = "open", NEW i \in 1..Len(groups)
      PROVE  /\ Clear(groups[i].items) = Clear(original.groups[i].items)
             /\ groups[i] # original.groups[i] =>
                  Len(rows) >= Len(CallsOf(SubSeq(original.groups, 1, i)))
  <2>1. /\ Only(groups[i].items, ClearItems) = Only(original.groups[i].items, ClearItems)
        /\ groups[i] # original.groups[i] =>
             Len(rows) >= Len(Only(Flat(original.groups, i), CallItems))
    BY <1>6 DEF ReplyInv, ChangedInv
  <2>2. /\ Clear(groups[i].items) = Only(groups[i].items, ClearItems)
        /\ Clear(original.groups[i].items) = Only(original.groups[i].items, ClearItems)
    BY <1>1, ListIs
  <2>3. i \in 0..Len(original.groups)
    BY <1>1
  <2>4. CallsOf(SubSeq(original.groups, 1, i)) = Only(Flat(original.groups, i), CallItems)
    BY <1>1, <2>3, FlatIs
  <2> QED
    BY <2>1, <2>2, <2>4
<1> HIDE DEF calls
<1> QED
  BY <1>4, <1>5, <1>6 DEF RowsFirst, calls

(* The groups, the rows and the place of the screening fit together at     *)
(* every step of it, whatever failed.                                      *)
THEOREM Invariance == Spec => []ReplyInv
<1>1. Init => ReplyInv
  BY InitReplyInv
<1>2. ReplyInv /\ [Next]_vars => ReplyInv'
  BY NextReplyInv
<1> QED
  BY <1>1, <1>2, PTL DEF Spec

(* A reply that was screened to its end has each call as its verdict       *)
(* demands, and one that failed closed has none (CallsAsJudged), for any   *)
(* replies, rules and knobs.                                               *)
THEOREM Judgement == Spec => []CallsAsJudged
<1>1. ReplyInv => CallsAsJudged
  BY ThenCallsAsJudged
<1> QED
  BY <1>1, Invariance, PTL

(* A choice that lost all of its calls says so and does not end in         *)
(* tool_calls, and one that has calls ends as it did (FinishFits).         *)
THEOREM Finish == Spec => []FinishFits
<1>1. ReplyInv => FinishFits
  BY ThenFinishFits
<1> QED
  BY <1>1, Invariance, PTL

(* Nothing but calls is ever taken from a reply (OtherKept).               *)
THEOREM Kept == Spec => []OtherKept
<1>1. ReplyInv => OtherKept
  BY ThenOtherKept
<1> QED
  BY <1>1, Invariance, PTL

(* The ledger has the calls of the reply from its first on, and all of a   *)
(* group before that is changed (Inv, that is TypeOK and RowsFirst).       *)
THEOREM Ledger == Spec => []Inv
<1>1. ReplyInv => Inv
  BY ThenRowsFirst DEF ReplyInv, Inv
<1> QED
  BY <1>1, Invariance, PTL
=============================================================================
