----------------------- MODULE ResponsesStreamProofs -----------------------
(***************************************************************************)
(* Theorems about ResponsesStream, for any replies whose calls are         *)
(* streamed one after the other, beside any other items, and any patterns. *)
(***************************************************************************)
EXTENDS ResponsesStream, SequenceLemmas, FiniteSetTheorems, TLAPS

(* An event as the upstream sent it.                                       *)
FromUpstream(e) == e.n \in 1..Len(received) /\ received[e.n] = e

ReceivedInv ==
  /\ \A k \in 1..Len(received) : received[k].n = k /\ received[k].call \in Seq(Pieces)
  /\ \A i \in Items : Count(received, i) <= Len(reply[i].script)

(* The one call that may be half streamed is the one that is open, and one *)
(* that is dealt with is complete unless the stream was cut in it.         *)
OpenInv ==
  /\ open # NoItem => open \in Started /\ IsCall(open) /\ calls[open] # <<>>
  /\ phase = "collect" =>
       /\ open \notin Finished
       /\ \A i \in Started \ Finished : IsCall(i) => i = open
  /\ phase \in {"judge", "build", "release"} =>
       /\ open # NoItem
       /\ cause = "none" => \A i \in Started \ Finished : ~IsCall(i)

(* The open item is judged once, behind its last event.                    *)
JudgedInv ==
  /\ Judged \subseteq Started
  /\ phase \in {"collect", "judge"} => open \notin Judged
  /\ phase \in {"build", "release"} =>
       open \in Judged /\ (Blocked <=> Evaluate(calls[open]) = "block")

(* Of calls, only events of the open one are held.                         *)
Holds(s) ==
  \A k \in 1..Len(s) : FromUpstream(s[k]) /\ (s[k].kind = "call" => s[k].ix = open)

(* What is flushed is flushed in open mode or was let through.             *)
QueueInv ==
  /\ Holds(held) /\ Holds(queue) /\ (queue # <<>> => open # NoItem)
  /\ phase \in {"collect", "judge", "build"} => queue = <<>>
  /\ phase = "flush" /\ queue # <<>> => Opened \/ (open \in Judged /\ Verdict[open] # "block")
  /\ phase \in {"collect", "release"} => cause = "none"
  /\ phase \in {"judge", "build"} => cause \in {"none", "cut"}

OutInv == \A k \in 1..Len(out) : out[k].n \in 1..Len(received)

AInv ==
  ~Overlapping /\ Inv /\ ReceivedInv /\ OpenInv /\ JudgedInv /\ QueueInv /\ OutInv
-----------------------------------------------------------------------------
(***************************************************************************)
(* The upstream.                                                           *)
(***************************************************************************)

LEMMA ItemsAre ==
  ASSUME reply \in Replies
  PROVE  /\ reply \in Seq(Item)
         /\ Items = 1..Len(reply) /\ Items \subseteq Nat /\ Items \subseteq Indices
         /\ NoItem \notin Items
         /\ \A i \in Items : reply[i] \in Item
<1>1. reply \in Seq(Item)
  BY RepliesAssumption
<1>2. Items = 1..Len(reply) /\ Items \subseteq Nat
  BY <1>1 DEF Items
<1>3. Items \subseteq Indices
  BY DEF Items, Indices
<1>4. \A i \in Items : reply[i] \in Item
  BY <1>1, <1>2
<1> QED
  BY <1>1, <1>2, <1>3, <1>4, MarkersAssumption

LEMMA ScriptIs ==
  ASSUME reply \in Replies, NEW i \in Items
  PROVE  LET s == reply[i].script IN
         /\ s \in Seq([type : Types \ {"completed"}, call : Seq(Pieces)])
         /\ Len(s) \in Nat /\ Len(s) > 1
         /\ reply[i].kind \in {"call", "text"} /\ reply[i].call \in Seq(Pieces)
         /\ reply[i].kind = "call" => s[1].call # <<>>
         /\ \A k \in 1..Len(s) :
              /\ s[k] \in [type : Types \ {"completed"}, call : Seq(Pieces)]
              /\ s[k].type = "added" <=> k = 1
              /\ s[k].type = "done" <=> k = Len(s)
<1> DEFINE s == reply[i].script
<1>1. reply[i] \in Item
  BY ItemsAre
<1>2. s \in Seq([type : Types \ {"completed"}, call : Seq(Pieces)])
  BY <1>1 DEF Item
<1>3. DOMAIN s = 1..Len(s) /\ Len(s) \in Nat
  BY <1>2
<1>4. /\ Len(s) > 1
      /\ reply[i].kind = "call" => s[1].call # <<>>
      /\ \A k \in DOMAIN s : (s[k].type = "added" <=> k = 1) /\ (s[k].type = "done" <=> k = Len(s))
  BY RepliesAssumption DEF Items
<1>5. \A k \in 1..Len(s) : s[k] \in [type : Types \ {"completed"}, call : Seq(Pieces)]
  <2> DEFINE S == [type : Types \ {"completed"}, call : Seq(Pieces)]
  <2>1. s \in Seq(S)
    BY <1>2
  <2> HIDE DEF s, S
  <2>2. \A k \in 1..Len(s) : s[k] \in S
    BY <2>1
  <2> QED
    BY <2>2 DEF S
<1>6. reply[i].kind \in {"call", "text"} /\ reply[i].call \in Seq(Pieces)
  BY <1>1 DEF Item
<1> QED
  BY <1>2, <1>3, <1>4, <1>5, <1>6

(* The events of an item, after one more event.                            *)
LEMMA CountGrows ==
  ASSUME TypeOK, NEW e \in Event, received' = Append(received, e), NEW i \in Nat
  PROVE  /\ Count(received, i) \in Nat
         /\ Count(received', i) = IF e.ix = i THEN Count(received, i) + 1 ELSE Count(received, i)
<1> DEFINE n == Len(received)
           old == {k \in 1..Len(received) : received[k].ix = i}
           new == {k \in 1..Len(received') : received'[k].ix = i}
<1>1. received \in Seq(Event) /\ n \in Nat
  BY DEF TypeOK
<1>2. /\ Len(received') = n + 1 /\ received'[n + 1] = e
      /\ \A k \in 1..n : received'[k] = received[k]
  BY <1>1
<1>3. old \subseteq 1..n /\ n + 1 \notin old
  BY <1>1
<1>4. IsFiniteSet(old)
  <2>1. IsFiniteSet(1..n)
    BY <1>1, FS_Interval
  <2> HIDE DEF n, old
  <2> QED
    BY <1>3, <2>1, FS_Subset
<1>5. new = IF e.ix = i THEN old \cup {n + 1} ELSE old
  BY <1>1, <1>2
<1>6. Cardinality(old) \in Nat
  BY <1>4, FS_CardinalityType
<1>7. Cardinality(old \cup {n + 1}) = Cardinality(old) + 1
  BY <1>3, <1>4, FS_AddElement
<1>8. Count(received, i) = Cardinality(old) /\ Count(received', i) = Cardinality(new)
  BY DEF Count
<1> HIDE DEF old, new
<1> QED
  BY <1>5, <1>6, <1>7, <1>8

LEMMA CountType ==
  ASSUME TypeOK, NEW i \in Nat
  PROVE  Count(received, i) \in Nat
<1> DEFINE n == Len(received)
           old == {k \in 1..Len(received) : received[k].ix = i}
<1>1. n \in Nat /\ old \subseteq 1..n
  BY DEF TypeOK
<1>2. IsFiniteSet(1..n)
  BY <1>1, FS_Interval
<1>3. Count(received, i) = Cardinality(old)
  BY DEF Count
<1> HIDE DEF n, old
<1> QED
  BY <1>1, <1>2, <1>3, FS_Subset, FS_CardinalityType

LEMMA EmptyCount == \A i : Count(<<>>, i) = 0
<1> SUFFICES ASSUME NEW i PROVE Count(<<>>, i) = 0
  OBVIOUS
<1>1. {k \in 1..Len(<<>>) : <<>>[k].ix = i} = {}
  OBVIOUS
<1> QED
  BY <1>1, FS_EmptySet DEF Count

LEMMA FinishedStarted ==
  ASSUME TypeOK
  PROVE  Finished \subseteq Started /\ Started \subseteq Items
<1>1. reply \in Replies
  BY DEF TypeOK
<1>2. \A i \in Items : Len(reply[i].script) > 1 /\ Len(reply[i].script) \in Nat
  BY <1>1, ScriptIs
<1> QED
  BY <1>2 DEF Finished, Started

(* What may come next: the final event, or the next one of an item that    *)
(* may go on.                                                              *)
FinalEvent(e) ==
  /\ e.type = "completed" /\ e.kind = "none" /\ e.ix = NoItem
  /\ Finished = Items
ItemEvent(e) ==
  /\ e.ix \in Items /\ ItemMay(e.ix)
  /\ e.kind = reply[e.ix].kind /\ e.type # "completed"
  /\ e.type = "added" <=> e.ix \notin Started
  /\ e.type = "done" <=> Count(received, e.ix) + 1 = Len(reply[e.ix].script)
  /\ e.type = "added" /\ e.kind = "call" => e.call # <<>>

LEMMA NextOfIs ==
  ASSUME TypeOK, ReceivedInv, NEW i \in Items, ItemMay(i)
  PROVE  /\ NextOf(i) \in Event /\ ItemEvent(NextOf(i))
         /\ NextOf(i).n = Len(received) + 1 /\ NextOf(i).call \in Seq(Pieces)
<1> DEFINE s == reply[i].script
           k == Count(received, i) + 1
<1>1. reply \in Replies /\ Len(received) \in Nat
  BY DEF TypeOK
<1>2. i \in Nat /\ i \notin Finished
  BY <1>1, ItemsAre DEF ItemMay
<1>3. Count(received, i) \in Nat
  BY <1>2, CountType
<1>4. /\ Len(s) \in Nat /\ Len(s) > 1
      /\ reply[i].kind \in {"call", "text"}
      /\ reply[i].kind = "call" => s[1].call # <<>>
      /\ \A j \in 1..Len(s) :
              /\ s[j] \in [type : Types \ {"completed"}, call : Seq(Pieces)]
              /\ s[j].type = "added" <=> j = 1
              /\ s[j].type = "done" <=> j = Len(s)
  BY <1>1, ScriptIs
<1>5. Count(received, i) < Len(s)
  BY <1>2, <1>3, <1>4 DEF ReceivedInv, Finished
<1>6. i \in Started <=> Count(received, i) > 0
  BY DEF Started
<1>7. /\ NextOf(i).n = Len(received) + 1 /\ NextOf(i).ix = i /\ NextOf(i).kind = reply[i].kind
      /\ NextOf(i).type = s[k].type /\ NextOf(i).call = s[k].call
      /\ NextOf(i).copy = <<>> /\ NextOf(i).note = FALSE
  BY DEF NextOf
<1>8. k \in 1..Len(s)
  BY <1>3, <1>4, <1>5
<1> HIDE DEF s, k
<1>9. /\ s[k].type \in Types \ {"completed"} /\ s[k].call \in Seq(Pieces)
      /\ s[k].type = "added" <=> k = 1
      /\ s[k].type = "done" <=> k = Len(s)
  BY <1>4, <1>8
<1>10. s[k].call \in Seq(Pieces \cup {Tool, Echo})
  BY <1>9
<1>11. NextOf(i) \in Event
  <2>1. <<>> \in Seq(Copy)
    OBVIOUS
  <2> QED
    BY <1>1, <1>2, <1>4, <1>7, <1>9, <1>10, <2>1 DEF Event, NextOf, s, k
<1>12. ItemEvent(NextOf(i))
  <2>1. k = 1 <=> i \notin Started
    BY <1>3, <1>6 DEF k
  <2>2. k = 1 /\ reply[i].kind = "call" => s[k].call # <<>>
    BY <1>4
  <2> QED
    BY <1>7, <1>9, <2>1, <2>2 DEF ItemEvent, s, k
<1> QED
  BY <1>7, <1>9, <1>11, <1>12

LEMMA CompletionIs ==
  ASSUME TypeOK, NEW new \in BOOLEAN, Finished = Items
  PROVE  /\ Completion(new) \in Event /\ FinalEvent(Completion(new))
         /\ Completion(new).n = Len(received) + 1 /\ Completion(new).call \in Seq(Pieces)
<1> DEFINE entry(i) == [id |-> IF new THEN NoItem ELSE i, kind |-> reply[i].kind, call |-> reply[i].call]
           copy     == [i \in Items |-> entry(i)]
<1>1. reply \in Replies /\ Len(received) \in Nat
  BY DEF TypeOK
<1>2. /\ Items = 1..Len(reply) /\ Len(reply) \in Nat /\ Items \subseteq Nat
      /\ \A i \in Items : reply[i].kind \in {"call", "text"} /\ reply[i].call \in Seq(Pieces)
  BY <1>1, ItemsAre, ScriptIs
<1>3. \A i \in Items : entry(i) \in Copy
  BY <1>2 DEF Copy
<1>4. copy \in Seq(Copy)
  <2> HIDE DEF entry
  <2> QED
    BY <1>2, <1>3
<1>5. /\ Completion(new).n = Len(received) + 1 /\ Completion(new).type = "completed"
      /\ Completion(new).ix = NoItem /\ Completion(new).kind = "none"
      /\ Completion(new).call = <<>> /\ Completion(new).copy = copy /\ Completion(new).note = FALSE
  BY DEF Completion
<1>6. Completion(new) \in Event
  <2> HIDE DEF copy
  <2>1. Completion(new) = [n |-> Len(received) + 1, type |-> "completed", ix |-> NoItem, kind |-> "none",
                           call |-> <<>>, copy |-> copy, note |-> FALSE]
    BY DEF Completion, copy
  <2> QED
    BY <1>1, <1>4, <2>1 DEF Event, Types
<1> QED
  BY <1>5, <1>6 DEF FinalEvent

LEMMA UpcomingEvent ==
  ASSUME TypeOK, ReceivedInv, NEW e \in Upcoming
  PROVE  /\ e \in Event /\ e.n = Len(received) + 1 /\ e.call \in Seq(Pieces)
         /\ FinalEvent(e) \/ ItemEvent(e)
<1>1. CASE Finished = Items
  <2>1. e \in {Completion(TRUE), Completion(FALSE)}
    BY <1>1 DEF Upcoming
  <2> QED
    BY <1>1, <2>1, CompletionIs
<1>2. CASE Finished # Items
  <2>1. PICK i \in {j \in Items : ItemMay(j)} : e = NextOf(i)
    BY <1>2 DEF Upcoming
  <2> QED
    BY <2>1, NextOfIs
<1> QED
  BY <1>1, <1>2

(* Which items have started and finished, after one more event.            *)
LEMMA ReplyGrows ==
  ASSUME TypeOK, ReceivedInv, NEW e \in Upcoming, received' = Append(received, e), UNCHANGED reply
  PROVE  /\ received' \in Seq(Event) /\ ReceivedInv'
         /\ Len(received') = Len(received) + 1
         /\ \A k \in 1..Len(received) : k \in 1..Len(received') /\ received'[k] = received[k]
         /\ FromUpstream(e)'
         /\ Started' = IF e.ix \in Items THEN Started \cup {e.ix} ELSE Started
         /\ Finished' = IF e.type = "done" THEN Finished \cup {e.ix} ELSE Finished
<1>1. /\ e \in Event /\ e.n = Len(received) + 1 /\ e.call \in Seq(Pieces)
      /\ FinalEvent(e) \/ ItemEvent(e)
  BY UpcomingEvent
<1>2. received \in Seq(Event) /\ reply \in Replies
  BY DEF TypeOK
<1>3. /\ Len(received) \in Nat /\ received' \in Seq(Event)
      /\ Len(received') = Len(received) + 1 /\ received'[Len(received) + 1] = e
      /\ \A k \in 1..Len(received) : received'[k] = received[k]
  BY <1>1, <1>2
<1>4. /\ Items' = Items /\ Items \subseteq Nat /\ NoItem \notin Items
  BY <1>2, ItemsAre DEF Items
<1>5. \A i \in Items :
        /\ Count(received, i) \in Nat
        /\ Count(received', i) = IF e.ix = i THEN Count(received, i) + 1 ELSE Count(received, i)
  BY <1>1, <1>4, CountGrows
<1>6. \A i \in Items : Len(reply[i].script) \in Nat
  BY <1>2, ScriptIs
<1>7. Started' = {i \in Items : Count(received', i) > 0}
  BY <1>4 DEF Started
<1>8. Finished' = {i \in Items : Count(received', i) = Len(reply[i].script)}
  BY <1>4 DEF Finished
<1>9. e.ix \in Items => ItemEvent(e) /\ e.ix \notin Finished
  BY <1>1, <1>4 DEF FinalEvent, ItemEvent, ItemMay
<1>10. e.ix \notin Items => e.type = "completed"
  BY <1>1 DEF FinalEvent, ItemEvent
<1>11. Started' = IF e.ix \in Items THEN Started \cup {e.ix} ELSE Started
  <2>1. \A i \in Items : Count(received', i) > 0 <=> Count(received, i) > 0 \/ e.ix = i
    BY <1>5
  <2> QED
    BY <1>7, <2>1 DEF Started
<1>12. Finished' = IF e.type = "done" THEN Finished \cup {e.ix} ELSE Finished
  BY <1>4, <1>5, <1>8, <1>9, <1>10 DEF Finished, ItemEvent
<1>13. \A i \in Items : Count(received', i) <= Len(reply[i].script)
  <2> SUFFICES ASSUME NEW i \in Items PROVE Count(received', i) <= Len(reply[i].script)
    OBVIOUS
  <2>1. Count(received, i) <= Len(reply[i].script)
    BY DEF ReceivedInv
  <2>2. e.ix = i => Count(received, i) # Len(reply[i].script)
    BY <1>9 DEF Finished
  <2> QED
    BY <1>5, <1>6, <2>1, <2>2
<1>14. \A k \in 1..Len(received') : received'[k].n = k /\ received'[k].call \in Seq(Pieces)
  <2>1. \A k \in 1..Len(received') : k \in 1..Len(received) \/ k = Len(received) + 1
    BY <1>3
  <2> QED
    BY <1>1, <1>3, <2>1 DEF ReceivedInv
<1>15. ReceivedInv'
  BY <1>4, <1>13, <1>14 DEF ReceivedInv
<1>16. FromUpstream(e)'
  BY <1>1, <1>3 DEF FromUpstream
<1> QED
  BY <1>3, <1>11, <1>12, <1>15, <1>16
-----------------------------------------------------------------------------
(***************************************************************************)
(* The client.                                                             *)
(***************************************************************************)

Prefix == \A k \in 1..Len(received) : k \in 1..Len(received') /\ received'[k] = received[k]

LEMMA SameOut ==
  ASSUME OutInv, UNCHANGED out, Prefix
  PROVE  UNCHANGED <<Passed, Replaced>> /\ OutInv'
<1>1. \A k \in 1..Len(out) : received'[out[k].n] = received[out[k].n] /\ out[k].n \in 1..Len(received')
  BY DEF OutInv, Prefix
<1>2. \A k \in 1..Len(out) : Changed(out[k])' <=> Changed(out[k])
  BY <1>1 DEF Changed
<1>3. Passed' = Passed
  BY <1>2 DEF Passed
<1>4. Replaced' = Replaced
  BY <1>2 DEF Replaced
<1> QED
  BY <1>1, <1>3, <1>4 DEF OutInv

(* The calls the client has seen something of, after one more event.       *)
LEMMA OutGrows ==
  ASSUME TypeOK, OutInv, Prefix, NEW f \in Event, f.n \in 1..Len(received'), out' = out \o <<f>>
  PROVE  /\ out' \in Seq(Event) /\ OutInv'
         /\ Passed'   = IF f.kind = "call" /\ f = received'[f.n] THEN Passed \cup {f.ix} ELSE Passed
         /\ Replaced' = IF f.kind = "call" /\ f # received'[f.n] THEN Replaced \cup {f.ix} ELSE Replaced
<1> DEFINE n == Len(out)
<1>1. out \in Seq(Event) /\ n \in Nat
  BY DEF TypeOK
<1>2. /\ out' \in Seq(Event) /\ Len(out') = n + 1 /\ out'[n + 1] = f
      /\ \A k \in 1..n : out'[k] = out[k]
  BY <1>1
<1>3. 1..Len(out') = (1..n) \cup {n + 1}
  BY <1>1, <1>2
<1>4. \A k \in 1..n : out[k].n \in 1..Len(received') /\ received'[out[k].n] = received[out[k].n]
  BY DEF OutInv, Prefix
<1>5. OutInv'
  BY <1>2, <1>3, <1>4 DEF OutInv
<1>6. \A x : /\ x \in Passed <=>
                    \E k \in 1..n : out[k].kind = "call" /\ out[k] = received[out[k].n] /\ out[k].ix = x
             /\ x \in Replaced <=>
                    \E k \in 1..n : out[k].kind = "call" /\ out[k] # received[out[k].n] /\ out[k].ix = x
  BY DEF Passed, Replaced, Changed
<1>7. \A x : /\ x \in Passed' <=>
                    \E k \in 1..Len(out') :
                      out'[k].kind = "call" /\ out'[k] = received'[out'[k].n] /\ out'[k].ix = x
             /\ x \in Replaced' <=>
                    \E k \in 1..Len(out') :
                      out'[k].kind = "call" /\ out'[k] # received'[out'[k].n] /\ out'[k].ix = x
  BY DEF Passed, Replaced, Changed
<1> HIDE DEF n
<1>8. \A x : /\ x \in Passed' <=> x \in Passed \/ (f.kind = "call" /\ f = received'[f.n] /\ f.ix = x)
             /\ x \in Replaced' <=> x \in Replaced \/ (f.kind = "call" /\ f # received'[f.n] /\ f.ix = x)
  <2> SUFFICES ASSUME NEW x
               PROVE  /\ x \in Passed' <=> x \in Passed \/ (f.kind = "call" /\ f = received'[f.n] /\ f.ix = x)
                      /\ x \in Replaced' <=>
                           x \in Replaced \/ (f.kind = "call" /\ f # received'[f.n] /\ f.ix = x)
    OBVIOUS
  <2>1. \A k \in 1..n : out'[k] = out[k] /\ received'[out'[k].n] = received[out[k].n]
    BY <1>2, <1>4
  <2>2. out'[n + 1] = f /\ received'[out'[n + 1].n] = received'[f.n]
    BY <1>2
  <2> DEFINE N == 1..Len(out')
             pass(k) == out[k].kind = "call" /\ out[k] = received[out[k].n] /\ out[k].ix = x
             repl(k) == out[k].kind = "call" /\ out[k] # received[out[k].n] /\ out[k].ix = x
             pass1(k) == out'[k].kind = "call" /\ out'[k] = received'[out'[k].n] /\ out'[k].ix = x
             repl1(k) == out'[k].kind = "call" /\ out'[k] # received'[out'[k].n] /\ out'[k].ix = x
  <2>3. \A k \in 1..n : (pass1(k) <=> pass(k)) /\ (repl1(k) <=> repl(k))
    BY <2>1
  <2>4. /\ pass1(n + 1) <=> f.kind = "call" /\ f = received'[f.n] /\ f.ix = x
        /\ repl1(n + 1) <=> f.kind = "call" /\ f # received'[f.n] /\ f.ix = x
    BY <2>2
  <2>5. /\ x \in Passed <=> \E k \in 1..n : pass(k)
        /\ x \in Replaced <=> \E k \in 1..n : repl(k)
        /\ x \in Passed' <=> \E k \in N : pass1(k)
        /\ x \in Replaced' <=> \E k \in N : repl1(k)
    BY <1>6, <1>7
  <2>6. N = (1..n) \cup {n + 1}
    BY <1>3
  <2> HIDE DEF N, pass, repl, pass1, repl1
  <2> QED
    BY <2>3, <2>4, <2>5, <2>6
<1>9. Passed' = IF f.kind = "call" /\ f = received'[f.n] THEN Passed \cup {f.ix} ELSE Passed
  BY <1>8
<1>10. Replaced' = IF f.kind = "call" /\ f # received'[f.n] THEN Replaced \cup {f.ix} ELSE Replaced
  BY <1>8
<1> QED
  BY <1>2, <1>5, <1>9, <1>10

LEMMA InitAInv == ~Overlapping /\ Init => AInv
<1> SUFFICES ASSUME ~Overlapping, Init PROVE AInv
  OBVIOUS
<1>1. /\ conf \in Conf /\ reply \in Replies /\ phase = "collect" /\ open = NoItem
      /\ held = <<>> /\ queue = <<>> /\ received = <<>> /\ out = <<>> /\ rows = <<>>
      /\ marked = {} /\ notes = 0 /\ cause = "none" /\ calls = [i \in Indices |-> <<>>]
  BY DEF Init
<1>2. calls \in [Indices -> Seq(Pieces)]
  BY <1>1
<1>3. TypeOK
  BY <1>1, <1>2 DEF TypeOK
<1>4. Passed = {} /\ Replaced = {} /\ Judged = {}
  BY <1>1 DEF Passed, Replaced, Judged
<1>5. Inv
  BY <1>1, <1>3, <1>4 DEF Inv
<1>6. Started = {}
  BY <1>1, EmptyCount DEF Started
<1>7. ReceivedInv
  <2>1. \A i \in Items : 0 <= Len(reply[i].script)
    BY <1>1, ScriptIs
  <2> QED
    BY <1>1, <2>1, EmptyCount DEF ReceivedInv
<1>8. open \notin Finished
  BY <1>1, <1>3, <1>6, FinishedStarted
<1>9. OpenInv /\ JudgedInv /\ QueueInv /\ OutInv
  BY <1>1, <1>4, <1>6, <1>8 DEF OpenInv, JudgedInv, QueueInv, OutInv, Holds
<1> QED
  BY <1>5, <1>7, <1>9 DEF AInv
-----------------------------------------------------------------------------
(***************************************************************************)
(* The handler.                                                            *)
(***************************************************************************)

(* An event of a call belongs to the open one, or opens it.                *)
LEMMA CallsComeAlone ==
  ASSUME AInv, phase = "collect", NEW e \in Upcoming
  PROVE  /\ open = NoItem /\ e.kind = "call" =>
              e.type = "added" /\ e.ix \in Items /\ e.ix \notin Started /\ e.call # <<>>
              /\ \A i \in Started \ Finished : ~IsCall(i)
         /\ open # NoItem /\ e.kind = "call" => e.ix = open
         /\ open # NoItem /\ e.ix = open => ItemEvent(e) /\ e.type # "added"
<1>1. FinalEvent(e) \/ ItemEvent(e)
  BY UpcomingEvent DEF AInv, Inv
<1>2. reply \in Replies
  BY DEF AInv, Inv, TypeOK
<1>3. e.kind = "call" => ItemEvent(e) /\ IsCall(e.ix) /\ e.ix \in Items /\ e.ix \notin Finished
  BY <1>1 DEF FinalEvent, ItemEvent, ItemMay, IsCall
<1>4. e.kind = "call" /\ e.ix \in Started => e.ix = open
  BY <1>3 DEF AInv, OpenInv
<1>5. e.kind = "call" /\ e.ix \notin Started => \A i \in Started \ Finished : ~IsCall(i)
  BY <1>3 DEF ItemEvent, ItemMay, AInv
<1>6. open # NoItem => open \in Started \ Finished /\ IsCall(open)
  BY DEF AInv, OpenInv
<1>7. NoItem \notin Items
  BY <1>2, ItemsAre
<1>8. open # NoItem /\ e.ix = open => ItemEvent(e) /\ e.type # "added"
  BY <1>1, <1>6, <1>7 DEF FinalEvent, ItemEvent
<1>9. e.kind = "call" /\ e.ix \notin Started => e.type = "added" /\ e.call # <<>>
  BY <1>3 DEF ItemEvent
<1> QED
  BY <1>3, <1>4, <1>5, <1>6, <1>7, <1>8, <1>9

(* The facts of a step that takes an event, but for what becomes of it.    *)
LEMMA Taken ==
  ASSUME AInv, phase = "collect", NEW e \in Upcoming, received' = Append(received, e), UNCHANGED reply
  PROVE  /\ Prefix /\ ReceivedInv' /\ received' \in Seq(Event) /\ e \in Event
         /\ FromUpstream(e)' /\ e.n \in 1..Len(received')
         /\ Started \subseteq Started' /\ Items' = Items
         /\ Started' = IF e.ix \in Items THEN Started \cup {e.ix} ELSE Started
         /\ Finished' = IF e.type = "done" THEN Finished \cup {e.ix} ELSE Finished
         /\ Items \subseteq Indices /\ NoItem \notin Items /\ Started \subseteq Items
         /\ e.call \in Seq(Pieces)
<1>1. TypeOK /\ ReceivedInv /\ reply \in Replies
  BY DEF AInv, Inv, TypeOK
<1>2. e \in Event /\ e.call \in Seq(Pieces)
  BY <1>1, UpcomingEvent
<1>3. Prefix
  BY <1>1, ReplyGrows DEF Prefix
<1>4. e.n \in 1..Len(received')
  BY <1>1, ReplyGrows DEF FromUpstream
<1>5. Items' = Items /\ Items \subseteq Indices /\ NoItem \notin Items /\ Started \subseteq Items
  BY <1>1, ItemsAre, FinishedStarted DEF Items
<1> QED
  BY <1>1, <1>2, <1>3, <1>4, <1>5, ReplyGrows

LEMMA AppendIs ==
  ASSUME NEW S, NEW s \in Seq(S), NEW x \in S
  PROVE  /\ Append(s, x) \in Seq(S) /\ Append(s, x) # <<>> /\ Append(s, x) = s \o <<x>>
         /\ Len(s) \in Nat /\ Len(Append(s, x)) = Len(s) + 1
         /\ Append(s, x)[Len(s) + 1] = x
         /\ \A k \in 1..Len(s) : Append(s, x)[k] = s[k]
<1>1. Append(s, x) = s \o <<x>>
  OBVIOUS
<1>2. Len(Append(s, x)) = Len(s) + 1 /\ Len(s) \in Nat
  OBVIOUS
<1>3. Append(s, x) # <<>>
  BY <1>2
<1> QED
  BY <1>1, <1>2, <1>3

(* What a rewritten event shows is nothing the upstream sent.              *)
LEMMA ReplacementIs ==
  /\ {<<Tool>>, <<Echo>>, <<Tool, Echo>>} \subseteq Seq(Pieces \cup {Tool, Echo})
  /\ {<<Tool>>, <<Echo>>, <<Tool, Echo>>} \cap Seq(Pieces) = {}
<1>1. <<Tool>> \notin Seq(Pieces)
  <2>1. <<Tool>>[1] = Tool /\ Len(<<Tool>>) = 1
    OBVIOUS
  <2> QED
    BY <2>1, MarkersAssumption
<1>2. <<Echo>> \notin Seq(Pieces)
  <2>1. <<Echo>>[1] = Echo /\ Len(<<Echo>>) = 1
    OBVIOUS
  <2> QED
    BY <2>1, MarkersAssumption
<1>3. <<Tool, Echo>> \notin Seq(Pieces)
  <2>1. <<Tool, Echo>>[1] = Tool /\ Len(<<Tool, Echo>>) = 2
    OBVIOUS
  <2> QED
    BY <2>1, MarkersAssumption
<1> QED
  BY <1>1, <1>2, <1>3

(* patch_completed keeps what the event is and where it came.              *)
LEMMA PatchedIs ==
  ASSUME TypeOK, NEW e \in Event
  PROVE  Patched(e) \in Event /\ Patched(e).n = e.n /\ Patched(e).kind = e.kind
<1> DEFINE fix(it) == CASE ~Marked(it)             -> it
                        [] Marked(it) /\ Rewrites  -> [it EXCEPT !.call = <<Tool, Echo>>]
                        [] Marked(it) /\ ~Rewrites -> [it EXCEPT !.kind = "gone"]
           copy    == [k \in DOMAIN e.copy |-> fix(e.copy[k])]
<1>1. e.copy \in Seq(Copy)
  BY DEF Event
<1>2. \A it \in Copy : fix(it) \in Copy
  <2> SUFFICES ASSUME NEW it \in Copy PROVE fix(it) \in Copy
    OBVIOUS
  <2>1. [it EXCEPT !.call = <<Tool, Echo>>] \in Copy
    BY ReplacementIs DEF Copy
  <2>2. [it EXCEPT !.kind = "gone"] \in Copy
    BY DEF Copy
  <2>3. CASE ~Marked(it)
    BY <2>3
  <2>4. CASE Marked(it) /\ Rewrites
    BY <2>1, <2>4
  <2>5. CASE Marked(it) /\ ~Rewrites
    BY <2>2, <2>5
  <2> QED
    BY <2>3, <2>4, <2>5
<1>3. copy \in Seq(Copy)
  <2> HIDE DEF fix
  <2> QED
    BY <1>1, <1>2
<1>4. Patched(e) = [e EXCEPT !.copy = copy, !.note = notes > 0]
  BY DEF Patched
<1> HIDE DEF copy
<1>5. [e EXCEPT !.copy = copy, !.note = notes > 0] \in Event
  <2> DEFINE f == [e EXCEPT !.copy = copy]
  <2>1. f \in Event
    BY <1>3 DEF Event
  <2>2. [e EXCEPT !.copy = copy, !.note = notes > 0] = [f EXCEPT !.note = notes > 0]
    BY DEF Event
  <2> HIDE DEF f
  <2>3. \A b \in BOOLEAN : [f EXCEPT !.note = b] \in Event
    BY <2>1 DEF Event
  <2>4. (notes > 0) \in BOOLEAN
    OBVIOUS
  <2> QED
    BY <2>2, <2>3, <2>4
<1>6. /\ [e EXCEPT !.copy = copy, !.note = notes > 0].n = e.n
      /\ [e EXCEPT !.copy = copy, !.note = notes > 0].kind = e.kind
  BY DEF Event
<1> QED
  BY <1>4, <1>5, <1>6

LEMMA AssembledIs ==
  ASSUME NEW e, e.call \in Seq(Pieces), calls[open] \in Seq(Pieces), calls[open] # <<>>
  PROVE  Assembled(e) \in Seq(Pieces) /\ Assembled(e) # <<>>
<1>1. calls[open] \o e.call \in Seq(Pieces) /\ calls[open] \o e.call # <<>>
  OBVIOUS
<1>2. Len(e.call) > 1 => e.call # <<>>
  OBVIOUS
<1> QED
  BY <1>1, <1>2 DEF Assembled

LEMMA JudgedItems ==
  ASSUME TypeOK
  PROVE  Judged \subseteq Items /\ Items \subseteq Indices
<1> DEFINE Row == [index : Items, call : Seq(Pieces), verdict : Verdicts]
<1>1. rows \in Seq(Row) /\ reply \in Replies
  BY DEF TypeOK
<1>2. \A k \in 1..Len(rows) : rows[k] \in Row
  <2> HIDE DEF Row
  <2> QED
    BY <1>1
<1>3. \A k \in 1..Len(rows) : rows[k].index \in Items
  BY <1>2
<1> QED
  BY <1>1, <1>3, ItemsAre DEF Judged

(* What was judged and let out stays so while calls of others grow.        *)
LEMMA VerdictsStay ==
  ASSUME AInv, UNCHANGED <<conf, rows>>, \A i \in Judged : calls'[i] = calls[i]
  PROVE  Judged' = Judged /\ \A i \in Judged : Verdict'[i] = Verdict[i]
<1>1. Judged' = Judged
  BY DEF Judged
<1>2. Judged \subseteq Indices
  BY JudgedItems DEF AInv, Inv
<1>3. \A i \in Judged : Verdict[i] = Evaluate(calls[i]) /\ Verdict'[i] = Evaluate(calls[i])'
  BY <1>1, <1>2 DEF Verdict
<1>4. \A i \in Judged : Evaluate(calls[i])' = Evaluate(calls[i])
  BY DEF Evaluate
<1> QED
  BY <1>1, <1>3, <1>4

LEMMA ReceiveAInv ==
  ASSUME AInv, NEW e \in Upcoming, Receive(e)
  PROVE  AInv'
<1>1. /\ ~Overlapping /\ Inv /\ ReceivedInv /\ OpenInv /\ JudgedInv /\ QueueInv /\ OutInv
      /\ TypeOK
  BY DEF AInv, Inv
<1>2. /\ phase = "collect" /\ received' = Append(received, e)
      /\ UNCHANGED <<conf, reply, marked, notes, queue, cause, rows>>
  BY DEF Receive, upstreamVars, blockVars
<1>3. /\ Prefix /\ ReceivedInv' /\ received' \in Seq(Event) /\ e \in Event
      /\ FromUpstream(e)' /\ e.n \in 1..Len(received')
      /\ Started \subseteq Started' /\ Items' = Items
      /\ Started' = IF e.ix \in Items THEN Started \cup {e.ix} ELSE Started
      /\ Finished' = IF e.type = "done" THEN Finished \cup {e.ix} ELSE Finished
      /\ Items \subseteq Indices /\ NoItem \notin Items /\ Started \subseteq Items
      /\ e.call \in Seq(Pieces)
  BY <1>2, Taken
<1>4. /\ open = NoItem /\ e.kind = "call" =>
              e.type = "added" /\ e.ix \in Items /\ e.ix \notin Started /\ e.call # <<>>
              /\ \A i \in Started \ Finished : ~IsCall(i)
      /\ open # NoItem /\ e.kind = "call" => e.ix = open
      /\ open # NoItem /\ e.ix = open => ItemEvent(e) /\ e.type # "added"
  BY <1>2, CallsComeAlone
<1>5. /\ queue = <<>> /\ cause = "none" /\ open \notin Judged
      /\ open \notin Finished
      /\ \A i \in Started \ Finished : IsCall(i) => i = open
  BY <1>1, <1>2 DEF QueueInv, JudgedInv, OpenInv
<1>6. \A i : IsCall(i)' <=> IsCall(i)
  BY <1>2 DEF IsCall
<1>7. FinalEvent(e) \/ ItemEvent(e)
  BY <1>1, UpcomingEvent
<1>8. calls \in [Indices -> Seq(Pieces)] /\ Judged \subseteq Started
  BY <1>1 DEF TypeOK, JudgedInv
<1>9. CASE open = NoItem /\ e.type = "added" /\ e.kind = "call"
  <2>1. /\ open' = e.ix /\ held' = <<e>> /\ calls' = [calls EXCEPT ![e.ix] = e.call]
        /\ UNCHANGED <<phase, out>>
    BY <1>9 DEF Receive
  <2>2. /\ e.ix \in Items /\ e.ix \notin Started /\ e.call # <<>>
        /\ \A i \in Started \ Finished : ~IsCall(i)
    BY <1>4, <1>9
  <2>3. IsCall(e.ix)
    BY <1>7, <1>9 DEF FinalEvent, ItemEvent, IsCall
  <2>4. calls' \in [Indices -> Seq(Pieces)] /\ calls'[e.ix] = e.call
    BY <1>3, <1>8, <2>1, <2>2
  <2>5. held' \in Seq(Event) /\ held' # <<>>
    BY <1>3, <2>1
  <2>6. TypeOK'
    BY <1>1, <1>2, <1>3, <2>1, <2>2, <2>4, <2>5 DEF TypeOK
  <2>7. \A i \in Judged : calls'[i] = calls[i]
    BY <1>3, <1>8, <2>1, <2>2
  <2>8. Judged' = Judged /\ \A i \in Judged : Verdict'[i] = Verdict[i]
    BY <1>2, <2>7, VerdictsStay
  <2>9. UNCHANGED <<Passed, Replaced>> /\ OutInv'
    BY <1>1, <1>3, <2>1, SameOut
  <2>10. Inv'
    BY <1>1, <1>2, <1>3, <2>1, <2>2, <2>5, <2>6, <2>8, <2>9 DEF Inv, Opened
  <2>11. e.ix \notin Finished
    BY <1>1, <2>2, FinishedStarted
  <2>12. OpenInv'
    BY <1>2, <1>3, <1>6, <1>9, <2>1, <2>2, <2>3, <2>4, <2>11 DEF OpenInv
  <2>13. JudgedInv'
    BY <1>2, <1>3, <1>8, <2>1, <2>2, <2>8 DEF JudgedInv
  <2>14. Holds(held)'
    BY <1>3, <2>1 DEF Holds
  <2>15. QueueInv'
    BY <1>2, <1>5, <2>1, <2>14 DEF QueueInv, Holds
  <2> QED
    BY <1>1, <1>3, <2>9, <2>10, <2>12, <2>13, <2>15 DEF AInv
<1>10. CASE open = NoItem /\ ~(e.type = "added" /\ e.kind = "call")
  <2>1. PICK f : /\ f = (IF e.type = "completed" THEN Patched(e) ELSE e)
                 /\ out' = Append(out, f) /\ UNCHANGED <<phase, open, held, calls>>
    BY <1>10 DEF Receive
  <2>2. e.kind # "call"
    BY <1>4, <1>10
  <2>3. f \in Event /\ f.n = e.n /\ f.kind # "call"
    BY <1>1, <1>3, <2>1, <2>2, PatchedIs
  <2>4. /\ out' \in Seq(Event) /\ OutInv' /\ UNCHANGED <<Passed, Replaced>>
    <3>1. out \in Seq(Event)
      BY <1>1 DEF TypeOK
    <3>2. out' = out \o <<f>>
      BY <2>1, <2>3, <3>1, AppendIs
    <3> QED
      BY <1>1, <1>3, <2>3, <3>2, OutGrows
  <2>5. TypeOK'
    BY <1>1, <1>2, <1>3, <2>1, <2>4 DEF TypeOK
  <2>6. Judged' = Judged /\ \A i \in Judged : Verdict'[i] = Verdict[i]
    BY <1>2, <2>1, VerdictsStay
  <2>7. Inv'
    BY <1>1, <1>2, <2>1, <2>4, <2>5, <2>6 DEF Inv, Opened
  <2>8. OpenInv'
    <3>1. \A i \in Started' \ Finished' : ~IsCall(i)
      <4>1. \A i \in Started \ Finished : ~IsCall(i)
        BY <1>3, <1>5, <1>10
      <4>2. e.ix \in Items => ~IsCall(e.ix)
        BY <1>3, <1>7, <2>2 DEF FinalEvent, ItemEvent, IsCall
      <4> QED
        BY <1>3, <4>1, <4>2
    <3>2. open' = NoItem /\ NoItem \notin Finished'
      BY <1>3, <1>5, <1>7, <1>10, <2>1 DEF FinalEvent, ItemEvent
    <3> QED
      BY <1>2, <1>6, <2>1, <3>1, <3>2 DEF OpenInv
  <2>9. JudgedInv'
    BY <1>1, <1>2, <1>3, <2>1, <2>6 DEF JudgedInv
  <2>10. held = <<>>
    BY <1>1, <1>10 DEF Inv
  <2>11. QueueInv'
    BY <1>2, <1>5, <2>1, <2>10 DEF QueueInv, Holds
  <2> QED
    BY <1>1, <1>3, <2>4, <2>7, <2>8, <2>9, <2>11 DEF AInv
<1>11. CASE open # NoItem
  <2>1. /\ held' = Append(held, e) /\ UNCHANGED <<open, out>>
        /\ calls' = IF e.ix = open THEN [calls EXCEPT ![open] = Assembled(e)] ELSE calls
        /\ phase' = IF Own(e, {"done"}) THEN "judge" ELSE "collect"
    BY <1>11 DEF Receive
  <2>2. open \in Started /\ open \in Items /\ IsCall(open) /\ calls[open] \in Seq(Pieces) /\ calls[open] # <<>>
    BY <1>1, <1>3, <1>8, <1>11 DEF OpenInv
  <2>3. Assembled(e) \in Seq(Pieces) /\ Assembled(e) # <<>>
    BY <1>3, <2>2, AssembledIs
  <2>4. calls' \in [Indices -> Seq(Pieces)] /\ calls'[open] # <<>>
    BY <1>3, <1>8, <2>1, <2>2, <2>3
  <2>5. held' \in Seq(Event) /\ held' # <<>> /\ Len(held') = Len(held) + 1 /\ held'[Len(held) + 1] = e
        /\ Len(held) \in Nat /\ \A k \in 1..Len(held) : held'[k] = held[k]
    <3>1. held \in Seq(Event)
      BY <1>1 DEF TypeOK
    <3> QED
      BY <1>3, <2>1, <3>1, AppendIs
  <2>6. TypeOK'
    BY <1>1, <1>2, <1>3, <2>1, <2>4, <2>5 DEF TypeOK
  <2>7. \A i \in Judged : calls'[i] = calls[i]
    BY <1>3, <1>5, <1>8, <2>1, <2>2
  <2>8. Judged' = Judged /\ \A i \in Judged : Verdict'[i] = Verdict[i]
    BY <1>2, <2>7, VerdictsStay
  <2>9. UNCHANGED <<Passed, Replaced>> /\ OutInv'
    BY <1>1, <1>3, <2>1, SameOut
  <2>10. Inv'
    BY <1>1, <1>2, <1>11, <2>1, <2>5, <2>6, <2>8, <2>9 DEF Inv, Opened
  <2>11. OpenInv'
    <3>1. Own(e, {"done"}) => open \in Finished'
      BY <1>3 DEF Own
    <3>2. ~Own(e, {"done"}) => open \notin Finished'
      BY <1>3, <1>5 DEF Own
    <3>3. \A i \in Started' \ Finished' : IsCall(i) => i = open
      <4>1. e.ix \in Items /\ IsCall(e.ix) => e.ix = open
        BY <1>3, <1>4, <1>7, <1>11 DEF FinalEvent, ItemEvent, IsCall
      <4> QED
        BY <1>3, <1>5, <4>1
    <3> QED
      BY <1>2, <1>3, <1>6, <1>11, <2>1, <2>2, <2>4, <3>1, <3>2, <3>3 DEF OpenInv
  <2>12. JudgedInv'
    BY <1>2, <1>3, <1>5, <1>8, <2>1, <2>8 DEF JudgedInv
  <2>13. Holds(held)'
    <3>1. \A k \in 1..Len(held) :
            /\ held[k].n \in 1..Len(received') /\ received'[held[k].n] = held[k]
            /\ held[k].kind = "call" => held[k].ix = open
      BY <1>1, <1>3 DEF QueueInv, Holds, FromUpstream, Prefix
    <3>2. \A k \in 1..Len(held') : k \in 1..Len(held) \/ k = Len(held) + 1
      BY <2>5
    <3> QED
      BY <1>3, <1>4, <1>11, <2>1, <2>5, <3>1, <3>2 DEF Holds, FromUpstream
  <2>14. QueueInv'
    BY <1>2, <1>5, <2>1, <2>13 DEF QueueInv, Holds
  <2> QED
    BY <1>1, <1>3, <2>9, <2>10, <2>11, <2>12, <2>14 DEF AInv
<1> QED
  BY <1>9, <1>10, <1>11
(* Steps that neither take nor yield an event nor judge a call.            *)
LEMMA StillInv ==
  ASSUME AInv, UNCHANGED <<conf, reply, received, out, calls, rows>>,
         cause' = cause \/ cause \in {"none", "cut"},
         cause' \in {"none", "guard", "upstream", "cut"},
         phase' \in {"collect", "judge", "build", "release", "flush"} \cup Terminal,
         open' \in {open, NoItem}, held' \in Seq(Event), held' = <<>> <=> open' = NoItem,
         queue' \in Seq(Event), marked' \subseteq [id : Items, args : Seq(Pieces)], notes' \in Nat
  PROVE  /\ Inv' /\ ReceivedInv' /\ OutInv' /\ Judged' = Judged
         /\ Started' = Started /\ Finished' = Finished /\ Items' = Items
         /\ \A i : IsCall(i)' <=> IsCall(i)
         /\ \A i \in Judged : Verdict'[i] = Verdict[i]
<1>1. Prefix
  BY DEF Prefix
<1>2. UNCHANGED <<Passed, Replaced>> /\ OutInv'
  BY <1>1, SameOut DEF AInv
<1>3. Items' = Items /\ Started' = Started /\ Finished' = Finished /\ \A i : IsCall(i)' <=> IsCall(i)
  BY DEF Items, Started, Finished, IsCall
<1>4. Judged' = Judged /\ \A i \in Judged : Verdict'[i] = Verdict[i]
  BY VerdictsStay
<1>5. TypeOK'
  BY <1>3 DEF AInv, Inv, TypeOK
<1>6. ReceivedInv'
  BY <1>3 DEF AInv, ReceivedInv
<1>7. Opened => Opened'
  BY DEF Opened
<1>8. Inv'
  BY <1>2, <1>4, <1>5, <1>7 DEF AInv, Inv
<1> QED
  BY <1>2, <1>3, <1>4, <1>6, <1>8

LEMMA UpstreamEndsAInv ==
  ASSUME AInv, UpstreamEnds
  PROVE  AInv'
<1>1. /\ phase = "collect" /\ cause' = (IF open = NoItem THEN "none" ELSE "cut")
      /\ phase' = (IF open = NoItem THEN "flush" ELSE "judge")
      /\ UNCHANGED <<conf, reply, open, held, marked, notes, queue, received, out, calls, rows>>
  BY DEF UpstreamEnds, upstreamVars, blockVars
<1>2. /\ TypeOK /\ (held = <<>> <=> open = NoItem)
      /\ OpenInv /\ JudgedInv /\ QueueInv
  BY DEF AInv, Inv
<1>3. cause = "none" /\ queue = <<>>
  BY <1>1, <1>2 DEF QueueInv
<1>4. /\ Inv' /\ ReceivedInv' /\ OutInv' /\ Judged' = Judged
      /\ Started' = Started /\ Finished' = Finished /\ Items' = Items
      /\ \A i : IsCall(i)' <=> IsCall(i)
      /\ \A i \in Judged : Verdict'[i] = Verdict[i]
  BY <1>1, <1>2, <1>3, StillInv DEF TypeOK
<1>5. OpenInv'
  BY <1>1, <1>2, <1>4 DEF OpenInv
<1>6. JudgedInv'
  BY <1>1, <1>2, <1>4 DEF JudgedInv
<1>7. QueueInv'
  BY <1>1, <1>2, <1>3 DEF QueueInv, Holds, FromUpstream
<1> QED
  BY <1>4, <1>5, <1>6, <1>7 DEF AInv

LEMMA JudgeAInv ==
  ASSUME AInv, Judge
  PROVE  AInv' /\ Judged' = Judged \cup {open} /\ open \in Indices /\ open \notin Judged
<1> DEFINE v   == Evaluate(calls[open])
           row == [index |-> open, call |-> calls[open], verdict |-> v]
<1>1. /\ phase = "judge" /\ phase' = "build" /\ rows' = Append(rows, row)
      /\ UNCHANGED <<conf, reply, open, held, marked, notes, queue, cause, received, out, calls>>
  BY DEF Judge, upstreamVars, blockVars
<1>2. /\ Inv /\ TypeOK /\ OpenInv /\ JudgedInv /\ QueueInv /\ OutInv /\ ReceivedInv
  BY DEF AInv, Inv
<1>3. open # NoItem /\ open \in Started /\ open \notin Judged
  BY <1>1, <1>2 DEF OpenInv, JudgedInv
<1>4. open \in Items /\ open \in Indices
  BY <1>2, <1>3, FinishedStarted, JudgedItems
<1>5. v \in Verdicts /\ calls[open] \in Seq(Pieces)
  BY <1>2, <1>4 DEF TypeOK, Evaluate, Verdicts
<1>6. /\ rows' \in Seq([index : Items, call : Seq(Pieces), verdict : Verdicts])
      /\ Len(rows') = Len(rows) + 1 /\ Len(rows) \in Nat
      /\ rows'[Len(rows) + 1] = row
      /\ \A k \in 1..Len(rows) : rows'[k] = rows[k]
  <2> DEFINE Row == [index : Items, call : Seq(Pieces), verdict : Verdicts]
  <2>1. row \in Row
    BY <1>4, <1>5
  <2>2. rows \in Seq(Row)
    BY <1>2 DEF TypeOK
  <2> HIDE DEF row, Row
  <2>3. /\ rows' \in Seq(Row) /\ Len(rows') = Len(rows) + 1 /\ Len(rows) \in Nat
        /\ rows'[Len(rows) + 1] = row /\ \A k \in 1..Len(rows) : rows'[k] = rows[k]
    BY <1>1, <2>1, <2>2, AppendIs
  <2> QED
    BY <2>3 DEF Row
<1>7. row.index = open /\ row.verdict = v
  OBVIOUS
<1> HIDE DEF row, v
<1>8. Judged' = Judged \cup {open}
  <2> DEFINE n == Len(rows)
  <2>1. 1..Len(rows') = (1..n) \cup {n + 1}
    BY <1>6
  <2>2. rows'[n + 1].index = open /\ \A k \in 1..n : rows'[k].index = rows[k].index
    BY <1>6, <1>7
  <2>3. /\ Judged = {rows[k].index : k \in 1..n}
        /\ Judged' = {rows'[k].index : k \in 1..Len(rows')}
    BY DEF Judged
  <2> HIDE DEF n
  <2> QED
    BY <2>1, <2>2, <2>3
<1>9. Last(rows)' = row
  BY <1>6 DEF Last
<1>10. Items' = Items /\ Started' = Started /\ Finished' = Finished /\ \A i : IsCall(i)' <=> IsCall(i)
  BY <1>1 DEF Items, Started, Finished, IsCall
<1>11. \A x : Evaluate(calls[x])' = Evaluate(calls[x])
  BY <1>1 DEF Evaluate
<1>12. Indices' = Indices /\ Judged \subseteq Indices
  BY <1>2, JudgedItems DEF Indices
<1>13. \A i \in Judged : Verdict'[i] = Verdict[i] /\ i \in Judged'
  BY <1>8, <1>11, <1>12 DEF Verdict
<1>14. UNCHANGED <<Passed, Replaced>> /\ OutInv'
  BY <1>1, <1>2, SameOut DEF Prefix
<1>15. TypeOK'
  BY <1>1, <1>2, <1>6, <1>10 DEF TypeOK
<1>16. Inv'
  BY <1>1, <1>2, <1>13, <1>14, <1>15 DEF Inv, Opened
<1>17. ReceivedInv'
  BY <1>1, <1>2, <1>10 DEF ReceivedInv
<1>18. OpenInv'
  BY <1>1, <1>2, <1>10 DEF OpenInv
<1>19. JudgedInv'
  <2>1. Blocked' <=> v = "block"
    BY <1>7, <1>9 DEF Blocked
  <2>2. Evaluate(calls[open])' = v
    BY <1>1, <1>11 DEF v
  <2> QED
    BY <1>1, <1>2, <1>3, <1>8, <1>10, <2>1, <2>2 DEF JudgedInv
<1>20. QueueInv'
  BY <1>1, <1>2 DEF QueueInv, Holds, FromUpstream
<1> QED
  BY <1>3, <1>4, <1>8, <1>14, <1>16, <1>17, <1>18, <1>19, <1>20 DEF AInv

LEMMA BuildAInv ==
  ASSUME AInv, Build
  PROVE  AInv'
<1>1. /\ phase = "build" /\ cause \in {"none", "cut"} /\ queue' \in {held, <<>>}
      /\ UNCHANGED <<conf, reply, open, held, cause, received, out, calls, rows>>
      /\ cause = "none" =>
           /\ phase' = "release"
           /\ marked' \in {marked, marked \cup {[id |-> open, args |-> Tail(calls[open])]}}
           /\ notes' \in {notes, notes + 1}
      /\ cause = "cut" =>
           phase' = "flush" /\ UNCHANGED <<marked, notes>> /\ (Blocked => queue' = <<>>)
  BY DEF Build, upstreamVars, blockVars
<1>2. /\ TypeOK /\ (held = <<>> <=> open = NoItem) /\ ~Overlapping
      /\ OpenInv /\ JudgedInv /\ QueueInv
  BY DEF AInv, Inv
<1>3. /\ open # NoItem /\ open \in Judged /\ open \in Items /\ open \in Indices
      /\ Blocked <=> Evaluate(calls[open]) = "block"
  BY <1>1, <1>2, JudgedItems DEF OpenInv, JudgedInv
<1>4. Tail(calls[open]) \in Seq(Pieces)
  <2>1. calls[open] \in Seq(Pieces) /\ calls[open] # <<>>
    BY <1>2, <1>3 DEF TypeOK, OpenInv
  <2> QED
    BY <2>1
<1>5. marked' \subseteq [id : Items, args : Seq(Pieces)] /\ notes' \in Nat
  <2> DEFINE Mark == [id : Items, args : Seq(Pieces)]
             mark == [id |-> open, args |-> Tail(calls[open])]
  <2>1. mark \in Mark
    BY <1>3, <1>4
  <2>2. marked \subseteq Mark /\ notes \in Nat
    BY <1>2 DEF TypeOK
  <2> HIDE DEF mark, Mark
  <2>3. marked' \in {marked, marked \cup {mark}} /\ notes' \in {notes, notes + 1}
    BY <1>1 DEF mark
  <2>4. marked' \subseteq Mark /\ notes' \in Nat
    BY <2>1, <2>2, <2>3
  <2> QED
    BY <2>4 DEF Mark
<1>6. held \in Seq(Event) /\ queue' \in Seq(Event) /\ open \in Items \cup {NoItem}
  <2>1. held \in Seq(Event) /\ open \in Items \cup {NoItem}
    BY <1>2 DEF TypeOK
  <2>2. <<>> \in Seq(Event)
    OBVIOUS
  <2> QED
    BY <1>1, <2>1, <2>2
<1>7. /\ Inv' /\ ReceivedInv' /\ OutInv' /\ Judged' = Judged
      /\ Started' = Started /\ Finished' = Finished /\ Items' = Items
      /\ \A i : IsCall(i)' <=> IsCall(i)
      /\ \A i \in Judged : Verdict'[i] = Verdict[i]
  BY <1>1, <1>2, <1>5, <1>6, StillInv
<1>8. OpenInv'
  BY <1>1, <1>2, <1>7 DEF OpenInv
<1>9. JudgedInv'
  <2>1. Blocked' <=> Blocked
    BY <1>1 DEF Blocked
  <2>2. Evaluate(calls[open])' = Evaluate(calls[open])
    BY <1>1 DEF Evaluate
  <2> QED
    BY <1>1, <1>2, <1>3, <1>7, <2>1, <2>2 DEF JudgedInv
<1>10. QueueInv'
  <2>1. Holds(held)' /\ Holds(queue)'
    BY <1>1, <1>2 DEF QueueInv, Holds, FromUpstream
  <2>2. phase' = "flush" /\ queue' # <<>> => open \in Judged' /\ Verdict'[open] # "block"
    <3>1. Verdict[open] = Evaluate(calls[open])
      BY <1>3 DEF Verdict
    <3> QED
      BY <1>1, <1>3, <1>7, <3>1
  <2> QED
    BY <1>1, <1>3, <2>1, <2>2 DEF QueueInv
<1> QED
  BY <1>2, <1>7, <1>8, <1>9, <1>10 DEF AInv

(* What goes out for the first queued event, if anything does.             *)
LEMMA YieldIs ==
  ASSUME AInv, Yield
  PROVE  \/ UNCHANGED out
         \/ \E f \in Event :
              /\ out' = out \o <<f>> /\ f.n \in 1..Len(received)
              /\ f.kind = "call" => f.ix = open /\ open \in Items
              /\ f.kind = "call" /\ f = received[f.n] =>
                   Opened \/ (open \in Judged /\ Verdict[open] # "block")
              /\ f.kind = "call" /\ f # received[f.n] => open \in Judged /\ Verdict[open] = "block"
<1> DEFINE e == Head(queue)
<1>1. /\ TypeOK /\ OpenInv /\ JudgedInv /\ QueueInv /\ ReceivedInv
      /\ queue # <<>> /\ phase \in {"release", "flush"}
      /\ out' = out \o IF phase = "release" THEN Released(e) ELSE <<e>>
  BY DEF AInv, Inv, Yield
<1>2. queue \in Seq(Event) /\ out \in Seq(Event)
  BY <1>1 DEF TypeOK
<1>3. e \in Event /\ e = queue[1] /\ 1 \in 1..Len(queue)
  BY <1>1, <1>2
<1>4. e.n \in 1..Len(received) /\ received[e.n] = e /\ (e.kind = "call" => e.ix = open)
  BY <1>1, <1>3 DEF QueueInv, Holds, FromUpstream
<1>5. e.call \in Seq(Pieces)
  BY <1>1, <1>4 DEF ReceivedInv
<1>6. \A i \in Judged : Verdict[i] = Evaluate(calls[i]) /\ i \in Items
  BY <1>1, JudgedItems DEF Verdict
<1>7. open \in Items
  BY <1>1 DEF QueueInv, TypeOK
<1>8. phase = "release" => open \in Judged /\ (Blocked <=> Verdict[open] = "block")
  BY <1>1, <1>6 DEF JudgedInv
<1>9. phase = "flush" => Opened \/ (open \in Judged /\ Verdict[open] # "block")
  BY <1>1 DEF QueueInv
<1> HIDE DEF e
<1>10. CASE phase = "flush" \/ ~Blocked \/ ~Own(e, Types)
  <2>1. out' = out \o <<e>>
    BY <1>1, <1>10 DEF Released
  <2>2. e.kind = "call" => Opened \/ (open \in Judged /\ Verdict[open] # "block")
    <3>1. e.kind = "call" => Own(e, Types)
      BY <1>3, <1>4 DEF Own, Event
    <3> QED
      BY <1>1, <1>8, <1>9, <1>10, <3>1
  <2> QED
    BY <1>3, <1>4, <1>7, <2>1, <2>2
<1>11. CASE phase = "release" /\ Blocked /\ Own(e, Types)
  <2>1. \/ Released(e) = <<>>
        \/ \E c \in {<<Tool>>, <<Echo>>, <<Tool, Echo>>} : Released(e) = <<[e EXCEPT !.call = c]>>
    BY <1>11 DEF Released, Rewritten
  <2>2. CASE Released(e) = <<>>
    BY <1>1, <1>2, <1>11, <2>2
  <2>3. ASSUME NEW c \in {<<Tool>>, <<Echo>>, <<Tool, Echo>>}, Released(e) = <<[e EXCEPT !.call = c]>>
        PROVE  \E f \in Event :
                 /\ out' = out \o <<f>> /\ f.n \in 1..Len(received)
                 /\ f.kind = "call" => f.ix = open /\ open \in Items
                 /\ f.kind = "call" /\ f = received[f.n] =>
                      Opened \/ (open \in Judged /\ Verdict[open] # "block")
                 /\ f.kind = "call" /\ f # received[f.n] => open \in Judged /\ Verdict[open] = "block"
    <3> DEFINE f == [e EXCEPT !.call = c]
    <3>1. c \in Seq(Pieces \cup {Tool, Echo}) /\ c # e.call
      BY <1>5, ReplacementIs
    <3>2. f \in Event /\ f.call = c /\ f.n = e.n /\ f.kind = e.kind /\ f.ix = e.ix
      BY <1>3, <3>1 DEF Event
    <3>3. out' = out \o <<f>>
      BY <1>1, <1>11, <2>3
    <3> HIDE DEF f
    <3>4. f # e
      BY <3>1, <3>2
    <3> QED
      BY <1>4, <1>7, <1>8, <1>11, <3>2, <3>3, <3>4
  <2> QED
    BY <2>1, <2>2, <2>3
<1> QED
  BY <1>1, <1>10, <1>11

LEMMA YieldAInv ==
  ASSUME AInv, Yield
  PROVE  AInv'
<1>1. /\ queue # <<>> /\ queue' = Tail(queue) /\ phase \in {"release", "flush"}
      /\ UNCHANGED <<conf, reply, phase, open, held, marked, notes, cause, received, calls, rows>>
  BY DEF Yield, upstreamVars, blockVars
<1>2. /\ Inv /\ TypeOK /\ OpenInv /\ JudgedInv /\ QueueInv /\ OutInv /\ ReceivedInv /\ ~Overlapping
  BY DEF AInv, Inv
<1>3. Items' = Items /\ Started' = Started /\ Finished' = Finished /\ \A i : IsCall(i)' <=> IsCall(i)
  BY <1>1 DEF Items, Started, Finished, IsCall
<1>4. Judged' = Judged /\ \A i \in Judged : Verdict'[i] = Verdict[i]
  BY <1>1, VerdictsStay
<1>5. Prefix
  BY <1>1 DEF Prefix
<1>6. /\ out' \in Seq(Event) /\ OutInv'
      /\ Opened \/ \A i \in Passed' : i \in Judged /\ Verdict[i] # "block"
      /\ \A i \in Replaced' : i \in Judged /\ Verdict[i] = "block"
  <2>1. CASE UNCHANGED out
    <3>1. UNCHANGED <<Passed, Replaced>> /\ OutInv'
      BY <1>2, <1>5, <2>1, SameOut
    <3> QED
      BY <1>2, <2>1, <3>1 DEF Inv, TypeOK
  <2>2. ASSUME NEW f \in Event,
               out' = out \o <<f>>, f.n \in 1..Len(received),
               f.kind = "call" => f.ix = open /\ open \in Items,
               f.kind = "call" /\ f = received[f.n] =>
                 Opened \/ (open \in Judged /\ Verdict[open] # "block"),
               f.kind = "call" /\ f # received[f.n] => open \in Judged /\ Verdict[open] = "block"
        PROVE  /\ out' \in Seq(Event) /\ OutInv'
               /\ Opened \/ \A i \in Passed' : i \in Judged /\ Verdict[i] # "block"
               /\ \A i \in Replaced' : i \in Judged /\ Verdict[i] = "block"
    <3>1. received' = received
      BY <1>1
    <3>2. /\ out' \in Seq(Event) /\ OutInv'
          /\ Passed'   = IF f.kind = "call" /\ f = received[f.n] THEN Passed \cup {f.ix} ELSE Passed
          /\ Replaced' = IF f.kind = "call" /\ f # received[f.n] THEN Replaced \cup {f.ix} ELSE Replaced
      BY <1>2, <1>5, <2>2, <3>1, OutGrows
    <3> QED
      BY <1>2, <2>2, <3>2 DEF Inv
  <2> QED
    BY <2>1, <2>2, YieldIs
<1>7. queue' \in Seq(Event) /\ \A k \in 1..Len(queue') : k + 1 \in 1..Len(queue) /\ queue'[k] = queue[k + 1]
  <2>1. queue \in Seq(Event)
    BY <1>2 DEF TypeOK
  <2> QED
    BY <1>1, <2>1
<1>8. TypeOK'
  BY <1>1, <1>2, <1>3, <1>6, <1>7 DEF TypeOK
<1>9. Inv'
  BY <1>1, <1>2, <1>4, <1>6, <1>8 DEF Inv, Opened
<1>10. ReceivedInv' /\ OpenInv'
  BY <1>1, <1>2, <1>3 DEF ReceivedInv, OpenInv
<1>11. JudgedInv'
  <2>1. (Blocked' <=> Blocked) /\ Evaluate(calls[open])' = Evaluate(calls[open])
    BY <1>1 DEF Blocked, Evaluate
  <2> QED
    BY <1>1, <1>2, <1>3, <1>4, <2>1 DEF JudgedInv
<1>12. QueueInv'
  <2>1. Holds(held)' /\ Holds(queue)'
    BY <1>1, <1>2, <1>7 DEF QueueInv, Holds, FromUpstream
  <2>2. phase' = "flush" => Opened' \/ (open' \in Judged' /\ Verdict'[open'] # "block")
    BY <1>1, <1>2, <1>4 DEF QueueInv, Opened
  <2> QED
    BY <1>1, <1>2, <2>1, <2>2 DEF QueueInv
<1> QED
  BY <1>2, <1>6, <1>9, <1>10, <1>11, <1>12 DEF AInv

(* The steps that end an item or the stream, or do nothing.                *)
LEMMA QuietAInv ==
  ASSUME AInv, EndYields \/ ClientGone \/ UNCHANGED vars
  PROVE  AInv'
<1>1. UNCHANGED <<conf, reply, marked, notes, queue, cause, received, out, calls, rows>>
  BY DEF EndYields, ClientGone, vars, upstreamVars, blockVars
<1>2. /\ TypeOK /\ (held = <<>> <=> open = NoItem) /\ ~Overlapping
      /\ OpenInv /\ JudgedInv /\ QueueInv
  BY DEF AInv, Inv
<1>3. \/ /\ queue = <<>> /\ open' = NoItem /\ held' = <<>>
         /\ (phase = "release" /\ phase' = "collect") \/ phase' = "done"
      \/ UNCHANGED <<open, held>> /\ phase' \in {phase, "gone"}
  BY DEF EndYields, ClientGone, vars
<1>4. <<>> \in Seq(Event) /\ held \in Seq(Event)
  BY <1>2 DEF TypeOK
<1>5. /\ Inv' /\ ReceivedInv' /\ OutInv' /\ Judged' = Judged
      /\ Started' = Started /\ Finished' = Finished /\ Items' = Items
      /\ \A i : IsCall(i)' <=> IsCall(i)
      /\ \A i \in Judged : Verdict'[i] = Verdict[i]
  <2>1. /\ phase' \in {"collect", "judge", "build", "release", "flush"} \cup Terminal
        /\ cause \in {"none", "guard", "upstream", "cut"}
        /\ queue' \in Seq(Event) /\ notes' \in Nat
        /\ marked' \subseteq [id : Items, args : Seq(Pieces)]
    BY <1>1, <1>2, <1>3 DEF TypeOK, Terminal
  <2>2. held' \in Seq(Event) /\ open' \in {open, NoItem} /\ (held' = <<>> <=> open' = NoItem)
    BY <1>2, <1>3, <1>4
  <2> QED
    BY <1>1, <2>1, <2>2, StillInv
<1>6. NoItem \notin Items /\ Started \subseteq Items /\ Finished \subseteq Started
  BY <1>2, ItemsAre, FinishedStarted DEF TypeOK
<1>7. OpenInv'
  BY <1>1, <1>2, <1>3, <1>5, <1>6 DEF OpenInv, QueueInv
<1>8. JudgedInv'
  <2>1. Blocked' <=> Blocked
    BY <1>1 DEF Blocked
  <2>2. UNCHANGED open => Evaluate(calls[open])' = Evaluate(calls[open])
    BY <1>1 DEF Evaluate
  <2> QED
    BY <1>2, <1>3, <1>5, <1>6, <2>1, <2>2 DEF JudgedInv
<1>9. QueueInv'
  BY <1>1, <1>2, <1>3, <1>5 DEF QueueInv, Holds, FromUpstream, Opened
<1> QED
  BY <1>2, <1>5, <1>7, <1>8, <1>9 DEF AInv

(* A failure queues what is held in open mode, and nothing in closed mode. *)
LEMMA FailureAInv ==
  ASSUME AInv, GuardError \/ UpstreamError
  PROVE  AInv'
<1>1. /\ phase \in {"collect", "judge", "build"} /\ cause' \in {"guard", "upstream"}
      /\ UNCHANGED <<conf, reply, open, held, marked, notes, received, out, calls, rows>>
      /\ \/ phase' = "flush" /\ queue' = (IF conf.fail = "closed" THEN <<>> ELSE held)
         \/ phase' = "raised" /\ UNCHANGED queue
  BY DEF GuardError, UpstreamError, Fail, Unscreened, upstreamVars, blockVars
<1>2. /\ TypeOK /\ (held = <<>> <=> open = NoItem) /\ ~Overlapping
      /\ OpenInv /\ JudgedInv /\ QueueInv
  BY DEF AInv, Inv
<1>3. /\ held \in Seq(Event) /\ <<>> \in Seq(Event) /\ queue = <<>>
      /\ cause \in {"none", "cut"} /\ conf.fail \in {"closed", "open"}
  BY <1>1, <1>2 DEF TypeOK, QueueInv, Conf
<1>4. /\ Inv' /\ ReceivedInv' /\ OutInv' /\ Judged' = Judged
      /\ Started' = Started /\ Finished' = Finished /\ Items' = Items
      /\ \A i : IsCall(i)' <=> IsCall(i)
      /\ \A i \in Judged : Verdict'[i] = Verdict[i]
  <2>1. queue' \in Seq(Event)
    BY <1>1, <1>3
  <2>2. marked' \subseteq [id : Items, args : Seq(Pieces)] /\ notes' \in Nat /\ phase' \in {"flush"} \cup Terminal
    BY <1>1, <1>2 DEF TypeOK, Terminal
  <2> QED
    BY <1>1, <1>2, <1>3, <2>1, <2>2, StillInv
<1>5. OpenInv' /\ JudgedInv'
  BY <1>1, <1>2, <1>4 DEF OpenInv, JudgedInv
<1>6. QueueInv'
  BY <1>1, <1>2, <1>3 DEF QueueInv, Holds, FromUpstream, Opened
<1> QED
  BY <1>2, <1>4, <1>5, <1>6 DEF AInv

(* The event the guard fails on is lost; what was held before is not.      *)
LEMMA EventErrorAInv ==
  ASSUME AInv, NEW e \in Upcoming, EventError(e)
  PROVE  AInv'
<1>1. /\ phase = "collect" /\ phase' = "flush" /\ cause' = "guard"
      /\ received' = Append(received, e)
      /\ queue' = (IF conf.fail = "closed" THEN <<>> ELSE held)
      /\ UNCHANGED <<conf, reply, open, held, marked, notes, out, calls, rows>>
  BY DEF EventError, Fail, Unscreened, upstreamVars, blockVars
<1>2. /\ Inv /\ TypeOK /\ (held = <<>> <=> open = NoItem) /\ ~Overlapping
      /\ OpenInv /\ JudgedInv /\ QueueInv /\ OutInv
  BY DEF AInv, Inv
<1>3. /\ Prefix /\ ReceivedInv' /\ received' \in Seq(Event)
      /\ Started \subseteq Started' /\ Items' = Items
  BY <1>1, Taken
<1>4. UNCHANGED <<Passed, Replaced>> /\ OutInv'
  BY <1>1, <1>2, <1>3, SameOut
<1>5. Judged' = Judged /\ \A i \in Judged : Verdict'[i] = Verdict[i]
  BY <1>1, VerdictsStay
<1>6. conf.fail \in {"closed", "open"} /\ cause = "none"
  BY <1>1, <1>2 DEF TypeOK, Conf, QueueInv
<1>7. queue' \in Seq(Event)
  BY <1>1, <1>2 DEF TypeOK
<1>8. Inv'
  <2>1. TypeOK'
    BY <1>1, <1>2, <1>3, <1>7 DEF TypeOK
  <2>2. Opened => Opened'
    BY <1>6 DEF Opened
  <2> QED
    BY <1>1, <1>2, <1>4, <1>5, <2>1, <2>2 DEF Inv
<1>9. OpenInv' /\ JudgedInv'
  BY <1>1, <1>2, <1>3, <1>5 DEF OpenInv, JudgedInv, IsCall
<1>10. QueueInv'
  <2>1. Holds(held)'
    BY <1>1, <1>2, <1>3 DEF QueueInv, Holds, FromUpstream, Prefix
  <2>2. Holds(queue)'
    BY <1>1, <2>1 DEF Holds
  <2> QED
    BY <1>1, <1>2, <1>6, <2>1, <2>2 DEF QueueInv, Opened
<1> QED
  BY <1>2, <1>3, <1>4, <1>8, <1>9, <1>10 DEF AInv

LEMMA NextAInv ==
  ASSUME AInv, [Next]_vars
  PROVE  AInv'
BY ReceiveAInv, UpstreamEndsAInv, JudgeAInv, BuildAInv, YieldAInv, QuietAInv, FailureAInv,
   EventErrorAInv DEF Next, GuardStep, Over

(* As long as calls are streamed one after the other, the handler's        *)
(* invariant holds for any replies and patterns, however the events of     *)
(* other items fall between those of a call.                               *)
THEOREM Invariance == ~Overlapping /\ Spec => []Inv
<1>1. ~Overlapping /\ Init => AInv
  BY InitAInv
<1>2. AInv /\ [Next]_vars => AInv'
  BY NextAInv
<1>3. AInv => Inv
  BY DEF AInv
<1> QED
  BY <1>1, <1>2, <1>3, PTL DEF Spec
-----------------------------------------------------------------------------
(***************************************************************************)
(* ResponsesStream implements ToolGate.                                    *)
(***************************************************************************)

LEMMA InitMaps == Init => Gate!Init
<1> SUFFICES ASSUME Init PROVE Gate!Init
  OBVIOUS
<1>1. conf.mode \in {"block", "flag"}
  BY DEF Init, Conf
<1>2. calls = [i \in Indices |-> <<>>] /\ Opened = FALSE
  BY DEF Init, Opened
<1>3. Judged = {}
  BY DEF Init, Judged
<1>4. Passed = {} /\ Replaced = {}
  BY DEF Init, Passed, Replaced
<1>5. Verdict = [i \in Indices |-> "none"]
  BY <1>3 DEF Verdict
<1> QED
  BY <1>1, <1>2, <1>4, <1>5 DEF Gate!Init

(* The verdicts are those on the calls that were judged.                   *)
LEMMA SameVerdicts ==
  ASSUME AInv, UNCHANGED <<conf, rows>>, \A i \in Judged : calls'[i] = calls[i]
  PROVE  Verdict' = Verdict
<1>1. Judged' = Judged /\ \A i \in Judged : Verdict'[i] = Verdict[i]
  BY VerdictsStay
<1>2. \A i \in Indices \ Judged : Verdict'[i] = "none" /\ Verdict[i] = "none"
  BY <1>1 DEF Verdict
<1>3. Verdict = [i \in Indices |-> Verdict[i]] /\ Verdict' = [i \in Indices |-> Verdict'[i]]
  BY DEF Verdict
<1>4. \A i \in Indices : Verdict'[i] = Verdict[i]
  BY <1>1, <1>2
<1> HIDE DEF Verdict
<1> QED
  BY <1>3, <1>4

(* An event goes out: the invariant says that what it releases was judged. *)
LEMMA ReleaseMaps ==
  ASSUME AInv, AInv', UNCHANGED <<conf, calls, cause, rows>>, Prefix,
         NEW f \in Event, f.n \in 1..Len(received'), out' = out \o <<f>>,
         f.kind = "call" => f.ix \in Items
  PROVE  [Gate!Next]_(Gate!gateVars)
<1>1. /\ Passed \subseteq Passed' /\ Passed' \ Passed \subseteq Indices
      /\ Replaced \subseteq Replaced' /\ Replaced' \ Replaced \subseteq Indices
  <2>1. TypeOK /\ OutInv /\ Items \subseteq Indices
    BY ItemsAre DEF AInv, Inv, TypeOK
  <2> QED
    BY <2>1, OutGrows
<1>2. UNCHANGED <<conf.mode, calls, Verdict, Opened, Judged>>
  BY SameVerdicts DEF Opened, Judged
<1>3. CASE Opened
  BY <1>1, <1>2, <1>3 DEF Gate!FlushOpen, Gate!Next
<1>4. CASE ~Opened
  <2>1. /\ \A i \in Passed' : i \in Judged /\ Verdict[i] # "block"
        /\ \A i \in Replaced' : i \in Judged /\ Verdict[i] = "block"
    BY <1>2, <1>4 DEF AInv, Inv
  <2>2. \A i \in Judged : i \in Indices /\ Verdict[i] \in {"allow", "flag", "block"}
    BY JudgedItems DEF AInv, Inv, Verdict, Evaluate
  <2> QED
    BY <1>1, <1>2, <2>1, <2>2 DEF Gate!Release, Gate!Next
<1> QED
  BY <1>3, <1>4

(* Events are taken and held: only the call that is open grows.            *)
LEMMA GrowMaps ==
  ASSUME AInv, AInv', UNCHANGED <<conf, out, cause, rows>>, Prefix,
         \A i \in Judged : calls'[i] = calls[i]
  PROVE  Gate!Receive
<1>1. calls' \in [Indices -> Seq(Pieces)]
  BY DEF AInv, Inv, TypeOK
<1>2. UNCHANGED <<conf.mode, Verdict, Passed, Replaced, Opened>>
  BY SameVerdicts, SameOut DEF Opened, AInv
<1>3. \A i \in Indices : calls'[i] # calls[i] => Verdict[i] = "none"
  BY DEF Verdict
<1> QED
  BY <1>1, <1>2, <1>3 DEF Gate!Receive

LEMMA ReceiveMaps ==
  ASSUME AInv, AInv', NEW e \in Upcoming, Receive(e)
  PROVE  [Gate!Next]_(Gate!gateVars)
<1>1. /\ phase = "collect" /\ received' = Append(received, e)
      /\ UNCHANGED <<conf, reply, cause, rows>>
  BY DEF Receive, upstreamVars
<1>2. /\ Prefix /\ e \in Event /\ e.n \in 1..Len(received')
      /\ Started \subseteq Items /\ Items \subseteq Indices /\ NoItem \notin Items
  BY <1>1, Taken
<1>3. /\ open = NoItem /\ e.kind = "call" =>
           e.type = "added" /\ e.ix \in Items /\ e.ix \notin Started
      /\ open # NoItem /\ e.kind = "call" => e.ix = open
  BY <1>1, CallsComeAlone
<1>4. /\ calls \in [Indices -> Seq(Pieces)] /\ Judged \subseteq Started /\ open \notin Judged
      /\ TypeOK
  BY <1>1 DEF AInv, Inv, TypeOK, JudgedInv
<1>5. CASE open = NoItem /\ e.type = "added" /\ e.kind = "call"
  <2>1. UNCHANGED out /\ calls' = [calls EXCEPT ![e.ix] = e.call]
    BY <1>5 DEF Receive
  <2>2. \A i \in Judged : calls'[i] = calls[i]
    BY <1>2, <1>3, <1>4, <1>5, <2>1
  <2> QED
    BY <1>1, <1>2, <2>1, <2>2, GrowMaps DEF Gate!Next
<1>6. CASE open = NoItem /\ ~(e.type = "added" /\ e.kind = "call")
  <2>1. PICK f : /\ f = (IF e.type = "completed" THEN Patched(e) ELSE e)
                 /\ out' = Append(out, f) /\ UNCHANGED calls
    BY <1>6 DEF Receive
  <2>2. f \in Event /\ f.n = e.n /\ f.kind # "call"
    BY <1>2, <1>3, <1>4, <1>6, <2>1, PatchedIs
  <2>3. out' = out \o <<f>>
    BY <1>4, <2>1, <2>2, AppendIs DEF TypeOK
  <2> QED
    BY <1>1, <1>2, <2>1, <2>2, <2>3, ReleaseMaps
<1>7. CASE open # NoItem
  <2>1. /\ UNCHANGED out
        /\ calls' = IF e.ix = open THEN [calls EXCEPT ![open] = Assembled(e)] ELSE calls
    BY <1>7 DEF Receive
  <2>2. \A i \in Judged : calls'[i] = calls[i]
    BY <1>2, <1>4, <2>1
  <2> QED
    BY <1>1, <1>2, <2>1, <2>2, GrowMaps DEF Gate!Next
<1> QED
  BY <1>5, <1>6, <1>7

LEMMA YieldMaps ==
  ASSUME AInv, AInv', Yield
  PROVE  [Gate!Next]_(Gate!gateVars)
<1>1. UNCHANGED <<conf, reply, calls, cause, rows, received>>
  BY DEF Yield, upstreamVars
<1>2. Prefix
  BY <1>1 DEF Prefix
<1>3. CASE UNCHANGED out
  BY <1>1, <1>2, <1>3, GrowMaps DEF Gate!Next
<1>4. ASSUME NEW f \in Event, out' = out \o <<f>>, f.n \in 1..Len(received),
             f.kind = "call" => f.ix = open /\ open \in Items
      PROVE  [Gate!Next]_(Gate!gateVars)
  BY <1>1, <1>2, <1>4, ReleaseMaps
<1> QED
  BY <1>3, <1>4, YieldIs

LEMMA JudgeMaps ==
  ASSUME AInv, Judge
  PROVE  Gate!Judge(open) /\ open \in Indices
<1> DEFINE v == Evaluate(calls[open])
<1>1. /\ Judged' = Judged \cup {open} /\ open \in Indices /\ open \notin Judged
      /\ UNCHANGED <<conf, calls, out, cause, received>>
  BY JudgeAInv DEF Judge, upstreamVars
<1>2. Gate!Judgement(calls[open]) = v
  BY DEF Gate!Judgement, Evaluate
<1>3. \A i : Evaluate(calls[i])' = Evaluate(calls[i])
  BY <1>1 DEF Evaluate
<1>4. Verdict[open] = "none" /\ Verdict' = [Verdict EXCEPT ![open] = v]
  <2>1. Verdict = [i \in Indices |-> IF i \in Judged THEN Evaluate(calls[i]) ELSE "none"]
    BY DEF Verdict
  <2>2. Verdict' = [i \in Indices |-> IF i \in Judged \cup {open} THEN Evaluate(calls[i]) ELSE "none"]
    BY <1>1, <1>3 DEF Verdict
  <2> HIDE DEF Verdict
  <2> QED
    BY <1>1, <2>1, <2>2
<1>5. UNCHANGED <<Passed, Replaced>>
  BY <1>1, SameOut DEF AInv, Prefix
<1>6. UNCHANGED <<conf.mode, Opened>>
  BY <1>1 DEF Opened
<1> QED
  BY <1>1, <1>2, <1>4, <1>5, <1>6 DEF Gate!Judge

(* A failure in open mode is the gate's FailOpen; the rest is nothing to it.*)
LEMMA QuietMaps ==
  ASSUME AInv, UNCHANGED <<conf, calls, rows, out>>, Prefix, cause' = cause \/ cause \in {"none", "cut"}
  PROVE  [Gate!Next]_(Gate!gateVars)
<1>1. UNCHANGED <<conf.mode, calls, Verdict, Passed, Replaced>>
  BY SameVerdicts, SameOut DEF AInv
<1>2. Opened' = TRUE \/ Opened' = Opened
  BY DEF Opened
<1>3. CASE Opened' = TRUE
  BY <1>1, <1>3 DEF Gate!FailOpen, Gate!Next
<1>4. CASE Opened' = Opened
  BY <1>1, <1>4 DEF Gate!gateVars
<1> QED
  BY <1>2, <1>3, <1>4

LEMMA NextMaps ==
  ASSUME AInv, AInv', [Next]_vars
  PROVE  [Gate!Next]_(Gate!gateVars)
<1>1. ASSUME NEW e \in Upcoming, EventError(e)
      PROVE  [Gate!Next]_(Gate!gateVars)
  <2>1. /\ phase = "collect" /\ received' = Append(received, e)
        /\ UNCHANGED <<conf, reply, calls, rows, out>>
    BY <1>1 DEF EventError, Fail, upstreamVars
  <2>2. Prefix /\ cause = "none"
    BY <2>1, Taken DEF AInv, QueueInv
  <2> QED
    BY <2>1, <2>2, QuietMaps
<1>2. CASE UpstreamEnds \/ Build \/ EndYields \/ ClientGone \/ GuardError \/ UpstreamError \/ UNCHANGED vars
  <2>1. UNCHANGED <<conf, calls, rows, out, received>>
    BY <1>2 DEF UpstreamEnds, Build, EndYields, ClientGone, GuardError, UpstreamError, Fail, vars, upstreamVars
  <2>2. Prefix
    BY <2>1 DEF Prefix
  <2>3. cause' = cause \/ phase \in {"collect", "judge", "build"}
    BY <1>2 DEF UpstreamEnds, Build, EndYields, ClientGone, GuardError, UpstreamError, vars
  <2>4. cause' = cause \/ cause \in {"none", "cut"}
    BY <2>3 DEF AInv, QueueInv
  <2> QED
    BY <2>1, <2>2, <2>4, QuietMaps
<1> QED
  BY <1>1, <1>2, ReceiveMaps, YieldMaps, JudgeMaps DEF Next, GuardStep, Over, Gate!Next

(* The Responses handler keeps the promise of the gate as long as calls    *)
(* are streamed one after the other: whatever falls between the events of  *)
(* a call, is cut or fails, each step is one that ToolGate allows.         *)
THEOREM ImplementsToolGate == ~Overlapping /\ Spec => GateSpec
<1>1. Init => Gate!Init
  BY InitMaps
<1>2. ~Overlapping /\ Init => AInv
  BY InitAInv
<1>3. AInv /\ [Next]_vars => AInv'
  BY NextAInv
<1>4. AInv /\ AInv' /\ [Next]_vars => [Gate!Next]_(Gate!gateVars)
  BY NextMaps
<1> QED
  BY <1>1, <1>2, <1>3, <1>4, PTL DEF Spec, GateSpec, Gate!Spec
-----------------------------------------------------------------------------
(***************************************************************************)
(* What the client is told: the invariants behind OthersInOrder,           *)
(* RowsComplete, ClientViewsAgree and CompletedAgrees.                     *)
(***************************************************************************)

(* The events the handler has still to yield or to judge.                  *)
Waiting == CASE phase \in {"release", "flush"}           -> queue
             [] phase \in {"collect", "judge", "build"}  -> held
             [] OTHER                                    -> <<>>

(* Events stand in a sequence in the order in which they were received.    *)
Rising(s) == \A j, k \in 1..Len(s) : j < k => s[j].n < s[k].n

(* Nothing failed, and what the stream was cut in, if it was, may go out.  *)
Whole == cause = "none" \/ (cause = "cut" /\ (phase \in {"judge", "build"} \/ ~Blocked))

(* An item's events are those of its script, each taken from it once; the  *)
(* final one has no index.                                                 *)
ScriptInv ==
  /\ \A k \in 1..Len(received) :
       LET e == received[k] IN
       IF e.ix \in Items
       THEN /\ e.kind = reply[e.ix].kind /\ e.type # "completed"
            /\ \E p \in 1..Count(received, e.ix) : reply[e.ix].script[p].type = e.type
       ELSE e.type = "completed" /\ e.kind = "none"
  /\ \A j, k \in 1..Len(received) :
       received[j].ix \in Items /\ received[k].ix = received[j].ix /\ received[k].type = received[j].type
         => j = k \/ received[j].type = "delta"

(* An event that is yielded is still the event it was, but for what it     *)
(* spells; what waits is in order behind it; nothing is forgotten.         *)
Numbered(s, n) == \E k \in 1..Len(s) : s[k].n = n
OrderInv ==
  /\ \A k \in 1..Len(out) :
       LET e == received[out[k].n] IN out[k].kind = e.kind /\ out[k].ix = e.ix /\ out[k].type = e.type
  /\ Rising(out) /\ Rising(held) /\ Rising(queue)
  /\ \A j \in 1..Len(out), k \in 1..Len(Waiting) : out[j].n < Waiting[k].n
  /\ Whole /\ phase # "gone" =>
       \A n \in 1..Len(received) : Other(received[n]) => Numbered(out, n) \/ Numbered(Waiting, n)

(* What is known of the open call is what its events spelled so far, and of*)
(* a judged call that is complete, the whole of it.                        *)
CallInv ==
  /\ open # NoItem /\ phase = "collect" =>
       calls[open] = Spelled(reply[open].script, Count(received, open))
  /\ \A i \in Finished :
       i \in Judged \/ (i = open /\ phase = "judge") => calls[i] = reply[i].call

(* Every call is judged once, all but the one that is not yet dealt with.  *)
RowInv ==
  /\ cause \in {"none", "cut"} /\ phase # "gone" =>
       \A i \in Started : IsCall(i) => i \in Judged \/ (i = open /\ phase \in {"collect", "judge"})
  /\ \A i \in Judged : IsCall(i)
  /\ IsFiniteSet(Judged) /\ Cardinality(Judged) = Len(rows)
  /\ \A k \in 1..Len(rows) :
       rows[k].call = calls[rows[k].index] /\ rows[k].verdict = Evaluate(rows[k].call)

(* The blocked calls that were dealt with are remembered.                  *)
Dealt(i) == i \in Judged /\ ~(phase = "build" /\ i = open) /\ Evaluate(reply[i].call) = "block"
MarkInv ==
  cause = "none" =>
    /\ \A m : m \in marked <=> \E i \in Items : Dealt(i) /\ m = [id |-> i, args |-> Tail(reply[i].call)]
    /\ notes > 0 <=> ~Rewrites /\ \E i \in Items : Dealt(i)

CopyInv ==
  /\ \A k \in 1..Len(held) : held[k].type # "completed"
  /\ \A k \in 1..Len(queue) : queue[k].type # "completed"
  /\ CompletedAgrees

(* The client reads of a call that was dealt with what it is to read, and  *)
(* of the open one what the events that are released say.                  *)
Shown(t) == CASE t = "added" -> <<Tool>> [] t = "done" -> <<Tool, Echo>> [] OTHER -> <<Echo>>
Views == {"added", "delta", "args_done", "done"}
View(s, i, t) == Part(s, i, {t})
Saw(s, i, t)  == \E k \in 1..Len(s) : s[k].ix = i /\ s[k].type = t
Final(i, t) ==
  View(out, i, t) =
    IF Evaluate(reply[i].call) # "block" THEN View(received, i, t)
    ELSE IF Rewrites /\ Saw(received, i, t) THEN Shown(t) ELSE <<>>
Yielded == Len(held) - Len(queue)
InRelease(t) ==
  /\ ~Blocked => View(out, open, t) \o View(queue, open, t) = View(held, open, t)
  /\ Blocked  => View(out, open, t) =
                   IF Rewrites /\ \E k \in 1..Yielded : held[k].ix = open /\ held[k].type = t
                   THEN Shown(t) ELSE <<>>
Gathered ==
  /\ \A k \in 1..Len(received) : received[k].ix = open => \E j \in 1..Len(held) : held[j] = received[k]
  /\ \A t \in Views : View(held, open, t) = View(received, open, t)
ViewInv ==
  /\ phase \in {"collect", "judge", "build"} /\ open # NoItem /\ cause = "none" => Gathered
  /\ phase = "build" /\ cause = "none" => \A t \in Views : View(out, open, t) = <<>>
  /\ phase = "release" =>
       /\ Gathered
       /\ Yielded \in Nat /\ \A k \in 1..Len(queue) : queue[k] = held[Yielded + k]
       /\ \A t \in Views : InRelease(t)
  /\ cause = "none" /\ phase # "gone" =>
       \A i \in Started : IsCall(i) /\ i # open => \A t \in Views : Final(i, t)
  /\ phase \in {"flush", "done"} /\ cause = "none" => open = NoItem

(* The next event of an item is the next one of its script.                *)
LEMMA UpcomingScript ==
  ASSUME TypeOK, ReceivedInv, NEW e \in Upcoming, e.ix \in Items
  PROVE  LET c == Count(received, e.ix)
             s == reply[e.ix].script
         IN  /\ c \in Nat /\ c + 1 \in 1..Len(s) /\ Len(s) \in Nat
             /\ e.kind = reply[e.ix].kind
             /\ e.type = s[c + 1].type /\ e.call = s[c + 1].call
<1>1. reply \in Replies
  BY DEF TypeOK
<1>2. Items \subseteq Nat /\ NoItem \notin Items
  BY <1>1, ItemsAre
<1>3. Finished # Items
  <2> SUFFICES ASSUME Finished = Items PROVE FALSE
    OBVIOUS
  <2>1. e \in {Completion(TRUE), Completion(FALSE)}
    BY DEF Upcoming
  <2>2. e.ix = NoItem
    BY <2>1 DEF Completion
  <2> QED
    BY <1>2, <2>2
<1>4. PICK i \in {j \in Items : ItemMay(j)} : e = NextOf(i)
  BY <1>3 DEF Upcoming
<1>5. e.ix = i
  BY <1>4 DEF NextOf
<1>6. /\ e.kind = reply[i].kind
      /\ e.type = reply[i].script[Count(received, i) + 1].type
      /\ e.call = reply[i].script[Count(received, i) + 1].call
  BY <1>4 DEF NextOf
<1>7. Count(received, i) \in Nat
  BY <1>2, <1>4, CountType
<1>8. Len(reply[i].script) \in Nat
  BY <1>1, <1>4, ScriptIs
<1>9. Count(received, i) # Len(reply[i].script) /\ Count(received, i) <= Len(reply[i].script)
  BY <1>4 DEF ItemMay, Finished, ReceivedInv
<1> QED
  BY <1>5, <1>6, <1>7, <1>8, <1>9

(* Of a script, only deltas come more than once.                           *)
LEMMA ScriptTypesDiffer ==
  ASSUME reply \in Replies, NEW i \in Items,
         NEW p \in 1..Len(reply[i].script), NEW q \in 1..Len(reply[i].script),
         reply[i].script[p].type = reply[i].script[q].type
  PROVE  p = q \/ reply[i].script[p].type = "delta"
<1> DEFINE s == reply[i].script
<1>1. \A k \in 1..Len(s) :
        /\ s[k] \in [type : Types \ {"completed"}, call : Seq(Pieces)]
        /\ s[k].type = "added" <=> k = 1
        /\ s[k].type = "done" <=> k = Len(s)
  BY ScriptIs
<1>2. s \in Seq([type : Types \ {"completed"}, call : Seq(Pieces)])
  BY ScriptIs
<1>3. DOMAIN s = 1..Len(s)
  BY <1>2
<1>4. \A j, k \in DOMAIN s : s[j].type = "args_done" /\ s[k].type = "args_done" => j = k
  BY RepliesAssumption DEF Items
<1>5. s[p].type \in {"added", "delta", "args_done", "done"}
  BY <1>1 DEF Types
<1> QED
  BY <1>1, <1>3, <1>4, <1>5

LEMMA ScriptStep ==
  ASSUME AInv, ScriptInv, phase = "collect", NEW e \in Upcoming,
         received' = Append(received, e), UNCHANGED reply
  PROVE  ScriptInv'
<1>1. TypeOK /\ ReceivedInv /\ reply \in Replies
  BY DEF AInv, Inv, TypeOK
<1>2. e \in Event /\ (FinalEvent(e) \/ ItemEvent(e))
  BY <1>1, UpcomingEvent
<1>3. Items' = Items /\ Items \subseteq Nat /\ NoItem \notin Items
  BY <1>1, ItemsAre DEF Items
<1> DEFINE n == Len(received)
<1>4. /\ n \in Nat /\ Len(received') = n + 1 /\ received'[n + 1] = e
      /\ \A k \in 1..n : received'[k] = received[k]
      /\ \A k \in 1..Len(received') : k \in 1..n \/ k = n + 1
  <2>1. received \in Seq(Event)
    BY <1>1 DEF TypeOK
  <2> QED
    BY <1>2, <2>1, AppendIs
<1>5. \A i \in Items :
        /\ Count(received, i) \in Nat
        /\ Count(received', i) = IF e.ix = i THEN Count(received, i) + 1 ELSE Count(received, i)
  BY <1>1, <1>2, <1>3, CountGrows
<1>6. ASSUME e.ix \in Items
      PROVE  LET c == Count(received, e.ix)
                 s == reply[e.ix].script
             IN  /\ c \in Nat /\ c + 1 \in 1..Len(s) /\ Len(s) \in Nat
                 /\ e.kind = reply[e.ix].kind
                 /\ e.type = s[c + 1].type /\ e.call = s[c + 1].call
  BY <1>1, <1>6, UpcomingScript
<1>7. e.ix \notin Items => e.type = "completed" /\ e.kind = "none"
  BY <1>2 DEF FinalEvent, ItemEvent
<1>8. e.ix \in Items => e.type # "completed"
  BY <1>2, <1>3 DEF FinalEvent, ItemEvent
<1> HIDE DEF n
<1>9. ASSUME NEW k \in 1..Len(received')
      PROVE  IF received'[k].ix \in Items
             THEN /\ received'[k].kind = reply[received'[k].ix].kind /\ received'[k].type # "completed"
                  /\ \E p \in 1..Count(received', received'[k].ix) :
                       reply[received'[k].ix].script[p].type = received'[k].type
             ELSE received'[k].type = "completed" /\ received'[k].kind = "none"
  <2>1. CASE k = n + 1
    <3>1. CASE e.ix \in Items
      <4>1. /\ Count(received, e.ix) + 1 \in 1..Count(received', e.ix)
            /\ reply[e.ix].script[Count(received, e.ix) + 1].type = e.type
        BY <1>5, <1>6, <3>1
      <4> QED
        BY <1>4, <1>6, <1>8, <2>1, <3>1, <4>1
    <3>2. CASE e.ix \notin Items
      BY <1>4, <1>7, <2>1, <3>2
    <3> QED
      BY <3>1, <3>2
  <2>2. CASE k \in 1..n
    <3> DEFINE f == received[k]
    <3>1. received'[k] = f
      BY <1>4, <2>2
    <3>2. IF f.ix \in Items
          THEN /\ f.kind = reply[f.ix].kind /\ f.type # "completed"
               /\ \E p \in 1..Count(received, f.ix) : reply[f.ix].script[p].type = f.type
          ELSE f.type = "completed" /\ f.kind = "none"
      BY <2>2 DEF ScriptInv, n
    <3> HIDE DEF f
    <3>3. ASSUME f.ix \in Items
          PROVE  1..Count(received, f.ix) \subseteq 1..Count(received', f.ix)
      BY <1>5, <3>3
    <3> QED
      BY <3>1, <3>2, <3>3
  <2> QED
    BY <1>4, <2>1, <2>2
<1>10. ASSUME NEW k \in 1..n, e.ix \in Items, received[k].ix = e.ix, received[k].type = e.type
       PROVE  e.type = "delta"
  <2> DEFINE i == e.ix
             c == Count(received, i)
             s == reply[i].script
  <2>1. PICK p \in 1..c : s[p].type = e.type
    BY <1>10 DEF ScriptInv, n
  <2>2. c \in Nat /\ c + 1 \in 1..Len(s) /\ Len(s) \in Nat /\ s[c + 1].type = e.type
    BY <1>6, <1>10
  <2>3. p \in 1..Len(s) /\ p # c + 1
    BY <2>1, <2>2
  <2> HIDE DEF c
  <2>4. s[p].type = s[c + 1].type
    BY <2>1, <2>2
  <2>5. p = c + 1 \/ s[p].type = "delta"
    BY <1>1, <1>10, <2>2, <2>3, <2>4, ScriptTypesDiffer
  <2> QED
    BY <2>1, <2>3, <2>5
<1>11. ASSUME NEW j \in 1..Len(received'), NEW k \in 1..Len(received'),
              received'[j].ix \in Items, received'[k].ix = received'[j].ix,
              received'[k].type = received'[j].type
       PROVE  j = k \/ received'[j].type = "delta"
  <2>1. CASE j \in 1..n /\ k \in 1..n
    BY <1>4, <1>11, <2>1 DEF ScriptInv, n
  <2>2. CASE j \in 1..n /\ k = n + 1
    BY <1>4, <1>10, <1>11, <2>2
  <2>3. CASE j = n + 1 /\ k \in 1..n
    BY <1>4, <1>10, <1>11, <2>3
  <2> QED
    BY <1>4, <2>1, <2>2, <2>3
<1> QED
  BY <1>3, <1>9, <1>11 DEF ScriptInv
(* patch_completed changes the copy and the note alone.                    *)
LEMMA PatchedKeeps ==
  ASSUME NEW e \in Event
  PROVE  /\ Patched(e).ix = e.ix /\ Patched(e).type = e.type /\ Patched(e).call = e.call
         /\ Patched(e).note = (notes > 0)
         /\ Patched(e).copy = [k \in DOMAIN e.copy |->
                                 CASE ~Marked(e.copy[k])             -> e.copy[k]
                                   [] Marked(e.copy[k]) /\ Rewrites  -> [e.copy[k] EXCEPT !.call = <<Tool, Echo>>]
                                   [] Marked(e.copy[k]) /\ ~Rewrites -> [e.copy[k] EXCEPT !.kind = "gone"]]
<1> DEFINE fix(it) == CASE ~Marked(it)             -> it
                        [] Marked(it) /\ Rewrites  -> [it EXCEPT !.call = <<Tool, Echo>>]
                        [] Marked(it) /\ ~Rewrites -> [it EXCEPT !.kind = "gone"]
           copy    == [k \in DOMAIN e.copy |-> fix(e.copy[k])]
<1>1. Patched(e) = [e EXCEPT !.copy = copy, !.note = notes > 0]
  BY DEF Patched
<1> HIDE DEF copy
<1>2. /\ Patched(e).ix = e.ix /\ Patched(e).type = e.type /\ Patched(e).call = e.call
      /\ Patched(e).note = (notes > 0) /\ Patched(e).copy = copy
  BY <1>1 DEF Event
<1> QED
  BY <1>2 DEF copy

(* What becomes of the first queued event.                                 *)
LEMMA YieldEvent ==
  ASSUME AInv, Yield, NEW e, e = Head(queue)
  PROVE  /\ e \in Event /\ queue[1] = e /\ e.n \in 1..Len(received) /\ received[e.n] = e
         /\ e.kind = "call" => e.ix = open
         /\ \/ /\ phase = "flush" \/ ~Blocked \/ ~Own(e, Types)
               /\ out' = Append(out, e)
            \/ /\ phase = "release" /\ Blocked /\ Own(e, Types)
               /\ ~Rewrites \/ (e.type = "delta" /\ \E h \in ToSet(held) : Own(h, {"delta"}) /\ h.n < e.n)
               /\ UNCHANGED out
            \/ /\ phase = "release" /\ Blocked /\ Own(e, Types) /\ Rewrites
               /\ ~(e.type = "delta" /\ \E h \in ToSet(held) : Own(h, {"delta"}) /\ h.n < e.n)
               /\ \E f \in Event :
                    /\ f.n = e.n /\ f.kind = e.kind /\ f.ix = e.ix /\ f.type = e.type
                    /\ f.call = Shown(e.type) /\ out' = Append(out, f)
<1>1. /\ TypeOK /\ QueueInv
      /\ queue # <<>> /\ phase \in {"release", "flush"}
      /\ out' = out \o IF phase = "release" THEN Released(e) ELSE <<e>>
  BY DEF AInv, Inv, Yield
<1>2. queue \in Seq(Event) /\ out \in Seq(Event)
  BY <1>1 DEF TypeOK
<1>3. e \in Event /\ e = queue[1] /\ 1 \in 1..Len(queue)
  BY <1>1, <1>2
<1>4. e.n \in 1..Len(received) /\ received[e.n] = e /\ (e.kind = "call" => e.ix = open)
  BY <1>1, <1>3 DEF QueueInv, Holds, FromUpstream
<1>5. CASE phase = "flush" \/ ~Blocked \/ ~Own(e, Types)
  <2>1. out' = out \o <<e>>
    BY <1>1, <1>5 DEF Released
  <2>2. out' = Append(out, e)
    BY <1>2, <1>3, <2>1, AppendIs
  <2> QED
    BY <1>3, <1>4, <1>5, <2>2
<1>6. CASE phase = "release" /\ Blocked /\ Own(e, Types)
  <2> DEFINE again == e.type = "delta" /\ \E h \in ToSet(held) : Own(h, {"delta"}) /\ h.n < e.n
  <2>1. CASE ~Rewrites \/ again
    <3>1. Released(e) = <<>>
      BY <1>6, <2>1 DEF Released, Rewritten
    <3>2. out' = out
      BY <1>1, <1>2, <1>6, <3>1
    <3> QED
      BY <1>3, <1>4, <1>6, <2>1, <3>2
  <2>2. CASE Rewrites /\ ~again
    <3> DEFINE c == Shown(e.type)
               f == [e EXCEPT !.call = c]
    <3>1. Released(e) = <<f>>
      BY <1>6, <2>2 DEF Released, Rewritten, Shown
    <3>2. c \in Seq(Pieces \cup {Tool, Echo})
      BY ReplacementIs DEF Shown
    <3> HIDE DEF c
    <3>3. f \in Event /\ f.call = c /\ f.n = e.n /\ f.kind = e.kind /\ f.ix = e.ix /\ f.type = e.type
      BY <1>3, <3>2 DEF Event
    <3>4. out' = out \o <<f>>
      BY <1>1, <1>6, <3>1
    <3> HIDE DEF f
    <3>5. out' = Append(out, f)
      BY <1>2, <3>3, <3>4, AppendIs
    <3> QED
      BY <1>3, <1>4, <1>6, <2>2, <3>3, <3>5 DEF c
  <2> QED
    BY <2>1, <2>2
<1> QED
  BY <1>1, <1>5, <1>6

LEMMA RisingAppend ==
  ASSUME NEW s \in Seq(Event), NEW e \in Event, Rising(s), \A k \in 1..Len(s) : s[k].n < e.n
  PROVE  Rising(Append(s, e))
<1> DEFINE r == Append(s, e)
<1>1. /\ Len(s) \in Nat /\ Len(r) = Len(s) + 1 /\ r[Len(s) + 1] = e
      /\ \A k \in 1..Len(s) : r[k] = s[k]
      /\ \A k \in 1..Len(r) : k \in 1..Len(s) \/ k = Len(s) + 1
  OBVIOUS
<1> HIDE DEF r
<1>2. ASSUME NEW j \in 1..Len(r), NEW k \in 1..Len(r), j < k
      PROVE  r[j].n < r[k].n
  <2>1. j \in 1..Len(s)
    BY <1>1, <1>2
  <2>2. CASE k \in 1..Len(s)
    BY <1>1, <1>2, <2>1, <2>2 DEF Rising
  <2>3. CASE k = Len(s) + 1
    BY <1>1, <2>1, <2>3
  <2> QED
    BY <1>1, <2>2, <2>3
<1> QED
  BY <1>2 DEF Rising, r

LEMMA RisingEmpty ==
  Rising(<<>>) /\ \A n : ~Numbered(<<>>, n)
BY DEF Rising, Numbered

LEMMA NumberedAppend ==
  ASSUME NEW s \in Seq(Event), NEW e \in Event, NEW n
  PROVE  Numbered(Append(s, e), n) <=> Numbered(s, n) \/ e.n = n
<1> DEFINE r == Append(s, e)
<1>1. /\ Len(s) \in Nat /\ Len(r) = Len(s) + 1 /\ r[Len(s) + 1] = e /\ Len(s) + 1 \in 1..Len(r)
      /\ \A k \in 1..Len(s) : r[k] = s[k] /\ k \in 1..Len(r)
      /\ \A k \in 1..Len(r) : k \in 1..Len(s) \/ k = Len(s) + 1
  OBVIOUS
<1> HIDE DEF r
<1>2. Numbered(r, n) <=> Numbered(s, n) \/ e.n = n
  BY <1>1 DEF Numbered
<1> QED
  BY <1>2 DEF r

(* Steps that neither take an event and keep it nor yield one.             *)
LEMMA OrderQuiet ==
  ASSUME AInv, OrderInv, UNCHANGED out, Prefix,
         held' \in {held, <<>>}, queue' \in {queue, held, <<>>}, Waiting' \in {Waiting, <<>>},
         Whole' /\ phase' # "gone" =>
           received' = received /\ Whole /\ phase # "gone" /\ Waiting' = Waiting
  PROVE  OrderInv'
<1>1. \A k \in 1..Len(out) : out[k].n \in 1..Len(received)
  BY DEF AInv, OutInv
<1>2. \A k \in 1..Len(out) :
        LET e == received'[out[k].n] IN out[k].kind = e.kind /\ out[k].ix = e.ix /\ out[k].type = e.type
  BY <1>1 DEF OrderInv, Prefix
<1>3. Rising(out') /\ Rising(held') /\ Rising(queue')
  BY RisingEmpty DEF OrderInv
<1>4. \A j \in 1..Len(out), k \in 1..Len(Waiting') : out[j].n < Waiting'[k].n
  BY DEF OrderInv
<1>5. Whole' /\ phase' # "gone" =>
        \A n \in 1..Len(received') : Other(received'[n]) => Numbered(out', n) \/ Numbered(Waiting', n)
  BY DEF OrderInv
<1> QED
  BY <1>2, <1>3, <1>4, <1>5 DEF OrderInv, Numbered, Rising, Other

(* An event is taken: it is held, or yielded when nothing is held.         *)
LEMMA OrderReceive ==
  ASSUME AInv, OrderInv, NEW e \in Upcoming, Receive(e)
  PROVE  OrderInv'
<1> DEFINE n == Len(received)
<1>1. /\ TypeOK /\ QueueInv /\ OutInv /\ (held = <<>> <=> open = NoItem) /\ ReceivedInv
  BY DEF AInv, Inv
<1>2. /\ phase = "collect" /\ received' = Append(received, e)
      /\ UNCHANGED <<reply, queue, cause, rows>>
  BY DEF Receive, upstreamVars
<1>3. e \in Event /\ e.n = n + 1
  BY <1>1, UpcomingEvent
<1>4. /\ received \in Seq(Event) /\ held \in Seq(Event) /\ out \in Seq(Event) /\ n \in Nat /\ queue = <<>>
      /\ cause = "none"
  BY <1>1, <1>2 DEF TypeOK, QueueInv
<1>5. /\ Len(received') = n + 1 /\ received'[n + 1] = e
      /\ \A k \in 1..n : received'[k] = received[k]
      /\ \A k \in 1..Len(received') : k \in 1..n \/ k = n + 1
  BY <1>2, <1>3, <1>4, AppendIs
<1>6. \A k \in 1..Len(out) : out[k].n \in 1..n
  BY <1>1 DEF OutInv
<1>7. \A k \in 1..Len(held) : held[k].n \in 1..n
  BY <1>1 DEF QueueInv, Holds, FromUpstream
<1>8. Waiting = held /\ Whole
  BY <1>2, <1>4 DEF Waiting, Whole
<1>9. Rising(queue')
  BY <1>2, <1>4, RisingEmpty
<1> HIDE DEF n
<1>10. /\ \A k \in 1..Len(out) :
            out[k].kind = received'[out[k].n].kind /\ out[k].ix = received'[out[k].n].ix
            /\ out[k].type = received'[out[k].n].type
  BY <1>5, <1>6 DEF OrderInv
<1>11. ASSUME NEW m \in 1..n, Other(received'[m])
       PROVE  Numbered(out, m) \/ Numbered(held, m)
  BY <1>2, <1>5, <1>8, <1>11 DEF OrderInv, n
<1>12. CASE open # NoItem \/ (e.type = "added" /\ e.kind = "call")
  <2>1. out' = out /\ held' = Append(held, e) /\ phase' \in {"collect", "judge"}
    <3>1. CASE open = NoItem
      <4>1. held' = <<e>> /\ held = <<>> /\ UNCHANGED <<out, phase>>
        BY <1>1, <1>12, <3>1 DEF Receive
      <4> QED
        BY <1>2, <4>1
    <3>2. CASE open # NoItem
      BY <3>2 DEF Receive
    <3> QED
      BY <3>1, <3>2
  <2>2. Waiting' = held'
    BY <2>1 DEF Waiting
  <2>3. Rising(held)
    BY DEF OrderInv
  <2>4. \A k \in 1..Len(held) : held[k].n < e.n
    BY <1>3, <1>4, <1>7
  <2>5. Rising(held')
    BY <1>3, <1>4, <2>1, <2>3, <2>4, RisingAppend
  <2>6. \A j \in 1..Len(out), k \in 1..Len(held') : out[j].n < held'[k].n
    <3>1. /\ \A k \in 1..Len(held) : held'[k] = held[k]
          /\ held'[Len(held) + 1] = e
          /\ \A k \in 1..Len(held') : k \in 1..Len(held) \/ k = Len(held) + 1
      BY <1>3, <1>4, <2>1
    <3>2. \A j \in 1..Len(out), k \in 1..Len(held) : out[j].n < held[k].n
      BY <1>8 DEF OrderInv
    <3>3. \A j \in 1..Len(out) : out[j].n < e.n
      BY <1>3, <1>4, <1>6
    <3> QED
      BY <3>1, <3>2, <3>3
  <2>7. \A m : Numbered(held', m) <=> Numbered(held, m) \/ e.n = m
    BY <1>3, <1>4, <2>1, NumberedAppend
  <2>8. \A m \in 1..Len(received') : Other(received'[m]) => Numbered(out', m) \/ Numbered(Waiting', m)
    BY <1>3, <1>5, <1>11, <2>1, <2>2, <2>7 DEF n
  <2>9. Rising(out')
    BY <2>1 DEF OrderInv
  <2> QED
    BY <1>9, <1>10, <2>1, <2>2, <2>5, <2>6, <2>8, <2>9 DEF OrderInv, Rising, Numbered, Other
<1>13. CASE open = NoItem /\ ~(e.type = "added" /\ e.kind = "call")
  <2>1. PICK f : /\ f = (IF e.type = "completed" THEN Patched(e) ELSE e)
                 /\ out' = Append(out, f) /\ UNCHANGED <<phase, held>>
    BY <1>13 DEF Receive
  <2>2. f \in Event /\ f.n = e.n /\ f.kind = e.kind /\ f.ix = e.ix /\ f.type = e.type
    BY <1>1, <1>3, <2>1, PatchedIs, PatchedKeeps
  <2>3. held = <<>>
    BY <1>1, <1>13
  <2>4. Waiting' = <<>>
    BY <1>2, <2>1, <2>3 DEF Waiting
  <2>5. Rising(held') /\ Rising(out)
    BY <2>1 DEF OrderInv
  <2>6. \A k \in 1..Len(out) : out[k].n < f.n
    BY <1>3, <1>4, <1>6, <2>2
  <2>7. Rising(out')
    BY <1>4, <2>1, <2>2, <2>5, <2>6, RisingAppend
  <2>8. \A m : Numbered(out', m) <=> Numbered(out, m) \/ f.n = m
    BY <1>4, <2>1, <2>2, NumberedAppend
  <2>9. \A m \in 1..Len(received') : Other(received'[m]) => Numbered(out', m) \/ Numbered(Waiting', m)
    BY <1>3, <1>5, <1>11, <2>2, <2>3, <2>8, RisingEmpty DEF n
  <2>10. \A k \in 1..Len(out') :
            out'[k].kind = received'[out'[k].n].kind /\ out'[k].ix = received'[out'[k].n].ix
            /\ out'[k].type = received'[out'[k].n].type
    <3>1. /\ \A k \in 1..Len(out) : out'[k] = out[k]
          /\ out'[Len(out) + 1] = f
          /\ \A k \in 1..Len(out') : k \in 1..Len(out) \/ k = Len(out) + 1
      BY <1>4, <2>1, <2>2
    <3> QED
      BY <1>3, <1>5, <1>10, <2>2, <3>1
  <2> QED
    BY <1>9, <2>4, <2>5, <2>7, <2>9, <2>10 DEF OrderInv, Rising, Numbered, Other
<1> QED
  BY <1>12, <1>13

LEMMA OrderYield ==
  ASSUME AInv, ScriptInv, OrderInv, Yield
  PROVE  OrderInv'
<1>1. /\ queue # <<>> /\ queue' = Tail(queue) /\ phase \in {"release", "flush"}
      /\ UNCHANGED <<reply, phase, open, held, cause, received, rows>>
  BY DEF Yield, upstreamVars, blockVars
<1>2. TypeOK /\ OutInv /\ QueueInv /\ OpenInv
  BY DEF AInv, Inv
<1>3. queue \in Seq(Event) /\ out \in Seq(Event) /\ received \in Seq(Event)
  BY <1>2 DEF TypeOK
<1>4. PICK e : e = Head(queue)
  OBVIOUS
<1>5. /\ e \in Event /\ queue[1] = e /\ e.n \in 1..Len(received) /\ received[e.n] = e
      /\ \/ /\ Other(e) \/ ~Own(e, Types) \/ phase = "flush" \/ ~Blocked
            /\ \E f \in Event : /\ f.n = e.n /\ f.kind = e.kind /\ f.ix = e.ix /\ f.type = e.type
                                /\ out' = Append(out, f)
         \/ /\ Own(e, Types) /\ UNCHANGED out
         \/ /\ Own(e, Types)
            /\ \E f \in Event : /\ f.n = e.n /\ f.kind = e.kind /\ f.ix = e.ix /\ f.type = e.type
                                /\ out' = Append(out, f)
  BY <1>4, YieldEvent
<1>6. /\ Len(queue) \in Nat /\ Len(queue') = Len(queue) - 1
      /\ \A k \in 1..Len(queue') : k + 1 \in 1..Len(queue) /\ queue'[k] = queue[k + 1]
      /\ \A k \in 1..Len(queue) : k # 1 => k - 1 \in 1..Len(queue') /\ queue'[k - 1] = queue[k]
      /\ 1 \in 1..Len(queue)
  BY <1>1, <1>3
<1>7. Waiting = queue /\ Waiting' = queue'
  BY <1>1 DEF Waiting
<1>8. Rising(queue')
  <2>1. Rising(queue)
    BY DEF OrderInv
  <2>2. ASSUME NEW j \in 1..Len(queue'), NEW k \in 1..Len(queue'), j < k
        PROVE  queue'[j].n < queue'[k].n
    <3>1. j + 1 < k + 1
      BY <2>2
    <3> QED
      BY <1>6, <2>1, <3>1 DEF Rising
  <2> QED
    BY <2>2 DEF Rising
<1>9. \A m : Numbered(queue, m) <=> e.n = m \/ Numbered(queue', m)
  <2>1. ASSUME NEW m, Numbered(queue, m) PROVE e.n = m \/ Numbered(queue', m)
    <3>1. PICK k \in 1..Len(queue) : queue[k].n = m
      BY <2>1 DEF Numbered
    <3>2. CASE k = 1
      BY <1>5, <3>1, <3>2
    <3>3. CASE k # 1
      BY <1>6, <3>1, <3>3 DEF Numbered
    <3> QED
      BY <3>2, <3>3
  <2>2. ASSUME NEW m, Numbered(queue', m) PROVE Numbered(queue, m)
    BY <1>6, <2>2 DEF Numbered
  <2>3. ASSUME NEW m, e.n = m PROVE Numbered(queue, m)
    BY <1>5, <1>6, <2>3 DEF Numbered
  <2> QED
    BY <2>1, <2>2, <2>3
<1>10. \A j \in 1..Len(out), k \in 1..Len(queue') : out[j].n < queue'[k].n
  BY <1>6, <1>7 DEF OrderInv
<1>11. Own(e, Types) => ~Other(e)
  <2> SUFFICES ASSUME Own(e, Types) PROVE ~Other(e)
    OBVIOUS
  <2>1. open # NoItem /\ open \in Items /\ IsCall(open)
    BY <1>1, <1>2 DEF QueueInv, OpenInv, TypeOK
  <2>2. e.ix = open /\ received[e.n].ix \in Items
    BY <1>5, <2>1 DEF Own
  <2>3. e.kind = reply[open].kind
    BY <1>5, <2>2 DEF ScriptInv
  <2> QED
    BY <2>1, <2>3 DEF IsCall, Other
<1>12. Whole' => Whole
  BY <1>1 DEF Whole, Blocked
<1>13. CASE UNCHANGED out
  <2>1. ~Other(e)
    <3>1. \A f \in Event : out # Append(out, f)
      BY <1>3, AppendIs
    <3> QED
      BY <1>5, <1>11, <1>13, <3>1
  <2>2. \A m \in 1..Len(received) : Other(received[m]) => m # e.n
    BY <1>5, <2>1
  <2>3. Whole' /\ phase' # "gone" =>
          \A m \in 1..Len(received) : Other(received[m]) => Numbered(out, m) \/ Numbered(queue', m)
    BY <1>1, <1>7, <1>9, <1>12, <2>2 DEF OrderInv
  <2>4. \A k \in 1..Len(out) :
            out[k].kind = received[out[k].n].kind /\ out[k].ix = received[out[k].n].ix
            /\ out[k].type = received[out[k].n].type
    BY DEF OrderInv
  <2>5. Rising(out) /\ Rising(held)
    BY DEF OrderInv
  <2> QED
    BY <1>1, <1>7, <1>8, <1>10, <1>13, <2>3, <2>4, <2>5 DEF OrderInv, Rising, Numbered, Other
<1>14. ASSUME NEW f \in Event, f.n = e.n, f.kind = e.kind, f.ix = e.ix, f.type = e.type, out' = Append(out, f)
       PROVE  OrderInv'
  <2>1. /\ \A k \in 1..Len(out) : out'[k] = out[k]
        /\ out'[Len(out) + 1] = f
        /\ \A k \in 1..Len(out') : k \in 1..Len(out) \/ k = Len(out) + 1
    BY <1>3, <1>14
  <2>2. \A k \in 1..Len(out) : out[k].n < f.n
    BY <1>5, <1>6, <1>7, <1>14 DEF OrderInv
  <2>3. Rising(out) /\ Rising(held)
    BY DEF OrderInv
  <2>4. Rising(out')
    BY <1>3, <1>14, <2>2, <2>3, RisingAppend
  <2>5. \A m : Numbered(out', m) <=> Numbered(out, m) \/ e.n = m
    BY <1>3, <1>14, NumberedAppend
  <2>6. \A k \in 1..Len(out') :
            out'[k].kind = received[out'[k].n].kind /\ out'[k].ix = received[out'[k].n].ix
            /\ out'[k].type = received[out'[k].n].type
    BY <1>5, <1>14, <2>1 DEF OrderInv
  <2>7. \A j \in 1..Len(out'), k \in 1..Len(queue') : out'[j].n < queue'[k].n
    <3>1. \A k \in 1..Len(queue') : f.n < queue'[k].n
      <4>1. Rising(queue)
        BY DEF OrderInv
      <4>2. \A k \in 1..Len(queue') : 1 < k + 1
        BY <1>6
      <4> QED
        BY <1>5, <1>6, <1>14, <4>1, <4>2 DEF Rising
    <3> QED
      BY <1>10, <2>1, <3>1
  <2>8. Whole' /\ phase' # "gone" =>
          \A m \in 1..Len(received') : Other(received'[m]) => Numbered(out', m) \/ Numbered(Waiting', m)
    BY <1>1, <1>7, <1>9, <1>12, <2>5 DEF OrderInv
  <2> QED
    BY <1>1, <1>7, <1>8, <2>3, <2>4, <2>6, <2>7, <2>8 DEF OrderInv, Rising, Numbered, Other
<1> QED
  BY <1>5, <1>13, <1>14

LEMMA OrderStep ==
  ASSUME AInv, ScriptInv, OrderInv, [Next]_vars
  PROVE  OrderInv'
<1>1. QueueInv /\ (held = <<>> <=> open = NoItem)
  BY DEF AInv, Inv
<1>2. ASSUME NEW e \in Upcoming, EventError(e) PROVE OrderInv'
  <2>1. /\ phase = "collect" /\ received' = Append(received, e) /\ cause' = "guard" /\ phase' = "flush"
        /\ queue' \in {held, <<>>} /\ UNCHANGED <<reply, held, out>>
    BY <1>2 DEF EventError, Fail, Unscreened, upstreamVars
  <2>2. Prefix
    BY <2>1, Taken
  <2>3. Waiting' \in {Waiting, <<>>} /\ ~Whole'
    BY <2>1 DEF Waiting, Whole
  <2> QED
    BY <2>1, <2>2, <2>3, OrderQuiet
<1>3. CASE UpstreamEnds
  <2>1. /\ phase = "collect" /\ UNCHANGED <<held, queue, out, received>>
        /\ (open = NoItem /\ phase' = "flush") \/ phase' = "judge"
    BY <1>3 DEF UpstreamEnds
  <2>2. queue = <<>> /\ cause = "none"
    BY <1>1, <2>1 DEF QueueInv
  <2>3. Waiting' = Waiting /\ Whole /\ Prefix
    BY <1>1, <2>1, <2>2 DEF Waiting, Whole, Prefix
  <2> QED
    BY <2>1, <2>3, OrderQuiet
<1>4. CASE Judge
  <2>1. /\ phase = "judge" /\ phase' = "build" /\ UNCHANGED <<held, queue, out, received, cause>>
    BY <1>4 DEF Judge
  <2>2. Waiting' = Waiting /\ Whole /\ Prefix
    BY <1>1, <2>1 DEF Waiting, Whole, Prefix, QueueInv
  <2> QED
    BY <2>1, <2>2, OrderQuiet
<1>5. CASE Build
  <2>1. /\ phase = "build" /\ phase' \in {"release", "flush"} /\ UNCHANGED <<held, out, received, cause, rows>>
        /\ queue' = held \/ (queue' = <<>> /\ cause = "cut" /\ Blocked)
    BY <1>5 DEF Build
  <2>2. Waiting' = queue' /\ Waiting = held /\ Whole /\ Prefix
    BY <1>1, <2>1 DEF Waiting, Whole, Prefix, QueueInv
  <2>3. Whole' => queue' = held
    BY <2>1 DEF Whole, Blocked
  <2> QED
    BY <2>1, <2>2, <2>3, OrderQuiet
<1>6. CASE EndYields
  <2>1. /\ phase \in {"release", "flush"} /\ queue = <<>> /\ held' = <<>>
        /\ phase' \in {"collect", "done"} /\ UNCHANGED <<queue, out, received, cause, rows>>
    BY <1>6 DEF EndYields
  <2>2. Waiting' = <<>> /\ Waiting = <<>> /\ Prefix
    BY <2>1 DEF Waiting, Prefix
  <2>3. Whole' => Whole
    BY <2>1 DEF Whole, Blocked
  <2> QED
    BY <2>1, <2>2, <2>3, OrderQuiet
<1>7. CASE GuardError \/ UpstreamError
  <2>1. /\ phase \in {"collect", "judge", "build"} /\ cause' \in {"guard", "upstream"}
        /\ UNCHANGED <<held, received, out>> /\ queue' \in {queue, held, <<>>}
        /\ (phase' = "flush" /\ queue' \in {held, <<>>}) \/ phase' = "raised"
    BY <1>7 DEF GuardError, UpstreamError, Fail, Unscreened
  <2>2. Waiting' \in {Waiting, <<>>} /\ Prefix /\ ~Whole'
    BY <2>1 DEF Waiting, Prefix, Whole
  <2> QED
    BY <2>1, <2>2, OrderQuiet
<1>8. CASE ClientGone
  <2>1. phase' = "gone" /\ UNCHANGED <<held, received, out, queue>>
    BY <1>8 DEF ClientGone
  <2>2. Waiting' = <<>> /\ Prefix
    BY <2>1 DEF Waiting, Prefix
  <2> QED
    BY <2>1, <2>2, OrderQuiet
<1>9. CASE UNCHANGED vars
  <2>1. UNCHANGED <<phase, held, received, out, queue, cause, rows>>
    BY <1>9 DEF vars
  <2>2. Waiting' = Waiting /\ Prefix /\ (Whole' => Whole)
    BY <2>1 DEF Waiting, Prefix, Whole, Blocked
  <2> QED
    BY <2>1, <2>2, OrderQuiet
<1> QED
  BY <1>2, <1>3, <1>4, <1>5, <1>6, <1>7, <1>8, <1>9, OrderReceive, OrderYield DEF Next, GuardStep, Over

LEMMA ScriptInit == Init => ScriptInv
BY DEF Init, ScriptInv

LEMMA ScriptNext ==
  ASSUME AInv, ScriptInv, [Next]_vars
  PROVE  ScriptInv'
<1>1. ASSUME NEW e \in Upcoming, Receive(e) \/ EventError(e) PROVE ScriptInv'
  <2>1. phase = "collect" /\ received' = Append(received, e) /\ UNCHANGED reply
    BY <1>1 DEF Receive, EventError, Fail, upstreamVars
  <2> QED
    BY <2>1, ScriptStep
<1>2. ASSUME UNCHANGED <<received, reply>> PROVE ScriptInv'
  BY <1>2 DEF ScriptInv, Items, Count
<1>3. CASE GuardStep \/ UpstreamEnds \/ UpstreamError \/ GuardError \/ ClientGone \/ UNCHANGED vars
  <2>1. UNCHANGED <<received, reply>>
    BY <1>3 DEF GuardStep, Judge, Build, Yield, EndYields, UpstreamEnds, UpstreamError, GuardError, Fail,
                ClientGone, vars, upstreamVars
  <2> QED
    BY <1>2, <2>1
<1> QED
  BY <1>1, <1>3 DEF Next, Over

LEMMA OrderInit == Init => OrderInv
BY RisingEmpty DEF Init, OrderInv, Rising, Numbered, Waiting

(* The client gets the events in the order of the upstream, each at most   *)
(* once, and every event of the items that are not calls, however they     *)
(* fall between those of a call that is held.                              *)
THEOREM OthersKeepTheirOrder == ~Overlapping /\ Spec => []OthersInOrder
<1>1. ~Overlapping /\ Init => AInv /\ ScriptInv /\ OrderInv
  BY InitAInv, ScriptInit, OrderInit
<1>2. AInv /\ ScriptInv /\ OrderInv /\ [Next]_vars => (AInv /\ ScriptInv /\ OrderInv)'
  BY NextAInv, ScriptNext, OrderStep
<1>3. AInv /\ OrderInv => OthersInOrder
  <2> SUFFICES ASSUME AInv, OrderInv PROVE OthersInOrder
    OBVIOUS
  <2>1. \A j, k \in 1..Len(out) : j < k => out[j].n < out[k].n
    BY DEF OrderInv, Rising
  <2>2. ASSUME Delivered \/ (phase = "done" /\ cause = "cut" /\ ~Blocked)
        PROVE  Kept(out) = Kept(received)
    <3>1. Waiting = <<>> /\ Whole /\ phase # "gone"
      BY <2>2 DEF Waiting, Whole, Delivered
    <3>2. \A m \in 1..Len(received) : received[m].n = m
      BY DEF AInv, ReceivedInv
    <3>3. \A m \in 1..Len(received) : Other(received[m]) => Numbered(out, m)
      BY <3>1, RisingEmpty DEF OrderInv
    <3>4. \A k \in 1..Len(out) : /\ out[k].n \in 1..Len(received)
                                 /\ Other(out[k]) <=> Other(received[out[k].n])
      BY DEF AInv, OutInv, OrderInv, Other
    <3>5. \A x : x \in Kept(out) => x \in Kept(received)
      BY <3>2, <3>4 DEF Kept
    <3>6. \A x : x \in Kept(received) => x \in Kept(out)
      BY <3>2, <3>3, <3>4 DEF Kept, Numbered
    <3> QED
      BY <3>5, <3>6
  <2> QED
    BY <2>1, <2>2 DEF OthersInOrder
<1> QED
  BY <1>1, <1>2, <1>3, PTL DEF Spec

(* What a script spells, one event further.                                *)
LEMMA SpelledMore ==
  ASSUME NEW S, NEW s, NEW c \in Nat, \A k \in 1..(c + 1) : s[k].call \in Seq(S)
  PROVE  /\ Spelled(s, c) \in Seq(S)
         /\ Spelled(s, c + 1) = IF s[c + 1].type \in {"added", "delta"} THEN Spelled(s, c) \o s[c + 1].call
                                ELSE Spelled(s, c)
         /\ Spelled(s, 0) = <<>>
<1> DEFINE part(k) == IF s[k].type \in {"added", "delta"} THEN s[k].call ELSE <<>>
           f(n) == [k \in 1..n |-> part(k)]
<1>1. \A k \in 1..(c + 1) : part(k) \in Seq(S)
  <2>1. <<>> \in Seq(S)
    OBVIOUS
  <2> QED
    BY <2>1
<1>2. Spelled(s, c) = FlattenSeq(f(c)) /\ Spelled(s, c + 1) = FlattenSeq(f(c + 1))
  BY DEF Spelled
<1>3. Spelled(s, 0) = <<>>
  <2>1. f(0) = <<>>
    OBVIOUS
  <2>2. Spelled(s, 0) = FlattenSeq(f(0))
    BY DEF Spelled
  <2> QED
    BY <2>1, <2>2, FlattenEmpty
<1> HIDE DEF part
<1>4. f(c) \in Seq(Seq(S)) /\ part(c + 1) \in Seq(S)
  BY <1>1
<1>5. f(c + 1) = Append(f(c), part(c + 1))
  <2>1. Len(f(c)) = c /\ \A k \in 1..c : f(c)[k] = part(k)
    OBVIOUS
  <2> QED
    BY <2>1
<1> HIDE DEF f
<1>6. FlattenSeq(f(c + 1)) = FlattenSeq(f(c)) \o part(c + 1) /\ FlattenSeq(f(c)) \in Seq(S)
  BY <1>4, <1>5, FlattenAppend, FlattenTyped
<1>7. Spelled(s, c) \o <<>> = Spelled(s, c)
  BY <1>2, <1>6
<1> QED
  BY <1>2, <1>3, <1>6, <1>7 DEF part

(* An event is taken: the open call grows by what the event spells, and is *)
(* whole behind its done event.                                            *)
LEMMA CallReceive ==
  ASSUME AInv, CallInv, RowInv, NEW e \in Upcoming, Receive(e)
  PROVE  CallInv'
<1>1. /\ TypeOK /\ ReceivedInv /\ OpenInv /\ JudgedInv /\ reply \in Replies
  BY DEF AInv, Inv, TypeOK
<1>2. /\ phase = "collect" /\ received' = Append(received, e) /\ UNCHANGED <<conf, reply, rows>>
  BY DEF Receive, upstreamVars
<1>3. /\ Started' = IF e.ix \in Items THEN Started \cup {e.ix} ELSE Started
      /\ Finished' = IF e.type = "done" THEN Finished \cup {e.ix} ELSE Finished
      /\ Items \subseteq Indices /\ NoItem \notin Items /\ Started \subseteq Items
      /\ e \in Event /\ e.call \in Seq(Pieces)
  BY <1>2, Taken
<1>4. /\ open = NoItem /\ e.kind = "call" => e.type = "added" /\ e.ix \in Items /\ e.ix \notin Started
      /\ open # NoItem /\ e.kind = "call" => e.ix = open
      /\ open # NoItem /\ e.ix = open => ItemEvent(e) /\ e.type # "added"
  BY <1>2, CallsComeAlone
<1>5. FinalEvent(e) \/ ItemEvent(e)
  BY <1>1, UpcomingEvent
<1>6. open \notin Judged /\ open \notin Finished /\ Judged' = Judged /\ Finished \subseteq Started
  BY <1>1, <1>2, FinishedStarted DEF JudgedInv, OpenInv, Judged
<1>7. Items \subseteq Nat /\ Items' = Items
  BY <1>1, <1>2, ItemsAre DEF Items
<1>8. \A i \in Items : /\ Count(received, i) \in Nat
                       /\ Count(received', i) = IF e.ix = i THEN Count(received, i) + 1 ELSE Count(received, i)
  BY <1>1, <1>2, <1>3, <1>7, CountGrows
<1>9. calls \in [Indices -> Seq(Pieces)]
  BY <1>1 DEF TypeOK
<1>10. ASSUME NEW i \in Judged PROVE i \in Finished' => i \in Finished
  <2>1. i \in Items /\ IsCall(i)
    BY <1>3, <1>1 DEF RowInv, JudgedInv
  <2>2. e.ix = i => e.kind = "call"
    BY <1>3, <1>5, <2>1 DEF FinalEvent, ItemEvent, IsCall
  <2>3. e.ix = i => e.type # "done"
    BY <1>4, <1>6, <2>2
  <2> QED
    BY <1>3, <2>3
<1>11. ASSUME e.ix \in Items
       PROVE  LET c == Count(received, e.ix)
                  s == reply[e.ix].script
              IN  /\ c \in Nat /\ c + 1 \in 1..Len(s) /\ Len(s) \in Nat
                  /\ e.type = s[c + 1].type /\ e.call = s[c + 1].call
                  /\ Spelled(s, c) \in Seq(Pieces) /\ Spelled(s, 0) = <<>>
                  /\ Spelled(s, c + 1) = IF e.type \in {"added", "delta"} THEN Spelled(s, c) \o e.call
                                         ELSE Spelled(s, c)
  <2> DEFINE c == Count(received, e.ix)
             s == reply[e.ix].script
  <2>1. /\ c \in Nat /\ c + 1 \in 1..Len(s) /\ Len(s) \in Nat
        /\ e.type = s[c + 1].type /\ e.call = s[c + 1].call
    BY <1>1, <1>11, UpcomingScript
  <2>2. \A k \in 1..Len(s) : s[k].call \in Seq(Pieces)
    <3>1. \A k \in 1..Len(s) : s[k] \in [type : Types \ {"completed"}, call : Seq(Pieces)]
      BY <1>1, <1>11, ScriptIs
    <3> QED
      BY <3>1
  <2> HIDE DEF c, s
  <2>3. \A k \in 1..(c + 1) : s[k].call \in Seq(Pieces)
    BY <2>1, <2>2
  <2>4. /\ Spelled(s, c) \in Seq(Pieces) /\ Spelled(s, 0) = <<>>
        /\ Spelled(s, c + 1) = IF s[c + 1].type \in {"added", "delta"} THEN Spelled(s, c) \o s[c + 1].call
                                ELSE Spelled(s, c)
    BY <2>1, <2>3, SpelledMore
  <2> QED
    BY <2>1, <2>4 DEF c, s
<1>12. CASE open = NoItem /\ e.type = "added" /\ e.kind = "call"
  <2>1. open' = e.ix /\ calls' = [calls EXCEPT ![e.ix] = e.call] /\ phase' = phase
    BY <1>12 DEF Receive
  <2>2. e.ix \in Items /\ e.ix \notin Started /\ e.ix \notin Judged
    BY <1>1, <1>4, <1>12 DEF JudgedInv
  <2>3. Count(received, e.ix) = 0 /\ Count(received', e.ix) = 1
    BY <1>8, <2>2 DEF Started
  <2>4. calls'[e.ix] = e.call
    BY <1>3, <1>9, <2>1, <2>2
  <2>5. <<>> \o e.call = e.call
    BY <1>3
  <2>6. e.call = Spelled(reply[e.ix].script, 1)
    <3> DEFINE s == reply[e.ix].script
    <3>1. /\ Spelled(s, Count(received, e.ix) + 1) = Spelled(s, Count(received, e.ix)) \o e.call
          /\ Spelled(s, 0) = <<>>
      BY <1>11, <1>12, <2>2
    <3> HIDE DEF s
    <3>2. Spelled(s, 0 + 1) = Spelled(s, 0) \o e.call
      BY <2>3, <3>1
    <3>3. 0 + 1 = 1
      OBVIOUS
    <3>4. Spelled(s, 1) = e.call
      BY <2>5, <3>1, <3>2, <3>3
    <3> QED
      BY <3>4 DEF s
  <2>7. \A i \in Judged : calls'[i] = calls[i]
    BY <1>1, <1>3, <1>9, <2>1, <2>2 DEF JudgedInv
  <2> QED
    BY <1>2, <1>6, <1>10, <2>1, <2>3, <2>4, <2>6, <2>7 DEF CallInv
<1>13. CASE open = NoItem /\ ~(e.type = "added" /\ e.kind = "call")
  <2>1. UNCHANGED <<open, calls, phase>>
    BY <1>13 DEF Receive
  <2> QED
    BY <1>2, <1>6, <1>10, <1>13, <2>1 DEF CallInv
<1>14. CASE open # NoItem
  <2>1. /\ open' = open
        /\ calls' = IF e.ix = open THEN [calls EXCEPT ![open] = Assembled(e)] ELSE calls
        /\ phase' = IF Own(e, {"done"}) THEN "judge" ELSE "collect"
    BY <1>14 DEF Receive
  <2>2. open \in Items /\ open \in Indices
    BY <1>1, <1>3, <1>14 DEF OpenInv
  <2>3. \A i \in Judged : calls'[i] = calls[i]
    BY <1>1, <1>3, <1>6, <1>9, <2>1 DEF JudgedInv
  <2>4. calls[open] = Spelled(reply[open].script, Count(received, open))
    BY <1>2, <1>14 DEF CallInv
  <2>5. CASE e.ix # open
    <3>1. Count(received', open) = Count(received, open) /\ calls' = calls /\ phase' = "collect"
      BY <1>8, <2>1, <2>2, <2>5 DEF Own
    <3> QED
      BY <1>2, <1>6, <1>10, <2>1, <2>3, <2>4, <3>1 DEF CallInv
  <2>6. CASE e.ix = open
    <3> DEFINE c == Count(received, open)
               s == reply[open].script
    <3>1. /\ c \in Nat /\ c + 1 \in 1..Len(s) /\ Len(s) \in Nat
          /\ e.type = s[c + 1].type /\ e.call = s[c + 1].call
          /\ Spelled(s, c + 1) = IF e.type \in {"added", "delta"} THEN Spelled(s, c) \o e.call
                                 ELSE Spelled(s, c)
      BY <1>11, <2>2, <2>6
    <3>2. e.type # "added" /\ (e.type = "done" <=> c + 1 = Len(s))
      BY <1>4, <1>14, <2>6 DEF ItemEvent
    <3>3. calls'[open] = Assembled(e) /\ Count(received', open) = c + 1
      BY <1>8, <1>9, <2>1, <2>2, <2>6
    <3>4. CASE e.type # "done"
      <4>1. phase' = "collect" /\ Assembled(e) = Spelled(s, c + 1)
        BY <2>1, <2>4, <3>1, <3>2, <3>4 DEF Own, Assembled
      <4> QED
        BY <1>2, <1>6, <1>10, <2>1, <2>3, <3>3, <4>1 DEF CallInv
    <3>5. CASE e.type = "done"
      <4>1. IsCall(open) /\ Len(s) = c + 1
        BY <1>1, <1>14, <3>2, <3>5 DEF OpenInv
      <4>2. reply[open].call = IF Len(s[Len(s)].call) > 1 THEN s[Len(s)].call ELSE Spelled(s, Len(s))
        BY <1>1, <2>2, <4>1, RepliesAssumption DEF Items, IsCall
      <4>3. Assembled(e) = reply[open].call
        BY <2>4, <3>1, <3>5, <4>1, <4>2 DEF Assembled
      <4>4. phase' = "judge"
        BY <2>1, <2>6, <3>5 DEF Own
      <4> QED
        BY <1>2, <1>6, <1>10, <2>1, <2>3, <3>3, <4>3, <4>4 DEF CallInv
    <3> QED
      BY <3>4, <3>5
  <2> QED
    BY <2>5, <2>6
<1> QED
  BY <1>12, <1>13, <1>14

LEMMA CallNext ==
  ASSUME AInv, CallInv, RowInv, [Next]_vars
  PROVE  CallInv'
<1>1. OpenInv /\ JudgedInv /\ QueueInv /\ TypeOK
  BY DEF AInv, Inv
<1>2. ASSUME NEW e \in Upcoming, EventError(e) PROVE CallInv'
  <2>1. /\ phase = "collect" /\ phase' = "flush" /\ received' = Append(received, e)
        /\ UNCHANGED <<conf, reply, open, calls, rows>>
    BY <1>2 DEF EventError, Fail, upstreamVars
  <2>2. /\ Finished' = IF e.type = "done" THEN Finished \cup {e.ix} ELSE Finished
        /\ Started \subseteq Items /\ NoItem \notin Items
    BY <2>1, Taken
  <2>3. FinalEvent(e) \/ ItemEvent(e)
    BY <1>1, UpcomingEvent DEF AInv
  <2>4. /\ open = NoItem /\ e.kind = "call" => e.type = "added" /\ e.ix \in Items /\ e.ix \notin Started
        /\ open # NoItem /\ e.kind = "call" => e.ix = open
    BY <2>1, CallsComeAlone
  <2>5. open \notin Judged /\ Judged' = Judged
    BY <1>1, <2>1 DEF JudgedInv, Judged
  <2>6. ASSUME NEW i \in Judged PROVE i \in Finished' => i \in Finished
    <3>1. i \in Items /\ IsCall(i) /\ i \in Started
      BY <1>1, <2>2 DEF RowInv, JudgedInv
    <3>2. e.ix = i => e.kind = "call"
      BY <2>3, <3>1, <2>2 DEF FinalEvent, ItemEvent, IsCall
    <3>3. e.ix = i => e.type # "done"
      BY <2>4, <2>5, <3>1, <3>2
    <3> QED
      BY <2>2, <3>3
  <2> QED
    BY <2>1, <2>5, <2>6 DEF CallInv
<1>3. CASE Judge
  <2>1. /\ phase = "judge" /\ phase' = "build" /\ UNCHANGED <<received, reply, open, calls>>
    BY <1>3 DEF Judge, upstreamVars
  <2>2. Judged' = Judged \cup {open}
    BY <1>3, JudgeAInv
  <2>3. Finished' = Finished
    BY <2>1 DEF Finished, Items, Count
  <2> QED
    BY <2>1, <2>2, <2>3 DEF CallInv
<1>4. CASE UpstreamEnds \/ Build \/ Yield \/ EndYields \/ UpstreamError \/ GuardError \/ ClientGone \/ UNCHANGED vars
  <2>1. UNCHANGED <<received, reply, calls, rows>>
    BY <1>4 DEF Build, Yield, EndYields, UpstreamEnds, UpstreamError, GuardError, Fail,
                ClientGone, vars, upstreamVars
  <2>2. \/ phase' \notin {"collect", "judge"}
        \/ UNCHANGED <<phase, open>>
        \/ open' = NoItem
        \/ phase = "collect" /\ open' = open /\ open # NoItem
    BY <1>4 DEF Build, Yield, EndYields, UpstreamEnds, UpstreamError, GuardError, Fail,
                ClientGone, vars, upstreamVars
  <2>3. Finished' = Finished /\ Judged' = Judged
    BY <2>1 DEF Finished, Items, Count, Judged
  <2>4. NoItem \notin Items /\ Finished \subseteq Items
    BY <1>1, ItemsAre DEF TypeOK, Finished
  <2>5. phase = "collect" => open \notin Finished
    BY <1>1 DEF OpenInv
  <2>6. ASSUME open' # NoItem, phase' = "collect"
        PROVE  phase = "collect" /\ open' = open
    BY <1>4, <2>6 DEF Build, Yield, EndYields, UpstreamEnds, UpstreamError, GuardError, Fail,
                ClientGone, vars, upstreamVars
  <2> QED
    BY <2>1, <2>2, <2>3, <2>4, <2>5, <2>6 DEF CallInv
<1> QED
  BY <1>2, <1>3, <1>4, CallReceive DEF Next, GuardStep, Over

(* Rows are written in Judge alone; calls that begin are opened.           *)
LEMMA RowReceive ==
  ASSUME AInv, RowInv, NEW e \in Upcoming, phase = "collect", received' = Append(received, e),
         UNCHANGED <<conf, reply, rows>>, \A i \in Judged : calls'[i] = calls[i],
         cause' = "guard" \/
           /\ UNCHANGED cause /\ phase' \in {"collect", "judge"}
           /\ open' = IF open = NoItem /\ e.type = "added" /\ e.kind = "call" THEN e.ix ELSE open
  PROVE  RowInv'
<1>1. /\ Started' = IF e.ix \in Items THEN Started \cup {e.ix} ELSE Started
      /\ NoItem \notin Items /\ Started \subseteq Items
  BY Taken
<1>2. /\ open = NoItem /\ e.kind = "call" => e.type = "added"
      /\ open # NoItem /\ e.kind = "call" => e.ix = open
  BY CallsComeAlone
<1>3. FinalEvent(e) \/ ItemEvent(e)
  BY UpcomingEvent DEF AInv, Inv
<1>4. e.ix \in Items /\ IsCall(e.ix) => e.kind = "call"
  BY <1>1, <1>3 DEF FinalEvent, ItemEvent, IsCall
<1>5. Judged' = Judged /\ \A i : IsCall(i)' <=> IsCall(i)
  BY DEF Judged, IsCall
<1>6. cause = "none"
  BY DEF AInv, QueueInv
<1>7. ASSUME UNCHANGED cause, phase' \in {"collect", "judge"},
             open' = IF open = NoItem /\ e.type = "added" /\ e.kind = "call" THEN e.ix ELSE open,
             NEW i \in Started', IsCall(i)
      PROVE  i \in Judged \/ i = open'
  <2>1. CASE i \in Started
    <3>1. i \in Judged \/ i = open
      BY <1>6, <2>1, <1>7 DEF RowInv
    <3> QED
      BY <1>1, <1>7, <2>1, <3>1
  <2>2. CASE i \notin Started
    BY <1>1, <1>2, <1>4, <1>7, <2>2
  <2> QED
    BY <2>1, <2>2
<1>8. \A k \in 1..Len(rows) : rows[k].index \in Judged
  BY DEF Judged
<1>9. \A k \in 1..Len(rows) :
        rows[k].call = calls'[rows[k].index] /\ rows[k].verdict = Evaluate(rows[k].call)'
  BY <1>8 DEF RowInv, Evaluate
<1> QED
  BY <1>5, <1>7, <1>9 DEF RowInv

(* Taking an event leaves the calls that were judged alone.                *)
LEMMA JudgedCallsStay ==
  ASSUME AInv, NEW e \in Upcoming, Receive(e)
  PROVE  \A i \in Judged : calls'[i] = calls[i]
<1>1. /\ phase = "collect" /\ received' = Append(received, e) /\ UNCHANGED reply
  BY DEF Receive, upstreamVars
<1>2. e.ix \in Items => e.ix \in Indices
  BY <1>1, Taken
<1>3. open = NoItem /\ e.kind = "call" => e.ix \in Items /\ e.ix \notin Started
  BY <1>1, CallsComeAlone
<1>4. /\ calls \in [Indices -> Seq(Pieces)] /\ open \notin Judged /\ Judged \subseteq Started
  BY <1>1 DEF AInv, Inv, TypeOK, JudgedInv
<1>5. Judged \subseteq Indices
  BY JudgedItems DEF AInv, Inv
<1>6. \/ UNCHANGED calls
      \/ open = NoItem /\ e.kind = "call" /\ calls' = [calls EXCEPT ![e.ix] = e.call]
      \/ calls' = [calls EXCEPT ![open] = Assembled(e)]
  BY DEF Receive
<1> QED
  BY <1>3, <1>4, <1>5, <1>6

LEMMA RowJudge ==
  ASSUME AInv, RowInv, Judge
  PROVE  RowInv'
<1> DEFINE v   == Evaluate(calls[open])
           row == [index |-> open, call |-> calls[open], verdict |-> v]
           n   == Len(rows)
<1>1. /\ phase = "judge" /\ phase' = "build" /\ rows' = Append(rows, row)
      /\ UNCHANGED <<conf, reply, open, received, calls, cause>>
  BY DEF Judge, upstreamVars
<1>2. Judged' = Judged \cup {open} /\ open \in Indices /\ open \notin Judged
  BY JudgeAInv
<1>3. TypeOK /\ OpenInv /\ IsCall(open)
  BY <1>1 DEF AInv, Inv, OpenInv
<1>4. /\ n \in Nat /\ Len(rows') = n + 1 /\ rows'[n + 1] = row
      /\ \A k \in 1..n : rows'[k] = rows[k]
      /\ \A k \in 1..Len(rows') : k \in 1..n \/ k = n + 1
  <2> DEFINE Row == [index : Items, call : Seq(Pieces), verdict : Verdicts]
  <2>1. rows \in Seq(Row)
    BY <1>3 DEF TypeOK
  <2> HIDE DEF Row, row
  <2> QED
    BY <1>1, <2>1
<1>5. IsFiniteSet(Judged') /\ Cardinality(Judged') = Len(rows')
  <2>1. IsFiniteSet(Judged) /\ Cardinality(Judged) = n
    BY DEF RowInv
  <2>2. IsFiniteSet(Judged \cup {open}) /\ Cardinality(Judged \cup {open}) = Cardinality(Judged) + 1
    BY <1>2, <2>1, FS_AddElement
  <2> QED
    BY <1>2, <1>4, <2>1, <2>2
<1>6. Started' = Started /\ \A i : IsCall(i)' <=> IsCall(i)
  BY <1>1 DEF Started, Items, IsCall, Count
<1>7. /\ rows'[n + 1].index = open /\ rows'[n + 1].call = calls[open]
      /\ rows'[n + 1].verdict = Evaluate(calls[open])
  BY <1>4
<1> HIDE DEF row, v, n
<1>8. \A k \in 1..n : rows[k].call = calls[rows[k].index] /\ rows[k].verdict = Evaluate(rows[k].call)
  BY DEF RowInv, n
<1>9. \A x : Evaluate(x)' = Evaluate(x)
  BY <1>1 DEF Evaluate
<1>10. \A k \in 1..Len(rows') :
         rows'[k].call = calls[rows'[k].index] /\ rows'[k].verdict = Evaluate(rows'[k].call)
  BY <1>4, <1>7, <1>8
<1>11. \A k \in 1..Len(rows') :
         rows'[k].call = calls'[rows'[k].index] /\ rows'[k].verdict = Evaluate(rows[k].call)'
  BY <1>1, <1>10 DEF Evaluate
<1>12. \A i \in Judged' : IsCall(i)
  BY <1>2, <1>3 DEF RowInv
<1>13. cause' \in {"none", "cut"} /\ phase' # "gone" =>
         \A i \in Started : IsCall(i) => i \in Judged'
  BY <1>1, <1>2 DEF RowInv
<1> QED
  BY <1>5, <1>6, <1>11, <1>12, <1>13 DEF RowInv

LEMMA RowNext ==
  ASSUME AInv, RowInv, [Next]_vars
  PROVE  RowInv'
<1>1. ASSUME NEW e \in Upcoming, Receive(e) PROVE RowInv'
  <2>1. \A i \in Judged : calls'[i] = calls[i]
    BY <1>1, JudgedCallsStay
  <2>2. /\ phase = "collect" /\ received' = Append(received, e)
        /\ UNCHANGED <<conf, reply, rows, cause>> /\ phase' \in {"collect", "judge"}
        /\ open' = IF open = NoItem /\ e.type = "added" /\ e.kind = "call" THEN e.ix ELSE open
    BY <1>1 DEF Receive, upstreamVars
  <2> QED
    BY <2>1, <2>2, RowReceive
<1>2. ASSUME NEW e \in Upcoming, EventError(e) PROVE RowInv'
  <2>1. /\ phase = "collect" /\ received' = Append(received, e) /\ cause' = "guard"
        /\ UNCHANGED <<conf, reply, rows, calls>>
    BY <1>2 DEF EventError, Fail, upstreamVars
  <2> QED
    BY <2>1, RowReceive
<1>3. CASE UpstreamEnds \/ Build \/ Yield \/ EndYields \/ UpstreamError \/ GuardError \/ ClientGone \/ UNCHANGED vars
  <2>1. UNCHANGED <<conf, received, reply, calls, rows>>
    BY <1>3 DEF Build, Yield, EndYields, UpstreamEnds, UpstreamError, GuardError, Fail,
                ClientGone, vars, upstreamVars
  <2>2. UNCHANGED <<Started, Judged>> /\ (\A i : IsCall(i)' <=> IsCall(i)) /\ (\A x : Evaluate(x)' = Evaluate(x))
    BY <2>1 DEF Started, Items, Count, Judged, IsCall, Evaluate
  <2>3. ASSUME cause' \in {"none", "cut"}, phase' # "gone", NEW i \in Started, IsCall(i)
        PROVE  i \in Judged \/ (i = open' /\ phase' \in {"collect", "judge"})
    <3>1. cause \in {"none", "cut"} /\ phase # "gone"
      <4>1. phase = "collect" => cause = "none"
        BY DEF AInv, QueueInv
      <4> QED
        BY <1>3, <2>3, <4>1 DEF Build, Yield, EndYields, UpstreamEnds, UpstreamError, GuardError, Fail,
                ClientGone, vars, upstreamVars
    <3>2. i \in Judged \/ (i = open /\ phase \in {"collect", "judge"})
      BY <2>3, <3>1 DEF RowInv
    <3>3. ASSUME phase \in {"collect", "judge"}, open # NoItem
          PROVE  open' = open /\ phase' \in {"collect", "judge"}
      BY <1>3, <2>3, <3>3 DEF Build, Yield, EndYields, UpstreamEnds, UpstreamError, GuardError, Fail,
                ClientGone, vars, upstreamVars
    <3>4. i # NoItem
      BY FinishedStarted, ItemsAre DEF AInv, Inv, TypeOK
    <3> QED
      BY <3>2, <3>3, <3>4
  <2>4. \A k \in 1..Len(rows) :
          rows[k].call = calls'[rows[k].index] /\ rows[k].verdict = Evaluate(rows[k].call)'
    BY <2>1 DEF RowInv, Evaluate
  <2>5. /\ \A i \in Judged : IsCall(i)
        /\ IsFiniteSet(Judged) /\ Cardinality(Judged) = Len(rows)
    BY DEF RowInv
  <2> QED
    BY <2>1, <2>2, <2>3, <2>4, <2>5 DEF RowInv
<1> QED
  BY <1>1, <1>2, <1>3, RowJudge DEF Next, GuardStep, Over

LEMMA RowInit == Init => RowInv /\ CallInv
<1> SUFFICES ASSUME Init PROVE RowInv /\ CallInv
  OBVIOUS
<1>1. /\ reply \in Replies /\ received = <<>> /\ rows = <<>> /\ open = NoItem /\ phase = "collect"
  BY DEF Init
<1>2. Judged = {} /\ Len(rows) = 0
  BY <1>1 DEF Judged
<1>3. Started = {}
  BY <1>1, EmptyCount DEF Started
<1>4. IsFiniteSet(Judged) /\ Cardinality(Judged) = 0
  BY <1>2, FS_EmptySet
<1>5. NoItem \notin Items /\ Finished \subseteq Items
  BY <1>1, ItemsAre DEF Finished
<1> QED
  BY <1>1, <1>2, <1>3, <1>4, <1>5 DEF RowInv, CallInv

Judging == AInv /\ RowInv /\ CallInv

LEMMA JudgingHolds == ~Overlapping /\ Spec => []Judging
<1>1. ~Overlapping /\ Init => Judging
  BY InitAInv, RowInit DEF Judging
<1>2. Judging /\ [Next]_vars => Judging'
  BY NextAInv, RowNext, CallNext DEF Judging
<1> QED
  BY <1>1, <1>2, PTL DEF Spec

(* When the stream is over and nothing failed, each call that began has    *)
(* one ledger row with its verdict, on the whole call, or on what arrived  *)
(* of it when the stream was cut.                                          *)
THEOREM EachCallIsJudged == ~Overlapping /\ Spec => []RowsComplete
<1>1. ASSUME Judging, phase = "done", cause \in {"none", "cut"} PROVE AllJudged
  <2>1. Judged = {i \in Started : IsCall(i)}
    <3>1. Judged \subseteq Started
      BY <1>1 DEF Judging, AInv, JudgedInv
    <3> QED
      BY <1>1, <3>1 DEF Judging, RowInv
  <2>2. \A k \in 1..Len(rows) : rows[k].index \in Judged
    BY DEF Judged
  <2>3. \A k \in 1..Len(rows) : rows[k].index \in Finished => rows[k].call = reply[rows[k].index].call
    BY <1>1, <2>2 DEF Judging, RowInv, CallInv
  <2> QED
    BY <1>1, <2>1, <2>3 DEF AllJudged, Judging, RowInv
<1>2. Judging => RowsComplete
  BY <1>1 DEF RowsComplete
<1> QED
  BY <1>2, JudgingHolds, PTL

LEMMA MarkBuild ==
  ASSUME Judging, MarkInv, Build
  PROVE  MarkInv'
<1>1. AInv /\ RowInv /\ CallInv /\ OpenInv /\ JudgedInv /\ TypeOK
  BY DEF Judging, AInv, Inv
<1>2. phase = "build" /\ UNCHANGED <<conf, reply, open, cause, calls, rows>>
  BY DEF Build, upstreamVars
<1> SUFFICES ASSUME cause = "none" PROVE MarkInv'
  BY <1>2 DEF MarkInv
<1>3. /\ phase' = "release"
      /\ marked' = IF Blocked THEN marked \cup {[id |-> open, args |-> Tail(calls[open])]} ELSE marked
      /\ notes' = IF Blocked /\ ~Rewrites THEN notes + 1 ELSE notes
  BY DEF Build
<1>4. open \in Items /\ open \in Judged /\ IsCall(open) /\ open \in Finished
  <2>1. open # NoItem /\ open \in Started /\ open \in Judged /\ IsCall(open)
    BY <1>1, <1>2 DEF OpenInv, JudgedInv
  <2> QED
    BY <1>1, <1>2, <2>1, FinishedStarted DEF OpenInv
<1>5. calls[open] = reply[open].call
  BY <1>1, <1>4 DEF CallInv
<1>6. Blocked <=> Evaluate(reply[open].call) = "block"
  BY <1>1, <1>2, <1>5 DEF JudgedInv
<1>7. \A i : Dealt(i)' <=> Dealt(i) \/ (i = open /\ Blocked)
  <2>1. Judged' = Judged /\ \A i : Evaluate(reply[i].call)' = Evaluate(reply[i].call)
    BY <1>2 DEF Judged, Evaluate
  <2>2. \A i : Dealt(i)' <=> i \in Judged /\ Evaluate(reply[i].call) = "block"
    BY <1>3, <2>1 DEF Dealt
  <2> QED
    BY <1>2, <1>4, <1>6, <2>2 DEF Dealt
<1>8. /\ \A m : m \in marked <=> \E i \in Items : Dealt(i) /\ m = [id |-> i, args |-> Tail(reply[i].call)]
      /\ notes > 0 <=> ~Rewrites /\ \E i \in Items : Dealt(i)
      /\ notes \in Nat
  BY <1>1 DEF MarkInv, TypeOK
<1>9. (Rewrites' <=> Rewrites) /\ Items' = Items
  BY <1>2 DEF Rewrites, Items
<1>10. \A m : m \in marked' <=>
         \E i \in Items : (Dealt(i) \/ (i = open /\ Blocked)) /\ m = [id |-> i, args |-> Tail(reply[i].call)]
  <2>1. CASE Blocked
    BY <1>3, <1>4, <1>5, <1>8, <2>1
  <2>2. CASE ~Blocked
    BY <1>3, <1>8, <2>2
  <2> QED
    BY <2>1, <2>2
<1>11. notes' > 0 <=> ~Rewrites /\ \E i \in Items : Dealt(i) \/ (i = open /\ Blocked)
  <2>1. CASE Blocked /\ ~Rewrites
    BY <1>3, <1>4, <1>8, <2>1
  <2>2. CASE ~(Blocked /\ ~Rewrites)
    BY <1>3, <1>8, <2>2
  <2> QED
    BY <2>1, <2>2
<1> QED
  BY <1>2, <1>7, <1>9, <1>10, <1>11 DEF MarkInv

LEMMA MarkNext ==
  ASSUME Judging, MarkInv, [Next]_vars
  PROVE  MarkInv'
<1> SUFFICES ASSUME cause' = "none" PROVE MarkInv'
  BY DEF MarkInv
<1>1. CASE Build
  BY <1>1, MarkBuild
<1>2. ASSUME UNCHANGED <<conf, reply, marked, notes>>, cause = "none",
             \A i : (i \in Judged' /\ ~(phase' = "build" /\ i = open')) <=>
                    (i \in Judged /\ ~(phase = "build" /\ i = open))
      PROVE  MarkInv'
  <2>1. \A i : Evaluate(reply[i].call)' = Evaluate(reply[i].call)
    BY <1>2 DEF Evaluate
  <2>2. \A i : Dealt(i)' <=> Dealt(i)
    BY <1>2, <2>1 DEF Dealt
  <2>3. (Rewrites' <=> Rewrites) /\ Items' = Items
    BY <1>2 DEF Rewrites, Items
  <2> QED
    BY <1>2, <2>2, <2>3 DEF MarkInv
<1>3. CASE Judge
  <2>1. Judged' = Judged \cup {open} /\ open \notin Judged
    BY <1>3, JudgeAInv DEF Judging
  <2>2. /\ UNCHANGED <<conf, reply, marked, notes, open, cause>>
        /\ phase = "judge" /\ phase' = "build"
    BY <1>3 DEF Judge, upstreamVars, blockVars
  <2> QED
    BY <1>2, <2>1, <2>2
<1>4. CASE (\E e \in Upcoming : Receive(e)) \/ UpstreamEnds \/ Yield \/ EndYields \/ ClientGone
  <2>1. /\ UNCHANGED <<conf, reply, marked, notes, rows>>
        /\ phase # "build" /\ phase' # "build"
    BY <1>4 DEF Receive, UpstreamEnds, Yield, EndYields, ClientGone, upstreamVars, blockVars
  <2>2. Judged' = Judged
    BY <2>1 DEF Judged
  <2>3. cause = "none"
    <3>1. phase = "collect" => cause = "none"
      BY DEF Judging, AInv, QueueInv
    <3> QED
      BY <1>4, <3>1 DEF Receive, UpstreamEnds, Yield, EndYields, ClientGone
  <2> QED
    BY <1>2, <2>1, <2>2, <2>3
<1>5. CASE UNCHANGED vars
  BY <1>2, <1>5 DEF vars, upstreamVars, blockVars, Judged
<1>6. ~UpstreamError /\ ~GuardError /\ \A e : ~EventError(e)
  BY DEF UpstreamError, GuardError, EventError, Fail
<1> QED
  BY <1>1, <1>3, <1>4, <1>5, <1>6 DEF Next, GuardStep, Over

(* When the final event comes, the calls that are remembered are the       *)
(* blocked ones, and its copy is patched where they stand in it.           *)
LEMMA FinalIsPatched ==
  ASSUME Judging, MarkInv, phase = "collect", open = NoItem, NEW e \in Upcoming,
         e.type = "completed", ~Clash
  PROVE  /\ DOMAIN Patched(e).copy = Items
         /\ \A i \in Items : /\ Patched(e).copy[i].kind = Entry(i).kind
                             /\ Patched(e).copy[i].call = Entry(i).call
         /\ Patched(e).note <=> \E i \in Items : Entry(i).kind = "gone"
<1>1. AInv /\ RowInv /\ TypeOK /\ ReceivedInv /\ QueueInv /\ JudgedInv /\ reply \in Replies
  BY DEF Judging, AInv, Inv, TypeOK
<1>2. cause = "none"
  BY <1>1 DEF QueueInv
<1>3. e \in Event /\ FinalEvent(e)
  BY <1>1, UpcomingEvent DEF ItemEvent
<1>4. NoItem \notin Items /\ \A i \in Items : reply[i].kind \in {"call", "text"}
  BY <1>1, ItemsAre, ScriptIs
<1>5. Started = Items /\ Finished = Items
  BY <1>1, <1>3, FinishedStarted DEF FinalEvent
<1>6. PICK new \in BOOLEAN : e = Completion(new)
  BY <1>3, <1>5 DEF Upcoming, FinalEvent
<1>7. \A i \in Items : Dealt(i) <=> IsCall(i) /\ Evaluate(reply[i].call) = "block"
  <2>1. \A i \in Items : i \in Judged <=> IsCall(i)
    BY <1>1, <1>2, <1>4, <1>5 DEF RowInv
  <2> QED
    BY <2>1 DEF Dealt
<1>8. /\ DOMAIN e.copy = Items
      /\ \A i \in Items : e.copy[i] = [id |-> IF new THEN NoItem ELSE i, kind |-> reply[i].kind,
                                       call |-> reply[i].call]
  BY <1>6 DEF Completion
<1>9. \A m : m \in marked <=> \E j \in Items : Dealt(j) /\ m = [id |-> j, args |-> Tail(reply[j].call)]
  BY <1>2 DEF MarkInv
<1>10. notes > 0 <=> ~Rewrites /\ \E i \in Items : Dealt(i)
  BY <1>2 DEF MarkInv
<1>11. ASSUME NEW i \in Items
       PROVE  Marked(e.copy[i]) <=> IsCall(i) /\ Evaluate(reply[i].call) = "block"
  <2> DEFINE it == e.copy[i]
  <2>1. it.kind = reply[i].kind /\ it.call = reply[i].call /\ it.id \in {NoItem, i}
    <3> DEFINE id == IF new THEN NoItem ELSE i
    <3>1. it = [id |-> id, kind |-> reply[i].kind, call |-> reply[i].call] /\ id \in {NoItem, i}
      BY <1>8
    <3> HIDE DEF id, it
    <3>2. it.kind = reply[i].kind /\ it.call = reply[i].call /\ it.id = id
      BY <3>1
    <3> QED
      BY <3>1, <3>2
  <2> HIDE DEF it
  <2>2. ASSUME IsCall(i), Evaluate(reply[i].call) = "block" PROVE Marked(it)
    <3> DEFINE m == [id |-> i, args |-> Tail(reply[i].call)]
    <3>1. m \in marked /\ m.args = Tail(it.call)
      BY <1>7, <1>9, <2>1, <2>2
    <3> QED
      BY <2>1, <2>2, <3>1 DEF Marked, IsCall
  <2>3. ASSUME Marked(it) PROVE IsCall(i) /\ Evaluate(reply[i].call) = "block"
    <3>1. IsCall(i)
      BY <2>1, <2>3 DEF Marked, IsCall
    <3>2. PICK m \in marked : m.id = it.id \/ m.args = Tail(it.call)
      BY <2>3 DEF Marked
    <3>3. PICK j \in Items : Dealt(j) /\ m = [id |-> j, args |-> Tail(reply[j].call)]
      BY <1>9
    <3>4. m.id = j /\ m.args = Tail(reply[j].call)
      BY <3>3
    <3>5. IsCall(j) /\ Evaluate(reply[j].call) = "block"
      BY <1>7, <3>3
    <3>6. j = i \/ Tail(reply[j].call) = Tail(reply[i].call)
      BY <1>4, <2>1, <3>2, <3>4
    <3> QED
      BY <3>1, <3>5, <3>6 DEF Clash
  <2> QED
    BY <2>2, <2>3 DEF it
<1>12. DOMAIN Patched(e).copy = Items
  BY <1>3, <1>8, PatchedKeeps
<1>13. ASSUME NEW i \in Items
       PROVE  Patched(e).copy[i].kind = Entry(i).kind /\ Patched(e).copy[i].call = Entry(i).call
  <2> DEFINE it == e.copy[i]
  <2>1. it = [id |-> IF new THEN NoItem ELSE i, kind |-> reply[i].kind, call |-> reply[i].call]
    BY <1>8
  <2>2. Patched(e).copy[i] = CASE ~Marked(it)             -> it
                               [] Marked(it) /\ Rewrites  -> [it EXCEPT !.call = <<Tool, Echo>>]
                               [] Marked(it) /\ ~Rewrites -> [it EXCEPT !.kind = "gone"]
    <3> DEFINE fix(x) == CASE ~Marked(x)             -> x
                           [] Marked(x) /\ Rewrites  -> [x EXCEPT !.call = <<Tool, Echo>>]
                           [] Marked(x) /\ ~Rewrites -> [x EXCEPT !.kind = "gone"]
    <3>1. Patched(e).copy = [k \in DOMAIN e.copy |-> fix(e.copy[k])]
      BY <1>3, PatchedKeeps
    <3> HIDE DEF fix, it
    <3>2. Patched(e).copy[i] = fix(e.copy[i])
      BY <1>8, <3>1
    <3> QED
      BY <3>2 DEF fix, it
  <2>3. Marked(it) <=> IsCall(i) /\ Evaluate(reply[i].call) = "block"
    BY <1>11
  <2> HIDE DEF it
  <2>4. CASE ~Marked(it)
    BY <2>1, <2>2, <2>3, <2>4 DEF Entry
  <2>5. CASE Marked(it) /\ Rewrites
    <3>1. Patched(e).copy[i] = [it EXCEPT !.call = <<Tool, Echo>>]
      BY <2>2, <2>5
    <3>2. Patched(e).copy[i].kind = "call" /\ Patched(e).copy[i].call = <<Tool, Echo>>
      BY <2>1, <2>3, <2>5, <3>1 DEF IsCall
    <3> QED
      BY <2>3, <2>5, <3>2 DEF Entry
  <2>6. CASE Marked(it) /\ ~Rewrites
    <3>1. Patched(e).copy[i] = [it EXCEPT !.kind = "gone"]
      BY <2>2, <2>6
    <3>2. Patched(e).copy[i].kind = "gone" /\ Patched(e).copy[i].call = reply[i].call
      BY <2>1, <3>1
    <3> QED
      BY <2>3, <2>6, <3>2 DEF Entry
  <2> QED
    BY <2>4, <2>5, <2>6
<1>14. Patched(e).note <=> \E i \in Items : Entry(i).kind = "gone"
  <2>1. Patched(e).note = (notes > 0)
    BY <1>3, PatchedKeeps
  <2>2. \A i \in Items : Entry(i).kind = "gone" <=> ~Rewrites /\ IsCall(i) /\ Evaluate(reply[i].call) = "block"
    BY <1>4 DEF Entry
  <2> QED
    BY <1>7, <1>10, <2>1, <2>2
<1> QED
  BY <1>12, <1>13, <1>14

LEMMA CopyNext ==
  ASSUME Judging, MarkInv, CopyInv, [Next]_vars
  PROVE  CopyInv'
<1>1. AInv /\ TypeOK /\ OpenInv /\ QueueInv /\ (held = <<>> <=> open = NoItem)
  BY DEF Judging, AInv, Inv
<1>2. UNCHANGED <<conf, reply>>
  BY DEF Next, GuardStep, Over, Receive, EventError, UpstreamEnds, UpstreamError, GuardError, Fail, Judge,
         Build, Yield, EndYields, ClientGone, vars, upstreamVars
<1>3. /\ Items' = Items /\ (Clash' <=> Clash) /\ \A i \in Items : Entry(i)' = Entry(i)
  BY <1>2 DEF Items, Clash, Entry, IsCall, Evaluate, Rewrites
<1>4. held \in Seq(Event) /\ queue \in Seq(Event) /\ out \in Seq(Event)
  BY <1>1 DEF TypeOK
<1> DEFINE good(f) == ~Clash =>
             /\ DOMAIN f.copy = Items
             /\ \A i \in Items : f.copy[i].kind = Entry(i).kind /\ f.copy[i].call = Entry(i).call
             /\ f.note <=> \E i \in Items : Entry(i).kind = "gone"
           free(s) == \A k \in 1..Len(s) : s[k].type # "completed"
<1>5. \A k \in 1..Len(out) : out[k].type = "completed" => good(out[k])
  BY DEF CopyInv, CompletedAgrees
<1>6. free(held) /\ free(queue) /\ free(<<>>)
  BY DEF CopyInv
<1>7. ASSUME \A k \in 1..Len(out') : out'[k].type = "completed" => good(out'[k])
      PROVE  CompletedAgrees'
  BY <1>3, <1>7 DEF CompletedAgrees
<1> HIDE DEF good
<1>8. ASSUME NEW f \in Event, out' = Append(out, f), f.type = "completed" => good(f)
      PROVE  CompletedAgrees'
  <2>1. /\ \A k \in 1..Len(out) : out'[k] = out[k]
        /\ out'[Len(out) + 1] = f
        /\ \A k \in 1..Len(out') : k \in 1..Len(out) \/ k = Len(out) + 1
    BY <1>4, <1>8
  <2> QED
    BY <1>5, <1>7, <1>8, <2>1
<1>9. UNCHANGED out => CompletedAgrees'
  BY <1>5, <1>7
<1>10. ASSUME NEW e \in Upcoming, Receive(e) PROVE CopyInv'
  <2>1. phase = "collect" /\ received' = Append(received, e) /\ UNCHANGED queue
    BY <1>10 DEF Receive
  <2>2. e \in Event /\ (FinalEvent(e) \/ ItemEvent(e))
    BY <1>1, UpcomingEvent DEF AInv
  <2>3. CASE open = NoItem /\ ~(e.type = "added" /\ e.kind = "call")
    <3>1. PICK f : /\ f = (IF e.type = "completed" THEN Patched(e) ELSE e)
                   /\ out' = Append(out, f) /\ UNCHANGED held
      BY <1>10, <2>3 DEF Receive
    <3>2. f \in Event /\ f.type = e.type
      BY <1>1, <2>2, <3>1, PatchedIs, PatchedKeeps
    <3>3. f.type = "completed" => good(f)
      BY <2>1, <2>3, <3>1, <3>2, FinalIsPatched DEF good
    <3> QED
      BY <1>6, <1>8, <2>1, <3>1, <3>2, <3>3 DEF CopyInv
  <2>4. CASE open # NoItem \/ (e.type = "added" /\ e.kind = "call")
    <3>1. out' = out /\ held' = Append(held, e)
      <4>1. CASE open = NoItem
        <5>1. held' = <<e>> /\ held = <<>> /\ UNCHANGED out
          BY <1>1, <1>10, <2>4, <4>1 DEF Receive
        <5> QED
          BY <5>1
      <4>2. CASE open # NoItem
        BY <1>10, <4>2 DEF Receive
      <4> QED
        BY <4>1, <4>2
    <3>2. e.type # "completed"
      <4>1. CASE open = NoItem
        BY <2>4, <4>1
      <4>2. CASE open # NoItem
        <5>1. open \in Items /\ open \notin Finished
          BY <1>1, <2>1, <4>2, FinishedStarted DEF OpenInv
        <5> QED
          BY <2>2, <5>1 DEF FinalEvent, ItemEvent
      <4> QED
        BY <4>1, <4>2
    <3>3. /\ \A k \in 1..Len(held) : held'[k] = held[k]
          /\ held'[Len(held) + 1] = e
          /\ \A k \in 1..Len(held') : k \in 1..Len(held) \/ k = Len(held) + 1
      BY <1>4, <2>2, <3>1
    <3>4. free(held')
      BY <1>6, <3>2, <3>3
    <3> QED
      BY <1>6, <1>9, <2>1, <3>1, <3>4 DEF CopyInv
  <2> QED
    BY <2>3, <2>4
<1>11. CASE Yield
  <2>1. queue # <<>> /\ queue' = Tail(queue) /\ UNCHANGED held
    BY <1>11 DEF Yield
  <2>2. /\ \A k \in 1..Len(queue') : k + 1 \in 1..Len(queue) /\ queue'[k] = queue[k + 1]
        /\ 1 \in 1..Len(queue)
    BY <1>4, <2>1
  <2>3. free(queue')
    BY <1>6, <2>2
  <2>4. PICK e : e = Head(queue)
    OBVIOUS
  <2>5. /\ queue[1] = e
        /\ UNCHANGED out \/ \E f \in Event : f.type = e.type /\ out' = Append(out, f)
    BY <1>1, <1>11, <2>4, YieldEvent
  <2>6. e.type # "completed"
    BY <1>6, <2>2, <2>5
  <2>7. CompletedAgrees'
    BY <1>8, <1>9, <2>5, <2>6
  <2> QED
    BY <1>6, <2>1, <2>3, <2>7 DEF CopyInv
<1>12. ASSUME UNCHANGED out, held' \in {held, <<>>}, queue' \in {queue, held, <<>>} PROVE CopyInv'
  <2>1. free(held') /\ free(queue')
    BY <1>6, <1>12
  <2> QED
    BY <1>9, <1>12, <2>1 DEF CopyInv
<1>13. CASE (\E e \in Upcoming : EventError(e)) \/ UpstreamEnds \/ UpstreamError \/ GuardError \/ Judge \/ Build
            \/ EndYields \/ ClientGone \/ UNCHANGED vars
  <2>1. UNCHANGED out /\ held' \in {held, <<>>} /\ queue' \in {queue, held, <<>>}
    BY <1>13 DEF EventError, UpstreamEnds, UpstreamError, GuardError, Fail, Unscreened, Judge, Build,
                 EndYields, ClientGone, vars
  <2> QED
    BY <1>12, <2>1
<1> QED
  BY <1>10, <1>11, <1>13 DEF Next, GuardStep, Over

(* The copy of the items in response.completed says what the stream has    *)
(* delivered, under whatever ids, unless two calls have the same arguments *)
(* and different verdicts.                                                 *)
THEOREM TheCopyAgrees == ~Overlapping /\ Spec => []CompletedAgrees
<1>1. Init => MarkInv /\ CopyInv
  <2> SUFFICES ASSUME Init PROVE MarkInv /\ CopyInv
    OBVIOUS
  <2>1. /\ held = <<>> /\ queue = <<>> /\ out = <<>> /\ marked = {} /\ notes = 0 /\ rows = <<>>
    BY DEF Init
  <2>2. Judged = {}
    BY <2>1 DEF Judged
  <2> QED
    BY <2>1, <2>2 DEF MarkInv, CopyInv, CompletedAgrees, Dealt
<1>2. Judging /\ MarkInv /\ CopyInv /\ [Next]_vars => (MarkInv /\ CopyInv)'
  BY MarkNext, CopyNext
<1>3. CopyInv => CompletedAgrees
  BY DEF CopyInv
<1> QED
  BY <1>1, <1>2, <1>3, JudgingHolds, PTL DEF Spec

(***************************************************************************)
(* What a sequence of events spells of one call.                           *)
(***************************************************************************)

Parts == Pieces \cup {Tool, Echo}
Piece(e, i, t) == IF e.ix = i /\ e.type = t THEN e.call ELSE <<>>

LEMMA PartIs ==
  ASSUME NEW s \in Seq(Event), NEW i, NEW t
  PROVE  /\ View(s, i, t) = FlattenSeq([k \in 1..Len(s) |-> Piece(s[k], i, t)])
         /\ [k \in 1..Len(s) |-> Piece(s[k], i, t)] \in Seq(Seq(Parts))
         /\ View(s, i, t) \in Seq(Parts)
         /\ \A k \in 1..Len(s) : Piece(s[k], i, t) \in Seq(Parts)
<1> DEFINE f == [k \in 1..Len(s) |-> Piece(s[k], i, t)]
           g == [k \in 1..Len(s) |-> IF s[k].ix = i /\ s[k].type \in {t} THEN s[k].call ELSE <<>>]
<1>1. f = g
  <2>1. \A k \in 1..Len(s) : f[k] = g[k]
    BY DEF Piece
  <2> QED
    BY <2>1
<1>2. View(s, i, t) = FlattenSeq(g)
  BY DEF View, Part
<1>3. \A k \in 1..Len(s) : Piece(s[k], i, t) \in Seq(Parts)
  <2>1. \A k \in 1..Len(s) : s[k] \in Event
    OBVIOUS
  <2>2. <<>> \in Seq(Parts)
    OBVIOUS
  <2> QED
    BY <2>1, <2>2 DEF Event, Piece, Parts
<1>4. f \in Seq(Seq(Parts))
  BY <1>3
<1> HIDE DEF f, g
<1>5. FlattenSeq(f) \in Seq(Parts)
  BY <1>4, FlattenTyped
<1>6. View(s, i, t) = FlattenSeq(f) /\ View(s, i, t) \in Seq(Parts)
  BY <1>1, <1>2, <1>5
<1> QED
  BY <1>3, <1>4, <1>6 DEF f

(* r is s with e behind it.                                                *)
Extends(r, s, e) ==
  /\ r \in Seq(Event) /\ s \in Seq(Event) /\ e \in Event
  /\ Len(s) \in Nat /\ Len(r) = Len(s) + 1 /\ r[Len(s) + 1] = e
  /\ \A k \in 1..Len(s) : r[k] = s[k]

LEMMA PartExtends ==
  ASSUME NEW r, NEW s, NEW e, Extends(r, s, e), NEW i, NEW t
  PROVE  /\ View(r, i, t) = View(s, i, t) \o Piece(e, i, t)
         /\ ~(e.ix = i /\ e.type = t) => View(r, i, t) = View(s, i, t)
         /\ View(s, i, t) \in Seq(Parts) /\ Piece(e, i, t) \in Seq(Parts)
<1> DEFINE f(q) == [k \in 1..Len(q) |-> Piece(q[k], i, t)]
<1>1. /\ r \in Seq(Event) /\ s \in Seq(Event) /\ e \in Event
      /\ Len(s) \in Nat /\ Len(r) = Len(s) + 1 /\ r[Len(s) + 1] = e
      /\ \A k \in 1..Len(s) : r[k] = s[k]
  BY DEF Extends
<1>2. /\ View(r, i, t) = FlattenSeq(f(r)) /\ View(s, i, t) = FlattenSeq(f(s))
      /\ f(s) \in Seq(Seq(Parts)) /\ View(s, i, t) \in Seq(Parts)
      /\ Piece(r[Len(s) + 1], i, t) \in Seq(Parts)
  <2>1. /\ View(r, i, t) = FlattenSeq(f(r))
        /\ \A k \in 1..Len(r) : Piece(r[k], i, t) \in Seq(Parts)
    <3>1. r \in Seq(Event)
      BY <1>1
    <3> QED
      BY <3>1, PartIs
  <2>2. /\ View(s, i, t) = FlattenSeq(f(s))
        /\ f(s) \in Seq(Seq(Parts)) /\ View(s, i, t) \in Seq(Parts)
    BY <1>1, PartIs
  <2>3. Len(s) + 1 \in 1..Len(r)
    BY <1>1
  <2> QED
    BY <2>1, <2>2, <2>3
<1>3. f(r) = Append(f(s), Piece(e, i, t))
  <2>1. Len(f(s)) = Len(s) /\ \A k \in 1..Len(s) : f(s)[k] = Piece(s[k], i, t)
    BY <1>1
  <2> QED
    BY <1>1, <2>1
<1> HIDE DEF f
<1>4. FlattenSeq(f(r)) = FlattenSeq(f(s)) \o Piece(e, i, t)
  BY <1>1, <1>2, <1>3, FlattenAppend
<1>5. View(s, i, t) \o <<>> = View(s, i, t)
  BY <1>2
<1>6. ~(e.ix = i /\ e.type = t) => Piece(e, i, t) = <<>>
  BY DEF Piece
<1> QED
  BY <1>2, <1>4, <1>5, <1>6, <1>1

LEMMA PartHead ==
  ASSUME NEW s \in Seq(Event), s # <<>>, NEW i, NEW t
  PROVE  View(s, i, t) = Piece(Head(s), i, t) \o View(Tail(s), i, t)
<1> DEFINE f(q) == [k \in 1..Len(q) |-> Piece(q[k], i, t)]
           p == Piece(Head(s), i, t)
<1>1. /\ Tail(s) \in Seq(Event) /\ Head(s) = s[1] /\ 1 \in 1..Len(s) /\ Len(s) \in Nat
      /\ Len(Tail(s)) = Len(s) - 1 /\ \A k \in 1..Len(Tail(s)) : Tail(s)[k] = s[k + 1]
  OBVIOUS
<1>2. /\ View(s, i, t) = FlattenSeq(f(s)) /\ View(Tail(s), i, t) = FlattenSeq(f(Tail(s)))
      /\ f(Tail(s)) \in Seq(Seq(Parts)) /\ p \in Seq(Parts)
  <2>1. /\ View(s, i, t) = FlattenSeq(f(s))
        /\ \A k \in 1..Len(s) : Piece(s[k], i, t) \in Seq(Parts)
    BY PartIs
  <2>2. View(Tail(s), i, t) = FlattenSeq(f(Tail(s))) /\ f(Tail(s)) \in Seq(Seq(Parts))
    <3>1. Tail(s) \in Seq(Event)
      BY <1>1
    <3> QED
      BY <3>1, PartIs
  <2>3. p \in Seq(Parts)
    BY <1>1, <2>1
  <2> QED
    BY <2>1, <2>2, <2>3
<1>3. f(s) = <<p>> \o f(Tail(s))
  <2>1. /\ Len(f(Tail(s))) = Len(s) - 1
        /\ \A k \in 1..(Len(s) - 1) : f(Tail(s))[k] = Piece(s[k + 1], i, t)
    BY <1>1
  <2>2. f(s)[1] = p
    BY <1>1
  <2> HIDE DEF p
  <2>3. Len(<<p>>) = 1 /\ <<p>>[1] = p
    OBVIOUS
  <2>4. <<p>> \o f(Tail(s)) = [k \in 1..Len(s) |-> IF k = 1 THEN p ELSE f(Tail(s))[k - 1]]
    BY <1>1, <2>1, <2>3
  <2>5. \A k \in 1..Len(s) : f(s)[k] = IF k = 1 THEN p ELSE f(Tail(s))[k - 1]
    BY <1>1, <2>1, <2>2
  <2>6. f(s) = [k \in 1..Len(s) |-> f(s)[k]]
    OBVIOUS
  <2> HIDE DEF f
  <2> QED
    BY <2>4, <2>5, <2>6
<1> HIDE DEF f, p
<1>4. <<p>> \in Seq(Seq(Parts))
  BY <1>2
<1>5. FlattenSeq(<<p>> \o f(Tail(s))) = FlattenSeq(<<p>>) \o FlattenSeq(f(Tail(s)))
  BY <1>2, <1>4, FlattenConcat
<1>6. FlattenSeq(<<p>>) = p
  <2>1. <<>> \in Seq(Seq(Parts)) /\ Append(<<>>, p) = <<p>>
    OBVIOUS
  <2>2. FlattenSeq(Append(<<>>, p)) = FlattenSeq(<<>>) \o p
    BY <1>2, <2>1, FlattenAppend
  <2>3. <<>> \o p = p
    BY <1>2
  <2> QED
    BY <2>1, <2>2, <2>3, FlattenEmpty
<1> QED
  BY <1>2, <1>3, <1>5, <1>6 DEF p

LEMMA PartNone ==
  ASSUME NEW s \in Seq(Event), NEW i, NEW t, \A k \in 1..Len(s) : s[k].ix # i
  PROVE  View(s, i, t) = <<>>
<1> DEFINE f == [k \in 1..Len(s) |-> Piece(s[k], i, t)]
<1>1. View(s, i, t) = FlattenSeq(f)
  BY PartIs
<1>2. Len(f) = Len(s) /\ Len(s) \in Nat /\ \A k \in 1..Len(s) : f[k] = <<>>
  BY DEF Piece
<1>3. f = [k \in 1..Len(f) |-> f[k]]
  OBVIOUS
<1> HIDE DEF f
<1>4. FlattenSeq(f) = <<>>
  BY <1>2, <1>3, FlattenNothing
<1> QED
  BY <1>1, <1>4

(***************************************************************************)
(* What the client reads of each call.                                     *)
(***************************************************************************)

Viewing == Judging /\ ScriptInv /\ OrderInv /\ ViewInv

LEMMA FinalStays ==
  ASSUME NEW i, NEW t, UNCHANGED <<conf, reply>>, Final(i, t),
         View(out', i, t) = View(out, i, t), View(received', i, t) = View(received, i, t),
         Saw(received', i, t) <=> Saw(received, i, t)
  PROVE  Final(i, t)'
<1>1. /\ Evaluate(reply[i].call)' = Evaluate(reply[i].call)
      /\ Rewrites' <=> Rewrites
  BY DEF Evaluate, Rewrites
<1> QED
  BY <1>1 DEF Final

(* An event of another item is nothing to a call.                          *)
LEMMA OthersSay ==
  ASSUME NEW r, NEW s, NEW e, Extends(r, s, e), NEW i, e.ix # i
  PROVE  /\ \A t : View(r, i, t) = View(s, i, t)
         /\ \A t : Saw(r, i, t) <=> Saw(s, i, t)
<1>1. /\ \A k \in 1..Len(s) : r[k] = s[k] /\ k \in 1..Len(r)
      /\ r[Len(s) + 1] = e
      /\ \A k \in 1..Len(r) : k \in 1..Len(s) \/ k = Len(s) + 1
  BY DEF Extends
<1>2. \A t : Saw(r, i, t) <=> Saw(s, i, t)
  BY <1>1 DEF Saw
<1>3. ASSUME NEW t PROVE View(r, i, t) = View(s, i, t)
  <2>1. ~(e.ix = i /\ e.type = t) => View(r, i, t) = View(s, i, t)
    BY PartExtends
  <2> QED
    BY <2>1
<1> QED
  BY <1>2, <1>3

(* A call that was not judged has said nothing to the client.              *)
LEMMA Unheard ==
  ASSUME AInv, ScriptInv, OrderInv, cause = "none", NEW i \in Items, IsCall(i), i \notin Judged
  PROVE  \A t : View(out, i, t) = <<>>
<1>1. ~Opened /\ Inv /\ OutInv /\ out \in Seq(Event)
  BY DEF Opened, AInv, Inv, TypeOK
<1>2. i \notin Passed /\ i \notin Replaced
  BY <1>1 DEF Inv
<1>3. \A k \in 1..Len(out) : out[k].ix = i => out[k].kind = "call"
  BY <1>1 DEF OutInv, OrderInv, ScriptInv, IsCall
<1>4. \A k \in 1..Len(out) : out[k].ix # i
  BY <1>2, <1>3 DEF Passed, Replaced
<1> QED
  BY <1>1, <1>4, PartNone

(* An item that has not begun has sent nothing.                            *)
LEMMA Unsent ==
  ASSUME TypeOK, NEW i \in Items, i \notin Started
  PROVE  \A k \in 1..Len(received) : received[k].ix # i
<1> SUFFICES ASSUME NEW k \in 1..Len(received), received[k].ix = i PROVE FALSE
  OBVIOUS
<1> DEFINE own == {j \in 1..Len(received) : received[j].ix = i}
<1>1. k \in own
  OBVIOUS
<1>2. Len(received) \in Nat /\ i \in Nat
  BY ItemsAre DEF TypeOK
<1>3. IsFiniteSet(own)
  <2>1. IsFiniteSet(1..Len(received)) /\ own \subseteq 1..Len(received)
    BY <1>2, FS_Interval
  <2> HIDE DEF own
  <2> QED
    BY <2>1, FS_Subset
<1>4. Cardinality(own) = Count(received, i)
  BY DEF Count
<1>5. Cardinality(own) = 0
  BY <1>2, <1>4, CountType DEF Started
<1> HIDE DEF own
<1> QED
  BY <1>1, <1>3, <1>5, FS_EmptySet

LEMMA ViewReceive ==
  ASSUME Viewing, NEW e \in Upcoming, Receive(e)
  PROVE  ViewInv'
<1>1. /\ AInv /\ TypeOK /\ OpenInv /\ ReceivedInv /\ (held = <<>> <=> open = NoItem) /\ QueueInv
      /\ ViewInv /\ reply \in Replies
  BY DEF Viewing, Judging, AInv, Inv, TypeOK
<1>2. /\ phase = "collect" /\ received' = Append(received, e)
      /\ UNCHANGED <<conf, reply, queue, cause, rows>>
  BY DEF Receive, upstreamVars
<1>3. /\ Started' = IF e.ix \in Items THEN Started \cup {e.ix} ELSE Started
      /\ NoItem \notin Items /\ Started \subseteq Items /\ e \in Event
  BY <1>1, <1>2, Taken
<1>4. /\ open = NoItem /\ e.kind = "call" => e.type = "added" /\ e.ix \in Items /\ e.ix \notin Started
      /\ open # NoItem /\ e.kind = "call" => e.ix = open
  BY <1>1, <1>2, CallsComeAlone
<1>5. FinalEvent(e) \/ ItemEvent(e)
  BY <1>1, UpcomingEvent
<1>6. received \in Seq(Event) /\ held \in Seq(Event) /\ out \in Seq(Event) /\ cause = "none"
  BY <1>1, <1>2 DEF TypeOK, QueueInv
<1>7. (\A i : IsCall(i)' <=> IsCall(i)) /\ Extends(received', received, e)
  BY <1>2, <1>3, <1>6 DEF IsCall, Extends
<1>8. \A i \in Items : IsCall(i) /\ e.ix = i => e.kind = "call"
  BY <1>3, <1>5 DEF FinalEvent, ItemEvent, IsCall
<1>9. \A i : e.ix # i =>
         \A t : View(received', i, t) = View(received, i, t) /\ (Saw(received', i, t) <=> Saw(received, i, t))
  BY <1>7, OthersSay
<1>10. \A i \in Started : IsCall(i) /\ i # open => \A t \in Views : Final(i, t)
  BY <1>1, <1>2, <1>6 DEF ViewInv
<1>11. ASSUME \A i \in Started : IsCall(i) /\ i # open /\ i # e.ix =>
                \A t : View(out', i, t) = View(out, i, t)
       PROVE  \A i \in Started : IsCall(i) /\ i # open /\ i # e.ix => \A t \in Views : Final(i, t)'
  BY <1>2, <1>9, <1>10, <1>11, FinalStays
<1>12. phase' \in {"collect", "judge"} /\ cause' = "none"
  BY <1>2, <1>6 DEF Receive
<1>13. CASE open = NoItem /\ e.type = "added" /\ e.kind = "call"
  <2>1. open' = e.ix /\ held' = <<e>> /\ UNCHANGED out
    BY <1>13 DEF Receive
  <2>2. e.ix \in Items /\ e.ix \notin Started
    BY <1>4, <1>13
  <2>3. \A k \in 1..Len(received) : received[k].ix # e.ix
    BY <1>1, <2>2, Unsent
  <2>4. Extends(held', <<>>, e) /\ <<>> \in Seq(Event)
    BY <1>3, <2>1 DEF Extends
  <2>5. ASSUME NEW t PROVE View(held', e.ix, t) = View(received', e.ix, t)
    <3>1. View(received, e.ix, t) = <<>> /\ View(<<>>, e.ix, t) = <<>>
      <4>1. \A k \in 1..Len(<<>>) : <<>>[k].ix # e.ix
        OBVIOUS
      <4> QED
        BY <1>6, <2>3, <2>4, <4>1, PartNone
    <3>2. View(held', e.ix, t) = <<>> \o Piece(e, e.ix, t)
      BY <2>4, <3>1, PartExtends
    <3>3. View(received', e.ix, t) = <<>> \o Piece(e, e.ix, t)
      BY <1>7, <3>1, PartExtends
    <3> QED
      BY <3>2, <3>3
  <2>6. \A k \in 1..Len(received') : received'[k].ix = e.ix => \E j \in 1..Len(held') : held'[j] = received'[k]
    <3>1. \A k \in 1..Len(received') : received'[k].ix = e.ix => received'[k] = e
      <4>1. /\ received'[Len(received) + 1] = e
            /\ \A k \in 1..Len(received) : received'[k] = received[k]
            /\ \A k \in 1..Len(received') : k \in 1..Len(received) \/ k = Len(received) + 1
        BY <1>2, <1>3, <1>6
      <4> QED
        BY <2>3, <4>1
    <3>2. held'[1] = e /\ 1 \in 1..Len(held')
      BY <2>1
    <3> QED
      BY <3>1, <3>2
  <2>7. Gathered'
    BY <2>1, <2>5, <2>6 DEF Gathered
  <2>8. \A i \in Started' : IsCall(i)' /\ i # open' => \A t \in Views : Final(i, t)'
    <3>1. \A i \in Started : IsCall(i) /\ i # open /\ i # e.ix => \A t \in Views : Final(i, t)'
      BY <1>11, <2>1
    <3>2. \A i \in Started' : i # e.ix => i \in Started /\ i # open
      BY <1>3, <1>13
    <3> QED
      BY <1>7, <2>1, <3>1, <3>2
  <2> QED
    BY <1>12, <2>7, <2>8 DEF ViewInv
<1>14. CASE open = NoItem /\ ~(e.type = "added" /\ e.kind = "call")
  <2>1. PICK f : /\ f = (IF e.type = "completed" THEN Patched(e) ELSE e)
                 /\ out' = Append(out, f) /\ UNCHANGED <<open, held>>
    BY <1>14 DEF Receive
  <2>2. f \in Event /\ f.ix = e.ix
    BY <1>1, <1>3, <2>1, PatchedIs, PatchedKeeps
  <2>3. \A i : i # e.ix => \A t : View(out', i, t) = View(out, i, t)
    <3>1. Extends(out', out, f)
      BY <1>6, <2>1, <2>2 DEF Extends
    <3>2. ASSUME NEW i, f.ix # i PROVE \A t : View(out', i, t) = View(out, i, t)
      BY <3>1, <3>2, OthersSay
    <3> QED
      BY <2>2, <3>2
  <2>4. \A i \in Started' : IsCall(i)' /\ i # open' => \A t \in Views : Final(i, t)'
    <3>1. \A i \in Started : IsCall(i) /\ i # open /\ i # e.ix => \A t \in Views : Final(i, t)'
      BY <1>11, <2>3
    <3>2. e.kind # "call"
      BY <1>4, <1>14
    <3>3. \A i \in Started' : IsCall(i) => i # e.ix /\ i \in Started /\ i # open
      BY <1>3, <1>8, <1>14, <3>2
    <3> QED
      BY <1>7, <3>1, <3>3
  <2>5. open' = NoItem
    BY <1>14, <2>1
  <2> QED
    BY <1>12, <2>4, <2>5 DEF ViewInv
<1>15. CASE open # NoItem
  <2>1. held' = Append(held, e) /\ UNCHANGED <<open, out>>
    BY <1>15 DEF Receive
  <2>2. Gathered
    BY <1>1, <1>2, <1>6, <1>15 DEF ViewInv
  <2>3. \A t \in Views : View(held', open, t) = View(received', open, t)
    <3>1. \A t : /\ View(held', open, t) = View(held, open, t) \o Piece(e, open, t)
                 /\ View(received', open, t) = View(received, open, t) \o Piece(e, open, t)
      <4>1. Extends(held', held, e)
        BY <1>3, <1>6, <2>1 DEF Extends
      <4>2. ASSUME NEW t PROVE View(held', open, t) = View(held, open, t) \o Piece(e, open, t)
        BY <4>1, PartExtends
      <4>3. ASSUME NEW t PROVE View(received', open, t) = View(received, open, t) \o Piece(e, open, t)
        BY <1>7, PartExtends
      <4> QED
        BY <4>2, <4>3
    <3> QED
      BY <2>2, <3>1 DEF Gathered
  <2>4. \A k \in 1..Len(received') : received'[k].ix = open => \E j \in 1..Len(held') : held'[j] = received'[k]
    <3>1. /\ received'[Len(received) + 1] = e
          /\ \A k \in 1..Len(received) : received'[k] = received[k]
          /\ \A k \in 1..Len(received') : k \in 1..Len(received) \/ k = Len(received) + 1
      BY <1>2, <1>3, <1>6
    <3>2. /\ held'[Len(held) + 1] = e /\ Len(held) + 1 \in 1..Len(held')
          /\ \A k \in 1..Len(held) : held'[k] = held[k] /\ k \in 1..Len(held')
      BY <1>3, <1>6, <2>1
    <3> QED
      BY <2>2, <3>1, <3>2 DEF Gathered
  <2>5. Gathered'
    BY <2>1, <2>3, <2>4 DEF Gathered
  <2>6. \A i \in Started' : IsCall(i)' /\ i # open' => \A t \in Views : Final(i, t)'
    <3>1. \A i \in Started : IsCall(i) /\ i # open /\ i # e.ix => \A t \in Views : Final(i, t)'
      BY <1>11, <2>1
    <3>2. \A i \in Started' : IsCall(i) /\ i # open => i # e.ix /\ i \in Started
      BY <1>3, <1>4, <1>8, <1>15
    <3> QED
      BY <1>7, <2>1, <3>1, <3>2
  <2> QED
    BY <1>12, <2>5, <2>6 DEF ViewInv
<1> QED
  BY <1>13, <1>14, <1>15

(* Steps that neither take nor yield an event leave what the client reads. *)
LEMMA FinalsStay ==
  ASSUME UNCHANGED <<conf, reply, received, out>>
  PROVE  /\ Started' = Started /\ \A i : IsCall(i)' <=> IsCall(i)
         /\ \A i, t : Final(i, t)' <=> Final(i, t)
<1>1. Started' = Started /\ \A i : IsCall(i)' <=> IsCall(i)
  BY DEF Started, Items, IsCall, Count
<1>2. ASSUME NEW i, NEW t PROVE Final(i, t)' <=> Final(i, t)
  <2>1. /\ Evaluate(reply[i].call)' = Evaluate(reply[i].call)
        /\ Rewrites' <=> Rewrites
    BY DEF Evaluate, Rewrites
  <2> QED
    BY <2>1 DEF Final
<1> QED
  BY <1>1, <1>2

LEMMA ViewJudge ==
  ASSUME Viewing, Judge
  PROVE  ViewInv'
<1>1. /\ phase = "judge" /\ phase' = "build"
      /\ UNCHANGED <<conf, reply, open, held, cause, received, out>>
  BY DEF Judge, upstreamVars
<1>2. AInv /\ OpenInv /\ JudgedInv /\ TypeOK
  BY DEF Viewing, Judging, AInv, Inv
<1>3. open \in Items /\ IsCall(open) /\ open \notin Judged
  BY <1>1, <1>2 DEF OpenInv, JudgedInv, TypeOK
<1>4. cause = "none" => \A t : View(out, open, t) = <<>>
  BY <1>2, <1>3, Unheard DEF Viewing
<1>5. Gathered' <=> Gathered
  BY <1>1 DEF Gathered
<1>6. Started' = Started /\ (\A i : IsCall(i)' <=> IsCall(i)) /\ \A i, t : Final(i, t)' <=> Final(i, t)
  BY <1>1, FinalsStay
<1> QED
  BY <1>1, <1>3, <1>4, <1>5, <1>6 DEF Viewing, ViewInv

LEMMA ViewBuild ==
  ASSUME Viewing, Build
  PROVE  ViewInv'
<1>1. /\ phase = "build" /\ phase' \in {"release", "flush"}
      /\ UNCHANGED <<conf, reply, open, held, cause, received, out, rows>>
  BY DEF Build, upstreamVars
<1>2. CASE cause = "none"
  <2>1. queue' = held /\ phase' = "release"
    BY <1>1, <1>2 DEF Build
  <2>2. held \in Seq(Event) /\ Len(held) \in Nat
    BY DEF Viewing, Judging, AInv, Inv, TypeOK
  <2>3. Gathered /\ \A t \in Views : View(out, open, t) = <<>>
    BY <1>1, <1>2 DEF Viewing, ViewInv, Judging, AInv, OpenInv
  <2>4. Gathered' <=> Gathered
    BY <1>1 DEF Gathered
  <2>5. Yielded' = 0
    BY <1>1, <2>1, <2>2 DEF Yielded
  <2>6. ASSUME NEW t \in Views PROVE InRelease(t)'
    <3>1. View(held, open, t) \in Seq(Parts)
      BY <2>2, PartIs
    <3>2. <<>> \o View(held, open, t) = View(held, open, t)
      BY <3>1
    <3>3. View(out', open', t) = <<>> /\ View(queue', open', t) = View(held', open', t)
      BY <1>1, <2>1, <2>3
    <3>4. 1..Yielded' = {}
      BY <2>5
    <3>5. View(out', open', t) \o View(queue', open', t) = View(held', open', t)
      BY <1>1, <3>2, <3>3
    <3> QED
      BY <3>3, <3>4, <3>5 DEF InRelease
  <2>7. Started' = Started /\ (\A i : IsCall(i)' <=> IsCall(i)) /\ \A i, t : Final(i, t)' <=> Final(i, t)
    BY <1>1, FinalsStay
  <2>8. \A k \in 1..Len(queue') : queue'[k] = held'[Yielded' + k]
    BY <1>1, <2>1, <2>2, <2>5
  <2>9. \A i \in Started' : IsCall(i)' /\ i # open' => \A t \in Views : Final(i, t)'
    BY <1>1, <1>2, <2>7 DEF Viewing, ViewInv
  <2> QED
    BY <2>1, <2>3, <2>4, <2>5, <2>6, <2>8, <2>9 DEF ViewInv
<1>3. CASE cause # "none"
  <2>1. phase' = "flush"
    BY <1>1, <1>3 DEF Build
  <2> QED
    BY <1>1, <1>3, <2>1 DEF ViewInv
<1> QED
  BY <1>2, <1>3

LEMMA ViewEnd ==
  ASSUME Viewing, EndYields
  PROVE  ViewInv'
<1>1. /\ phase \in {"release", "flush"} /\ queue = <<>> /\ open' = NoItem
      /\ phase' = IF phase = "release" THEN "collect" ELSE "done"
      /\ UNCHANGED <<conf, reply, cause, received, out, rows>>
  BY DEF EndYields, upstreamVars
<1>2. Started' = Started /\ (\A i : IsCall(i)' <=> IsCall(i)) /\ \A i, t : Final(i, t)' <=> Final(i, t)
  BY <1>1, FinalsStay
<1>3. /\ AInv /\ OpenInv /\ JudgedInv /\ TypeOK /\ QueueInv /\ CallInv /\ reply \in Replies
  BY DEF Viewing, Judging, AInv, Inv, TypeOK
<1>4. ASSUME cause = "none", NEW i \in Started, IsCall(i), i # open, NEW t \in Views PROVE Final(i, t)
  BY <1>1, <1>4 DEF Viewing, ViewInv
<1>5. CASE phase = "release"
  <2>1. /\ Gathered /\ \A t \in Views : InRelease(t)
        /\ open \in Started /\ IsCall(open) /\ cause = "none" /\ open \in Judged
    BY <1>3, <1>5 DEF Viewing, ViewInv, QueueInv, OpenInv, JudgedInv
  <2>2. Blocked <=> Evaluate(reply[open].call) = "block"
    <3>1. open \in Finished
      BY <1>3, <1>5, <2>1 DEF OpenInv
    <3>2. calls[open] = reply[open].call
      BY <1>3, <2>1, <3>1 DEF CallInv
    <3> QED
      BY <1>3, <1>5, <3>2 DEF JudgedInv
  <2>3. held \in Seq(Event) /\ out \in Seq(Event) /\ Yielded = Len(held)
    <3>1. held \in Seq(Event) /\ Len(held) \in Nat /\ Len(queue) = 0 /\ out \in Seq(Event)
      BY <1>1, <1>3 DEF TypeOK
    <3> QED
      BY <3>1 DEF Yielded
  <2>4. ASSUME NEW t \in Views PROVE Final(open, t)
    <3>1. CASE ~Blocked
      <4>1. View(out, open, t) \o View(queue, open, t) = View(received, open, t)
        BY <2>1, <3>1 DEF InRelease, Gathered
      <4>2. View(queue, open, t) = <<>>
        <5>1. queue \in Seq(Event) /\ \A k \in 1..Len(queue) : queue[k].ix # open
          BY <1>1
        <5> QED
          BY <5>1, PartNone
      <4>3. View(out, open, t) \in Seq(Parts)
        BY <2>3, PartIs
      <4>4. View(out, open, t) \o <<>> = View(out, open, t)
        BY <4>3
      <4> QED
        BY <2>2, <3>1, <4>1, <4>2, <4>4 DEF Final
    <3>2. CASE Blocked
      <4>1. Saw(received, open, t) <=> \E k \in 1..Yielded : (held[k].ix = open /\ held[k].type = t)
        <5>1. ASSUME NEW k \in 1..Len(held), held[k].ix = open, held[k].type = t
              PROVE  Saw(received, open, t)
          <6>1. held[k].n \in 1..Len(received) /\ received[held[k].n] = held[k]
            BY <1>3 DEF QueueInv, Holds, FromUpstream
          <6> QED
            BY <5>1, <6>1 DEF Saw
        <5>2. ASSUME NEW k \in 1..Len(received), received[k].ix = open, received[k].type = t
              PROVE  \E j \in 1..Len(held) : held[j].ix = open /\ held[j].type = t
          BY <2>1, <5>2 DEF Gathered
        <5> QED
          BY <2>3, <5>1, <5>2 DEF Saw
      <4> QED
        BY <2>1, <2>2, <3>2, <4>1 DEF Final, InRelease
    <3> QED
      BY <3>1, <3>2
  <2>5. \A i \in Started' : IsCall(i)' => \A t \in Views : Final(i, t)'
    BY <1>2, <1>4, <2>1, <2>4
  <2> QED
    BY <1>1, <1>5, <2>5 DEF ViewInv
<1>6. CASE phase = "flush"
  <2>1. cause = "none" => open = NoItem
    BY <1>6 DEF Viewing, ViewInv
  <2>2. \A i \in Started : i # NoItem
    BY <1>3, FinishedStarted, ItemsAre
  <2>3. cause' = "none" => \A i \in Started' : IsCall(i)' => \A t \in Views : Final(i, t)'
    BY <1>1, <1>2, <1>4, <2>1, <2>2
  <2> QED
    BY <1>1, <1>6, <2>3 DEF ViewInv
<1> QED
  BY <1>1, <1>5, <1>6

(* Releasing one more event of the open call.                              *)
LEMMA ReleaseOne ==
  ASSUME Viewing, Yield, phase = "release", NEW t \in Views
  PROVE  InRelease(t)'
<1>1. /\ queue # <<>> /\ queue' = Tail(queue)
      /\ UNCHANGED <<conf, reply, open, held, received, rows>>
  BY DEF Yield, upstreamVars, blockVars
<1>2. AInv /\ OrderInv /\ ScriptInv /\ QueueInv /\ OpenInv /\ TypeOK /\ Rising(held) /\ InRelease(t)
  BY DEF Viewing, Judging, AInv, Inv, OrderInv, ViewInv
<1>3. /\ queue \in Seq(Event) /\ out \in Seq(Event) /\ held \in Seq(Event) /\ open \in Items
  BY <1>2 DEF TypeOK, OpenInv
<1> DEFINE n == Yielded
<1>4. /\ n \in Nat /\ n + 1 \in 1..Len(held) /\ Yielded' = n + 1
      /\ \A k \in 1..Len(queue) : queue[k] = held[n + k]
  <2>1. /\ Yielded \in Nat /\ \A k \in 1..Len(queue) : queue[k] = held[Yielded + k]
    BY DEF Viewing, ViewInv
  <2>2. Len(queue) \in Nat /\ Len(queue) > 0 /\ Len(queue') = Len(queue) - 1 /\ Len(held) \in Nat
    BY <1>1, <1>3
  <2> QED
    BY <1>1, <2>1, <2>2 DEF Yielded
<1>5. PICK e : e = Head(queue)
  OBVIOUS
<1>6. /\ e \in Event /\ queue[1] = e /\ e.n \in 1..Len(received) /\ received[e.n] = e
      /\ \/ /\ ~Blocked \/ ~Own(e, Types)
            /\ out' = Append(out, e)
         \/ /\ Blocked /\ Own(e, Types)
            /\ ~Rewrites \/ (e.type = "delta" /\ \E h \in ToSet(held) : Own(h, {"delta"}) /\ h.n < e.n)
            /\ UNCHANGED out
         \/ /\ Blocked /\ Own(e, Types) /\ Rewrites
            /\ ~(e.type = "delta" /\ \E h \in ToSet(held) : Own(h, {"delta"}) /\ h.n < e.n)
            /\ \E f \in Event : /\ f.ix = e.ix /\ f.type = e.type /\ f.call = Shown(e.type)
                                /\ out' = Append(out, f)
  BY <1>2, <1>5, YieldEvent
<1>7. held[n + 1] = e
  <2>1. 1 \in 1..Len(queue)
    BY <1>1, <1>3
  <2> QED
    BY <1>4, <1>6, <2>1
<1>8. (Blocked' <=> Blocked) /\ (Rewrites' <=> Rewrites)
  BY <1>1 DEF Blocked, Rewrites
<1> DEFINE saw(m) == \E k \in 1..m : (held[k].ix = open /\ held[k].type = t)
<1>9. saw(n + 1) <=> saw(n) \/ (e.ix = open /\ e.type = t)
  <2>1. \A k \in 1..(n + 1) : k \in 1..n \/ k = n + 1
    BY <1>4
  <2>2. \A k \in 1..n : k \in 1..(n + 1)
    BY <1>4
  <2>3. n + 1 \in 1..(n + 1)
    BY <1>4
  <2> QED
    BY <1>7, <2>1, <2>2, <2>3
<1>10. \A k \in 1..n : k \in 1..Len(held) /\ held[k].n < e.n
  <2>1. \A k \in 1..n : k \in 1..Len(held) /\ k < n + 1
    BY <1>3, <1>4
  <2> QED
    BY <1>2, <1>4, <1>7, <2>1 DEF Rising
<1> HIDE DEF n, saw
<1>11. CASE ~Blocked
  <2>1. out' = Append(out, e)
    BY <1>6, <1>11
  <2>2. Extends(out', out, e)
    BY <1>3, <1>6, <2>1 DEF Extends
  <2>3. /\ View(out', open, t) = View(out, open, t) \o Piece(e, open, t)
        /\ View(out, open, t) \in Seq(Parts) /\ Piece(e, open, t) \in Seq(Parts)
    BY <2>2, PartExtends
  <2>4. View(queue, open, t) = Piece(e, open, t) \o View(queue', open, t)
    BY <1>1, <1>3, <1>5, PartHead
  <2>5. View(queue', open, t) \in Seq(Parts)
    <3>1. queue' \in Seq(Event)
      BY <1>1, <1>3
    <3> QED
      BY <3>1, PartIs
  <2>6. View(out, open, t) \o View(queue, open, t) = View(held, open, t)
    BY <1>2, <1>11 DEF InRelease
  <2>7. (View(out, open, t) \o Piece(e, open, t)) \o View(queue', open, t)
          = View(out, open, t) \o (Piece(e, open, t) \o View(queue', open, t))
    BY <2>3, <2>5, ConcatAssociative
  <2>8. View(out', open, t) \o View(queue', open, t) = View(held, open, t)
    BY <2>3, <2>4, <2>6, <2>7
  <2> QED
    BY <1>1, <1>8, <1>11, <2>8 DEF InRelease
<1>12. CASE Blocked
  <2>1. View(out, open, t) = IF Rewrites /\ saw(n) THEN Shown(t) ELSE <<>>
    BY <1>2, <1>12 DEF InRelease, saw, n
  <2>2. ASSUME View(out', open, t) = IF Rewrites /\ saw(n + 1) THEN Shown(t) ELSE <<>>
        PROVE  InRelease(t)'
    BY <1>1, <1>4, <1>8, <1>12, <2>2 DEF InRelease, saw
  <2>3. CASE ~Own(e, Types)
    <3>1. e.ix # open
      BY <1>6, <2>3 DEF Own, Event
    <3>2. out' = Append(out, e)
      BY <1>6, <2>3
    <3>3. Extends(out', out, e)
      BY <1>3, <1>6, <3>2 DEF Extends
    <3>4. View(out', open, t) = View(out, open, t)
      BY <3>1, <3>3, OthersSay
    <3> QED
      BY <1>9, <2>1, <2>2, <3>1, <3>4
  <2>4. CASE Own(e, Types) /\ (~Rewrites \/ (e.type = "delta" /\ \E h \in ToSet(held) : Own(h, {"delta"}) /\ h.n < e.n))
    <3>1. UNCHANGED out
      BY <1>6, <1>12, <2>4
    <3>2. Rewrites /\ e.ix = open /\ e.type = t => saw(n)
      <4> SUFFICES ASSUME Rewrites, e.ix = open, e.type = t PROVE saw(n)
        OBVIOUS
      <4>1. PICK j \in 1..Len(held) : held[j].ix = open /\ held[j].type = "delta" /\ held[j].n < e.n
        <5>1. PICK h \in ToSet(held) : Own(h, {"delta"}) /\ h.n < e.n
          BY <2>4
        <5>2. PICK j \in 1..Len(held) : held[j] = h
          BY <1>3, <5>1 DEF ToSet
        <5> QED
          BY <5>1, <5>2 DEF Own
      <4>2. e.type = "delta"
        BY <2>4
      <4>3. j \in 1..n
        <5>1. ~(n + 1 < j)
          <6> SUFFICES ASSUME n + 1 < j PROVE FALSE
            OBVIOUS
          <6>1. e.n < held[j].n
            BY <1>2, <1>4, <1>7 DEF Rising
          <6>2. e.n \in 1..Len(received) /\ held[j].n \in 1..Len(received)
            BY <1>2, <1>6 DEF QueueInv, Holds, FromUpstream
          <6> QED
            BY <4>1, <6>1, <6>2
        <5>2. j # n + 1
          <6>1. e.n \in Nat
            BY <1>6 DEF Event
          <6> QED
            BY <1>7, <4>1, <6>1
        <5> QED
          BY <1>4, <5>1, <5>2 DEF n
      <4> QED
        BY <4>1, <4>2, <4>3 DEF saw
    <3>3. View(out', open, t) = View(out, open, t)
      BY <3>1
    <3> QED
      BY <1>9, <2>1, <2>2, <3>2, <3>3
  <2>5. CASE Own(e, Types) /\ Rewrites /\ ~(e.type = "delta" /\ \E h \in ToSet(held) : Own(h, {"delta"}) /\ h.n < e.n)
    <3>1. PICK f \in Event : f.ix = open /\ f.type = e.type /\ f.call = Shown(e.type) /\ out' = Append(out, f)
      BY <1>6, <1>12, <2>5 DEF Own
    <3>2. Extends(out', out, f)
      BY <1>3, <3>1 DEF Extends
    <3>3. CASE e.type # t
      <4>1. View(out', open, t) = View(out, open, t)
        BY <3>1, <3>2, <3>3, PartExtends
      <4> QED
        BY <1>9, <2>1, <2>2, <3>3, <4>1
    <3>4. CASE e.type = t
      <4>1. ~saw(n)
        <5> SUFFICES ASSUME NEW k \in 1..n, held[k].ix = open, held[k].type = t PROVE FALSE
          BY DEF saw
        <5>1. k \in 1..Len(held) /\ held[k].n < e.n
          BY <1>10
        <5>2. held[k].n \in 1..Len(received) /\ received[held[k].n] = held[k]
          BY <1>2, <5>1 DEF QueueInv, Holds, FromUpstream
        <5>3. t # "delta"
          <6>1. held[k] \in ToSet(held)
            BY <1>3, <5>1 DEF ToSet
          <6> QED
            BY <2>5, <3>4, <5>1, <6>1 DEF Own
        <5>4. e.ix = open
          BY <2>5 DEF Own
        <5>5. held[k].n = e.n
          BY <1>2, <1>3, <1>6, <3>4, <5>2, <5>3, <5>4 DEF ScriptInv
        <5>6. e.n \in Nat
          BY <1>6 DEF Event
        <5> QED
          BY <5>1, <5>5, <5>6
      <4>2. View(out, open, t) = <<>>
        BY <2>1, <4>1
      <4>3. Piece(f, open, t) = Shown(t)
        BY <3>1, <3>4 DEF Piece
      <4>4. /\ View(out', open, t) = View(out, open, t) \o Piece(f, open, t)
            /\ Piece(f, open, t) \in Seq(Parts)
        BY <3>2, PartExtends
      <4>5. <<>> \o Piece(f, open, t) = Piece(f, open, t)
        BY <4>4
      <4>6. View(out', open, t) = Shown(t)
        BY <4>2, <4>3, <4>4, <4>5
      <4>7. saw(n + 1)
        BY <1>9, <2>5, <3>4 DEF Own
      <4> QED
        BY <2>2, <2>5, <4>6, <4>7
    <3> QED
      BY <3>3, <3>4
  <2> QED
    BY <2>3, <2>4, <2>5
<1> QED
  BY <1>11, <1>12

LEMMA ViewYield ==
  ASSUME Viewing, Yield
  PROVE  ViewInv'
<1>1. /\ queue # <<>> /\ queue' = Tail(queue) /\ phase \in {"release", "flush"}
      /\ UNCHANGED <<conf, reply, phase, open, held, cause, received, rows>>
  BY DEF Yield, upstreamVars, blockVars
<1>2. AInv /\ OrderInv /\ ScriptInv /\ QueueInv /\ OpenInv /\ TypeOK /\ ViewInv
  BY DEF Viewing, Judging, AInv, Inv
<1>3. CASE phase = "flush"
  <2>1. cause # "none"
    BY <1>1, <1>2, <1>3 DEF ViewInv, QueueInv
  <2> QED
    BY <1>1, <1>3, <2>1 DEF ViewInv
<1>4. CASE phase = "release"
  <2>1. Gathered' <=> Gathered
    BY <1>1 DEF Gathered
  <2>2. queue \in Seq(Event) /\ out \in Seq(Event) /\ held \in Seq(Event)
    BY <1>2 DEF TypeOK
  <2>3. Yielded' \in Nat /\ \A k \in 1..Len(queue') : queue'[k] = held'[Yielded' + k]
    <3>1. Yielded \in Nat /\ \A k \in 1..Len(queue) : queue[k] = held[Yielded + k]
      BY <1>2, <1>4 DEF ViewInv
    <3>2. /\ Len(queue) \in Nat /\ Len(held) \in Nat /\ Len(queue') = Len(queue) - 1
          /\ \A k \in 1..Len(queue') : k + 1 \in 1..Len(queue) /\ queue'[k] = queue[k + 1]
      BY <1>1, <2>2
    <3>3. Yielded' = Yielded + 1
      BY <1>1, <3>2 DEF Yielded
    <3>4. \A k \in 1..Len(queue') : Yielded + (k + 1) = (Yielded + 1) + k
      BY <3>1, <3>2
    <3> QED
      BY <1>1, <3>1, <3>2, <3>3, <3>4
  <2>4. \A t \in Views : InRelease(t)'
    BY <1>4, ReleaseOne
  <2>5. /\ (\A i : IsCall(i)' <=> IsCall(i)) /\ Started' = Started
    BY <1>1 DEF IsCall, Started, Items, Count
  <2>6. ASSUME NEW i \in Started, IsCall(i), i # open PROVE \A t : View(out', i, t) = View(out, i, t)
    <3>1. PICK e : e = Head(queue)
      OBVIOUS
    <3>2. /\ e \in Event /\ e.n \in 1..Len(received) /\ received[e.n] = e
          /\ e.kind = "call" => e.ix = open
          /\ UNCHANGED out \/ \E f \in Event : f.ix = e.ix /\ out' = Append(out, f)
      BY <1>2, <3>1, YieldEvent
    <3>3. e.ix # i
      <4>1. i \in Items
        BY <1>2, FinishedStarted
      <4>2. e.ix = i => e.kind = reply[i].kind
        BY <1>2, <3>2, <4>1 DEF ScriptInv
      <4> QED
        BY <2>6, <3>2, <4>2 DEF IsCall
    <3>4. ASSUME NEW f \in Event, f.ix = e.ix, out' = Append(out, f)
          PROVE  \A t : View(out', i, t) = View(out, i, t)
      <4>1. Extends(out', out, f) /\ f.ix # i
        BY <2>2, <3>3, <3>4 DEF Extends
      <4> QED
        BY <4>1, OthersSay
    <3> QED
      BY <3>2, <3>4
  <2>7. cause = "none" =>
          \A i \in Started : IsCall(i) /\ i # open => \A t \in Views : Final(i, t)'
    <3> SUFFICES ASSUME cause = "none", NEW i \in Started, IsCall(i), i # open, NEW t \in Views
                 PROVE  Final(i, t)'
      OBVIOUS
    <3>1. Final(i, t)
      BY <1>2, <1>4 DEF ViewInv
    <3>2. View(out', i, t) = View(out, i, t)
      BY <2>6
    <3>3. View(received', i, t) = View(received, i, t) /\ (Saw(received', i, t) <=> Saw(received, i, t))
      BY <1>1
    <3> QED
      BY <1>1, <3>1, <3>2, <3>3, FinalStays
  <2>8. Gathered
    BY <1>2, <1>4 DEF ViewInv
  <2> QED
    BY <1>1, <1>4, <2>1, <2>3, <2>4, <2>5, <2>7, <2>8 DEF ViewInv
<1> QED
  BY <1>1, <1>3, <1>4

LEMMA ViewNext ==
  ASSUME Viewing, [Next]_vars
  PROVE  ViewInv'
<1>1. CASE UpstreamEnds
  <2>1. /\ phase = "collect" /\ UNCHANGED <<conf, reply, open, held, received, out>>
        /\ cause' = (IF open = NoItem THEN "none" ELSE "cut")
        /\ phase' = (IF open = NoItem THEN "flush" ELSE "judge")
    BY <1>1 DEF UpstreamEnds, upstreamVars
  <2>2. cause = "none" /\ ViewInv
    BY <2>1 DEF Viewing, Judging, AInv, QueueInv
  <2>3. Started' = Started /\ (\A i : IsCall(i)' <=> IsCall(i)) /\ \A i, t : Final(i, t)' <=> Final(i, t)
    BY <2>1, FinalsStay
  <2>4. \A i \in Started : IsCall(i) /\ i # open => \A t \in Views : Final(i, t)
    BY <2>1, <2>2 DEF ViewInv
  <2> QED
    BY <2>1, <2>3, <2>4 DEF ViewInv
<1>2. CASE UpstreamError \/ GuardError \/ \E e \in Upcoming : EventError(e)
  <2>1. cause' # "none" /\ phase' \in {"flush", "raised"}
    BY <1>2 DEF UpstreamError, GuardError, EventError, Fail
  <2> QED
    BY <2>1 DEF ViewInv
<1>3. CASE ClientGone
  <2>1. phase' = "gone"
    BY <1>3 DEF ClientGone
  <2> QED
    BY <2>1 DEF ViewInv
<1>4. CASE UNCHANGED vars
  <2>1. UNCHANGED <<conf, reply, phase, open, held, queue, cause, received, out, rows>>
    BY <1>4 DEF vars, upstreamVars
  <2>2. Started' = Started /\ (\A i : IsCall(i)' <=> IsCall(i)) /\ \A i, t : Final(i, t)' <=> Final(i, t)
    BY <2>1, FinalsStay
  <2>3. /\ Gathered' <=> Gathered
        /\ Yielded' = Yielded
        /\ \A t : InRelease(t)' <=> InRelease(t)
    BY <2>1 DEF Gathered, Yielded, InRelease, Blocked, Rewrites
  <2>4. ViewInv
    BY DEF Viewing
  <2> QED
    BY <2>1, <2>2, <2>3, <2>4 DEF ViewInv
<1> QED
  BY <1>1, <1>2, <1>3, <1>4, ViewReceive, ViewJudge, ViewBuild, ViewYield, ViewEnd DEF Next, GuardStep, Over

(* When the reply went through, the client reads one and the same call in  *)
(* the deltas, the args_done and the done event of each item: the original *)
(* one, the replacement, or nothing of it.                                 *)
THEOREM ClientReadsOneCall == ~Overlapping /\ Spec => []ClientViewsAgree
<1>1. Init => ScriptInv /\ OrderInv /\ ViewInv
  <2>1. Init => ViewInv
    <3> SUFFICES ASSUME Init PROVE ViewInv
      OBVIOUS
    <3>1. phase = "collect" /\ open = NoItem /\ received = <<>>
      BY DEF Init
    <3>2. Started = {}
      BY <3>1, EmptyCount DEF Started
    <3> QED
      BY <3>1, <3>2 DEF ViewInv
  <2> QED
    BY <2>1, ScriptInit, OrderInit
<1>2. Judging /\ (ScriptInv /\ OrderInv /\ ViewInv) /\ [Next]_vars => (ScriptInv /\ OrderInv /\ ViewInv)'
  <2> SUFFICES ASSUME Judging, ScriptInv, OrderInv, ViewInv, [Next]_vars
               PROVE  ScriptInv' /\ OrderInv' /\ ViewInv'
    OBVIOUS
  <2>1. AInv /\ Viewing
    BY DEF Viewing, Judging
  <2> QED
    BY <2>1, ScriptNext, OrderStep, ViewNext
<1>3. Judging /\ ViewInv => ClientViewsAgree
  <2> SUFFICES ASSUME Judging, ViewInv, Delivered, NEW i \in Started, IsCall(i)
               PROVE  LET blocked == Evaluate(reply[i].call) = "block"
                          Shows(types, new) ==
                            Part(out, i, types) = IF ~blocked THEN Part(received, i, types)
                                                  ELSE IF Rewrites /\ Sent(i, types) THEN new
                                                  ELSE <<>>
                      IN  /\ Shows({"added"}, <<Tool>>)
                          /\ Shows({"delta"}, <<Echo>>)
                          /\ Shows({"args_done"}, <<Echo>>)
                          /\ Shows({"done"}, <<Tool, Echo>>)
    BY DEF ClientViewsAgree
  <2>1. phase = "done" /\ cause = "none" /\ open = NoItem
    BY DEF Delivered, ViewInv
  <2>2. i # NoItem
    BY FinishedStarted, ItemsAre DEF Judging, AInv, Inv, TypeOK
  <2>3. \A t \in Views : Final(i, t)
    BY <2>1, <2>2 DEF ViewInv
  <2>4. ASSUME NEW t \in Views
        PROVE  Part(out, i, {t}) = IF Evaluate(reply[i].call) # "block" THEN Part(received, i, {t})
                                   ELSE IF Rewrites /\ Sent(i, {t}) THEN Shown(t) ELSE <<>>
    <3>1. Sent(i, {t}) <=> Saw(received, i, t)
      BY DEF Sent, Saw
    <3>2. Final(i, t)
      BY <2>3
    <3> QED
      BY <3>1, <3>2 DEF Final, View
  <2>5. /\ Shown("added") = <<Tool>> /\ Shown("delta") = <<Echo>>
        /\ Shown("args_done") = <<Echo>> /\ Shown("done") = <<Tool, Echo>>
    BY DEF Shown
  <2>6. "added" \in Views /\ "delta" \in Views /\ "args_done" \in Views /\ "done" \in Views
    BY DEF Views
  <2> QED
    BY <2>4, <2>5, <2>6
<1> QED
  BY <1>1, <1>2, <1>3, JudgingHolds, PTL DEF Spec
=============================================================================
