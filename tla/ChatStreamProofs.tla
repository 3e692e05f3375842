-------------------------- MODULE ChatStreamProofs --------------------------
(***************************************************************************)
(* Theorems about ChatStream, for every value of its constants.            *)
(***************************************************************************)
EXTENDS ChatStream, SequenceLemmas, FiniteSetTheorems

(* A partial function is a function on some of the indices.                *)
LEMMA PartialIs ==
  ASSUME NEW I, NEW T
  PROVE  /\ \A f \in Partial(I, T) :
              DOMAIN f \subseteq I /\ f \in [DOMAIN f -> T]
         /\ \A S \in SUBSET I : \A f \in [S -> T] : f \in Partial(I, T)
BY DEF Partial

(* The empty one, and what is left of one when indices are taken out.      *)
LEMMA NoDeltasPartial ==
  ASSUME NEW I, NEW T
  PROVE  NoDeltas \in Partial(I, T)
<1>1. NoDeltas \in [{} -> T]
  BY DEF NoDeltas
<1> QED
  BY <1>1, PartialIs

(* A sequence with one more element.                                       *)
LEMMA AppendIs ==
  ASSUME NEW S, NEW q \in Seq(S), NEW e \in S
  PROVE  /\ Append(q, e) \in Seq(S)
         /\ Append(q, e) # <<>>
         /\ Append(q, e)[Len(Append(q, e))] = e
         /\ \A k \in 1..Len(Append(q, e)) :
              (k \in 1..Len(q) /\ Append(q, e)[k] = q[k]) \/ Append(q, e)[k] = e
OBVIOUS

(* What the guard makes of a chunk is a chunk.                             *)
LEMMA MadeChunks ==
  ASSUME NEW c \in Chunk
  PROVE  /\ Keepalive(c) \in Chunk
         /\ Note(c) \in Chunk
         /\ EndTurn(c) \in Chunk
         /\ DOMAIN Keepalive(c).tcs = {}
         /\ DOMAIN Note(c).tcs = {}
         /\ EndTurn(c).tcs = c.tcs
<1>1. NoDeltas \in Partial(Indices, Sent) /\ DOMAIN NoDeltas = {}
  BY NoDeltasPartial DEF NoDeltas
<1> QED
  BY <1>1 DEF Chunk, Keepalive, Note, EndTurn, Reasons

(* What arrives is a chunk that holds no replacement.                      *)
LEMMA ArrivedChunk ==
  ASSUME TypeOK, NEW s \in Shapes
  PROVE  /\ Arrived(s) \in Chunk
         /\ \A i \in DOMAIN Arrived(s).tcs :
              i \in Indices /\ Arrived(s).tcs[i] \in Delta
<1>1. s \in Shape
  BY ShapesAssumption
<1>2. s.tcs \in [DOMAIN s.tcs -> Delta] /\ DOMAIN s.tcs \subseteq Indices
  BY <1>1, PartialIs DEF Shape
<1>3. s.tcs \in [DOMAIN s.tcs -> Sent]
  BY <1>2 DEF Delta, Sent
<1>4. s.tcs \in Partial(Indices, Sent)
  BY <1>2, <1>3, PartialIs
<1>5. Len(received) + 1 \in Nat
  BY DEF TypeOK
<1>6. Arrived(s) \in Chunk
  BY <1>1, <1>4, <1>5 DEF Arrived, Chunk, Shape
<1> QED
  BY <1>2, <1>6 DEF Arrived

(* The slots stay slots when a chunk is assembled.                         *)
LEMMA AccumulateSlots ==
  ASSUME TypeOK, NEW s \in Shapes
  PROVE  LET c == Arrived(s) IN
         /\ DOMAIN Accumulate(c) = DOMAIN calls \cup DOMAIN c.tcs
         /\ Accumulate(c) \in [DOMAIN Accumulate(c) -> Slot]
         /\ DOMAIN Accumulate(c) \subseteq Indices
<1> DEFINE c == Arrived(s)
<1>1. \A i \in DOMAIN c.tcs : i \in Indices /\ c.tcs[i] \in Delta
  BY ArrivedChunk
<1>2. \A i \in DOMAIN c.tcs : Fragment(c.tcs[i]) \in Seq(Pieces)
  BY <1>1 DEF Fragment, Delta
<1>3. \A i : SlotOf(i) \in Slot
  BY DEF SlotOf, Slot, TypeOK
<1>4. \A i \in DOMAIN c.tcs : SlotOf(i).args \o Fragment(c.tcs[i]) \in Seq(Pieces)
  BY <1>2, <1>3 DEF Slot
<1>5. \A i \in DOMAIN c.tcs : (SlotOf(i).id \/ c.tcs[i].id) \in BOOLEAN
  OBVIOUS
<1>6. DOMAIN Accumulate(c) = DOMAIN calls \cup DOMAIN c.tcs
  BY DEF Accumulate
<1>7. \A i \in DOMAIN Accumulate(c) : Accumulate(c)[i] \in Slot
  BY <1>4, <1>5 DEF Accumulate, Slot, TypeOK
<1>8. Accumulate(c) \in [DOMAIN Accumulate(c) -> Slot]
  BY <1>6, <1>7 DEF Accumulate
<1> QED
  BY <1>1, <1>6, <1>8 DEF TypeOK

(* Screening a held chunk takes out or replaces the deltas of blocked      *)
(* calls and leaves the others.                                            *)
LEMMA ScreenChunk ==
  ASSUME NEW c \in Chunk
  PROVE  /\ Screen(c) \in Chunk
         /\ DOMAIN Screen(c).tcs \subseteq DOMAIN c.tcs
         /\ \A i \in DOMAIN Screen(c).tcs :
              Screen(c).tcs[i] = IF i \in Blocked THEN Replacement(c, i) ELSE c.tcs[i]
<1> DEFINE stay == {i \in DOMAIN c.tcs : i \notin Blocked \/ (Rewrites /\ i \notin emitted)}
           t    == [i \in stay |-> IF i \in Blocked THEN Replacement(c, i) ELSE c.tcs[i]]
<1>1. c.tcs \in [DOMAIN c.tcs -> Sent] /\ DOMAIN c.tcs \subseteq Indices
  BY PartialIs DEF Chunk
<1>2. \A i \in DOMAIN c.tcs : Replacement(c, i) \in Sent
  BY DEF Replacement, Sent
<1>3. t \in [stay -> Sent] /\ stay \subseteq Indices
  BY <1>1, <1>2
<1>4. t \in Partial(Indices, Sent)
  BY <1>3, PartialIs
<1>5. Screen(c) = [c EXCEPT !.tcs = t]
  BY DEF Screen
<1>6. Screen(c).tcs = t /\ Screen(c) \in Chunk
  BY <1>4, <1>5 DEF Chunk
<1> QED
  BY <1>6

(* What a failure releases are chunks; in closed mode, none with a call.   *)
LEMMA FailureChunksAre ==
  ASSUME TypeOK, BuffersInv, NEW last \in Chunk
  PROVE  /\ FailureChunks(last) \in Seq(Chunk)
         /\ conf.fail = "closed" =>
              \A k \in 1..Len(FailureChunks(last)) : DOMAIN FailureChunks(last)[k].tcs = {}
<1> DEFINE tail == [k \in 1..Len(finishChunks) |-> EndTurn(finishChunks[k])]
<1>1. \A k \in 1..Len(finishChunks) :
        finishChunks[k] \in Chunk /\ DOMAIN finishChunks[k].tcs = {}
  BY DEF TypeOK, BuffersInv
<1>2. \A k \in 1..Len(finishChunks) :
        EndTurn(finishChunks[k]) \in Chunk /\ DOMAIN EndTurn(finishChunks[k]).tcs = {}
  BY <1>1, MadeChunks
<1>3. tail \in Seq(Chunk) /\ Len(tail) = Len(finishChunks)
  BY <1>2 DEF TypeOK
<1>4. Note(last) \in Chunk /\ DOMAIN Note(last).tcs = {}
  BY MadeChunks
<1>5. CASE conf.fail = "closed"
  <2>1. FailureChunks(last) = <<Note(last)>> \o tail
    BY <1>5 DEF FailureChunks
  <2>2. <<Note(last)>> \o tail \in Seq(Chunk)
    BY <1>3, <1>4
  <2>3. \A k \in 1..Len(<<Note(last)>> \o tail) :
          DOMAIN (<<Note(last)>> \o tail)[k].tcs = {}
    <3> SUFFICES ASSUME NEW k \in 1..Len(<<Note(last)>> \o tail)
                 PROVE  DOMAIN (<<Note(last)>> \o tail)[k].tcs = {}
      OBVIOUS
    <3>1. CASE k = 1
      BY <3>1, <1>3, <1>4
    <3>2. CASE k # 1
      <4>1. k - 1 \in 1..Len(finishChunks) /\ (<<Note(last)>> \o tail)[k] = tail[k-1]
        BY <3>2, <1>3, <1>4
      <4> QED
        BY <4>1, <1>2
    <3> QED
      BY <3>1, <3>2
  <2> QED
    BY <2>1, <2>2, <2>3
<1>6. CASE conf.fail # "closed"
  BY <1>6 DEF FailureChunks, TypeOK
<1> QED
  BY <1>5, <1>6
-----------------------------------------------------------------------------
(***************************************************************************)
(* The inductive invariant.                                                *)
(***************************************************************************)

LEMMA InitInv == Init => Inv
<1> SUFFICES ASSUME Init PROVE Inv
  OBVIOUS
<1>1. TypeOK
  BY DEF Init, TypeOK, EmptyCalls, Phases
<1>2. TakenInv /\ VerdictsInv /\ BuffersInv /\ ReleasedOnVerdict
  BY DEF Init, TakenInv, VerdictsInv, BuffersInv, ReleasedOnVerdict, EmptyCalls
<1> QED
  BY <1>1, <1>2 DEF Inv

(* Yielding chunks without tool calls keeps ReleasedOnVerdict, and so does *)
(* yielding nothing.                                                       *)
LEMMA QuietOut ==
  ASSUME Inv, UNCHANGED <<conf, calls, verdicts>>,
         cause' = cause \/ cause = "none",
         \/ out' = out
         \/ \E c \in Chunk : DOMAIN c.tcs = {} /\ out' = Append(out, c)
  PROVE  ReleasedOnVerdict' /\ out' \in Seq(Chunk)
<1>1. out \in Seq(Chunk) /\ ReleasedOnVerdict
  BY DEF Inv, TypeOK
<1>2. Opened => Opened'
  BY DEF Opened
<1>3. CASE out' = out
  BY <1>1, <1>2, <1>3 DEF ReleasedOnVerdict, Evaluate
<1>4. ASSUME NEW c \in Chunk, DOMAIN c.tcs = {}, out' = Append(out, c)
      PROVE  ReleasedOnVerdict' /\ out' \in Seq(Chunk)
  <2>1. out' \in Seq(Chunk)
    BY <1>1, <1>4
  <2>2. \A k \in 1..Len(out') : (k \in 1..Len(out) /\ out'[k] = out[k]) \/ out'[k] = c
    BY <1>1, <1>4
  <2>3. ReleasedOnVerdict'
    BY <1>1, <1>2, <1>4, <2>2 DEF ReleasedOnVerdict, Evaluate
  <2> QED
    BY <2>1, <2>3
<1> QED
  BY <1>1, <1>3, <1>4

(* A chunk arrives.                                                        *)
LEMMA ReceiveInv ==
  ASSUME Inv, NEW s \in Shapes, Receive(s)
  PROVE  Inv'
<1> DEFINE c == Arrived(s)
<1>1. c \in Chunk /\ \A i \in DOMAIN c.tcs : i \in Indices /\ c.tcs[i] \in Delta
  BY ArrivedChunk DEF Inv
<1>2. /\ DOMAIN calls' = DOMAIN calls \cup DOMAIN c.tcs
      /\ calls' \in [DOMAIN calls' -> Slot]
      /\ DOMAIN calls' \subseteq Indices
  BY AccumulateSlots DEF Inv, Receive
<1>3. phase = "collect" /\ cause = "none" /\ DOMAIN verdicts = {}
  BY DEF Receive, Inv, VerdictsInv
<1>31. /\ received' = Append(received, c)
       /\ buffered' = buffered \/ buffered' = Append(buffered, c)
       /\ finishChunks' = finishChunks \/ (finishChunks' = Append(finishChunks, c) /\ ~HasTools(c))
       /\ out' = out \/ (out' = Append(out, c) /\ ~HasTools(c))
  BY DEF Receive
<1>32. /\ received \in Seq(Chunk) /\ buffered \in Seq(Chunk)
       /\ finishChunks \in Seq(Chunk) /\ out \in Seq(Chunk)
  BY DEF Inv, TypeOK
<1>33. \A q \in Seq(Chunk) :
         /\ Append(q, c) \in Seq(Chunk)
         /\ Append(q, c) # <<>>
         /\ \A k \in 1..Len(Append(q, c)) :
              (k \in 1..Len(q) /\ Append(q, c)[k] = q[k]) \/ Append(q, c)[k] = c
  BY <1>1, AppendIs
<1> HIDE DEF c
<1>4. TypeOK'
  <2>1. received' \in Seq(Chunk) /\ buffered' \in Seq(Chunk)
        /\ finishChunks' \in Seq(Chunk) /\ out' \in Seq(Chunk)
    BY <1>1, <1>31, <1>32, <1>33
  <2> QED
    BY <1>2, <1>3, <2>1 DEF Receive, Inv, TypeOK
<1>5. TakenInv'
  BY <1>1, <1>31, <1>32, <1>33 DEF TakenInv
<1>6. VerdictsInv'
  BY <1>3 DEF Receive, Inv, VerdictsInv
<1>7. BuffersInv'
  <2>1. \A k \in 1..Len(buffered') :
          \/ k \in 1..Len(buffered) /\ buffered'[k] = buffered[k]
          \/ buffered'[k] = c
    BY <1>1, <1>31, <1>32, <1>33
  <2>2. \A k \in 1..Len(finishChunks') :
          \/ k \in 1..Len(finishChunks) /\ finishChunks'[k] = finishChunks[k]
          \/ finishChunks'[k] = c /\ ~HasTools(c)
    BY <1>1, <1>31, <1>32, <1>33
  <2>3. \A i \in DOMAIN c.tcs : c.tcs[i].arg # Echo
    BY <1>1, MarkersAssumption DEF Delta
  <2>4. \A k \in 1..Len(buffered') : \A i \in DOMAIN buffered'[k].tcs :
          i \in DOMAIN calls' /\ (buffered'[k].tcs[i].arg = Echo => i \in Blocked)
    BY <1>2, <2>1, <2>3 DEF Inv, BuffersInv
  <2>5. \A k \in 1..Len(finishChunks') : DOMAIN finishChunks'[k].tcs = {}
    BY <2>2 DEF Inv, BuffersInv, HasTools
  <2>6. UNCHANGED <<verdicts, queue, conf, cause>>
    BY DEF Receive
  <2> QED
    BY <2>4, <2>5, <2>6 DEF Inv, BuffersInv, Blocked, Opened
<1>8. ReleasedOnVerdict'
  <2>1. \A k \in 1..Len(out) : DOMAIN out[k].tcs = {}
    BY <1>3 DEF Inv, ReleasedOnVerdict, Opened
  <2>2. \A k \in 1..Len(out') : DOMAIN out'[k].tcs = {}
    BY <1>1, <1>31, <1>32, <2>1, <1>33 DEF HasTools
  <2> QED
    BY <2>2 DEF ReleasedOnVerdict
<1> QED
  BY <1>4, <1>5, <1>6, <1>7, <1>8 DEF Inv

(* Chunks without calls go out and nothing else that matters changes.      *)
LEMMA LastReceived ==
  ASSUME Inv, received # <<>>
  PROVE  Last(received) \in Chunk
BY DEF Last, Inv, TypeOK

LEMMA StallInv ==
  ASSUME Inv, Stall
  PROVE  Inv'
<1>1. received # <<>>
  BY DEF Stall, Inv, TakenInv
<1>2. Keepalive(Last(received)) \in Chunk /\ DOMAIN Keepalive(Last(received)).tcs = {}
  BY <1>1, LastReceived, MadeChunks
<1>3. ReleasedOnVerdict' /\ out' \in Seq(Chunk)
  BY <1>2, QuietOut DEF Stall
<1>4. TypeOK'
  BY <1>3 DEF Stall, Inv, TypeOK
<1>5. TakenInv' /\ VerdictsInv' /\ BuffersInv'
  BY DEF Stall, Inv, TakenInv, VerdictsInv, BuffersInv, Evaluate, Blocked, Opened
<1> QED
  BY <1>3, <1>4, <1>5 DEF Inv

(* Steps that move the phase on and touch nothing else of the invariant.   *)
LEMMA PhaseInv ==
  ASSUME Inv,
         UpstreamEnds \/ AllJudged \/ EndTail \/ EndFlush \/ ClientGone \/ UNCHANGED vars
  PROVE  Inv'
<1>1. UNCHANGED <<conf, received, buffered, finishChunks, calls, verdicts, rows,
                  pos, emitted, queue, out, cause, keepalives>>
  BY DEF UpstreamEnds, AllJudged, EndTail, EndFlush, ClientGone, vars
<1>2. /\ phase' \in Phases
      /\ phase' = "collect" => phase = "collect"
      /\ phase' \in {"emit", "tail"} => phase = phase' \/ DOMAIN verdicts = DOMAIN calls
  BY DEF UpstreamEnds, AllJudged, EndTail, EndFlush, ClientGone, vars, Inv, TypeOK, Phases
<1>3. TypeOK'
  BY <1>1, <1>2 DEF Inv, TypeOK
<1>4. VerdictsInv'
  BY <1>1, <1>2 DEF Inv, VerdictsInv, Evaluate
<1>5. TakenInv' /\ BuffersInv'
  BY <1>1 DEF Inv, TakenInv, BuffersInv, Blocked, Opened
<1>6. ReleasedOnVerdict'
  BY <1>1, QuietOut
<1> QED
  BY <1>3, <1>4, <1>5, <1>6 DEF Inv

(* A verdict is added.                                                     *)
LEMMA JudgeCallInv ==
  ASSUME Inv, NEW i \in Indices, JudgeCall(i)
  PROVE  Inv'
<1> DEFINE v == Evaluate(calls[i].args)
<1>1. /\ phase = "judge" /\ i \in DOMAIN calls /\ i \notin DOMAIN verdicts
      /\ verdicts' = [j \in DOMAIN verdicts \cup {i} |-> IF j = i THEN v ELSE verdicts[j]]
      /\ rows' = Append(rows, [index |-> i, args |-> calls[i].args, verdict |-> v])
      /\ UNCHANGED <<conf, phase, received, buffered, finishChunks, calls, pos,
                     emitted, queue, out, cause, keepalives>>
  BY DEF JudgeCall
<1>2. v \in Verdicts
  BY DEF Evaluate, Verdicts
<1>3. [index |-> i, args |-> calls[i].args, verdict |-> v] \in Row
  BY <1>1, <1>2 DEF Inv, TypeOK, Slot, Row
<1> HIDE DEF v
<1>4. TypeOK'
  <2>1. rows' \in Seq(Row)
    BY <1>1, <1>3 DEF Inv, TypeOK
  <2>2. /\ DOMAIN verdicts' \subseteq DOMAIN calls
        /\ verdicts' \in [DOMAIN verdicts' -> Verdicts]
    BY <1>1, <1>2 DEF Inv, TypeOK
  <2> QED
    BY <1>1, <2>1, <2>2 DEF Inv, TypeOK
<1>5. \A j \in DOMAIN verdicts : j \in DOMAIN verdicts' /\ verdicts'[j] = verdicts[j]
  BY <1>1
<1>6. VerdictsInv'
  <2>1. \A j \in DOMAIN verdicts' : verdicts'[j] = Evaluate(calls[j].args)
    BY <1>1 DEF Inv, VerdictsInv, v
  <2> QED
    BY <1>1, <2>1 DEF VerdictsInv, Evaluate
<1>7. BuffersInv'
  BY <1>1, <1>5 DEF Inv, BuffersInv, Blocked, Opened
<1>8. ReleasedOnVerdict'
  BY <1>1, <1>5 DEF Inv, ReleasedOnVerdict, Opened, Evaluate
<1>9. TakenInv'
  BY <1>1 DEF Inv, TakenInv
<1> QED
  BY <1>4, <1>6, <1>7, <1>8, <1>9 DEF Inv

(* A held chunk is screened and released.                                  *)
LEMMA EmitBufferedInv ==
  ASSUME Inv, EmitBuffered
  PROVE  Inv'
<1> DEFINE c == Screen(buffered[pos])
<1>1. /\ phase = "emit" /\ pos \in 1..Len(buffered)
      /\ buffered' = [buffered EXCEPT ![pos] = c]
      /\ out' = out \/ out' = Append(out, c)
      /\ emitted' = emitted \/ emitted' = emitted \cup (Blocked \cap DOMAIN buffered[pos].tcs)
      /\ pos' = pos + 1
      /\ UNCHANGED <<conf, phase, received, finishChunks, calls, verdicts, rows,
                     queue, cause, keepalives>>
  BY DEF EmitBuffered, Inv, TypeOK
<1>2. buffered[pos] \in Chunk /\ DOMAIN verdicts = DOMAIN calls
  BY <1>1 DEF Inv, TypeOK, VerdictsInv
<1>3. /\ c \in Chunk /\ DOMAIN c.tcs \subseteq DOMAIN buffered[pos].tcs
      /\ \A i \in DOMAIN c.tcs :
           c.tcs[i] = IF i \in Blocked THEN Replacement(buffered[pos], i) ELSE buffered[pos].tcs[i]
  BY <1>2, ScreenChunk
<1>4. \A i \in DOMAIN c.tcs :
        i \in DOMAIN calls /\ (c.tcs[i].arg = Echo <=> i \in Blocked)
  <2>1. \A i \in DOMAIN buffered[pos].tcs :
          i \in DOMAIN calls /\ (buffered[pos].tcs[i].arg = Echo => i \in Blocked)
    BY <1>1 DEF Inv, BuffersInv
  <2>2. \A i : Replacement(buffered[pos], i).arg = Echo
    BY DEF Replacement
  <2> QED
    BY <1>3, <2>1, <2>2
<1>5. buffered \in Seq(Chunk) /\ out \in Seq(Chunk)
  BY DEF Inv, TypeOK
<1>6. \A q \in Seq(Chunk) :
        /\ Append(q, c) \in Seq(Chunk)
        /\ \A k \in 1..Len(Append(q, c)) :
             (k \in 1..Len(q) /\ Append(q, c)[k] = q[k]) \/ Append(q, c)[k] = c
  BY <1>3, AppendIs
<1> HIDE DEF c
<1>7. TypeOK'
  <2>1. buffered' \in Seq(Chunk) /\ out' \in Seq(Chunk)
    BY <1>1, <1>3, <1>5, <1>6
  <2>2. emitted' \subseteq Indices /\ pos' \in Nat \ {0}
    BY <1>1 DEF Inv, TypeOK, Blocked
  <2> QED
    BY <1>1, <2>1, <2>2 DEF Inv, TypeOK
<1>8. BuffersInv'
  <2>1. Len(buffered') = Len(buffered)
        /\ \A k \in 1..Len(buffered) : buffered'[k] = buffered[k] \/ buffered'[k] = c
    BY <1>1, <1>5
  <2> QED
    BY <1>1, <1>4, <2>1 DEF Inv, BuffersInv, Blocked, Opened
<1>9. ReleasedOnVerdict'
  <2>1. \A i \in DOMAIN c.tcs :
          i \in DOMAIN verdicts /\ (c.tcs[i].arg = Echo <=> Evaluate(calls[i].args) = "block")
    BY <1>2, <1>4 DEF Inv, VerdictsInv, Blocked
  <2>2. \A k \in 1..Len(out') : (k \in 1..Len(out) /\ out'[k] = out[k]) \/ out'[k] = c
    BY <1>1, <1>5, <1>6
  <2> QED
    BY <1>1, <2>1, <2>2 DEF Inv, ReleasedOnVerdict, Opened, Evaluate
<1>10. TakenInv'
  <2>1. buffered' = <<>> => buffered = <<>>
    BY <1>1, <1>5
  <2>2. buffered # <<>>
    BY <1>1, <1>5
  <2> QED
    BY <1>1, <2>2 DEF Inv, TakenInv
<1>11. VerdictsInv'
  BY <1>1 DEF Inv, VerdictsInv, Evaluate
<1> QED
  BY <1>7, <1>8, <1>9, <1>10, <1>11 DEF Inv

(* The note, if calls were stripped.                                       *)
LEMMA EndBufferedInv ==
  ASSUME Inv, EndBuffered
  PROVE  Inv'
<1>1. ASSUME Strips PROVE Note(Last(received)) \in Chunk /\ DOMAIN Note(Last(received)).tcs = {}
  <2>1. received # <<>>
    BY <1>1 DEF Strips, Blocked, Inv, TypeOK, TakenInv
  <2> QED
    BY <2>1, LastReceived, MadeChunks
<1>2. ReleasedOnVerdict' /\ out' \in Seq(Chunk)
  BY <1>1, QuietOut DEF EndBuffered
<1>3. TypeOK'
  BY <1>2 DEF EndBuffered, Inv, TypeOK, Phases
<1>4. TakenInv' /\ VerdictsInv' /\ BuffersInv'
  BY DEF EndBuffered, Inv, TakenInv, VerdictsInv, BuffersInv, Evaluate, Blocked, Opened
<1> QED
  BY <1>2, <1>3, <1>4 DEF Inv

(* A chunk held behind the calls goes out.                                 *)
LEMMA EmitTailInv ==
  ASSUME Inv, EmitTail
  PROVE  Inv'
<1> DEFINE c == IF AllStripped THEN EndTurn(finishChunks[pos]) ELSE finishChunks[pos]
<1>1. /\ phase = "tail" /\ pos \in 1..Len(finishChunks)
      /\ finishChunks' = [finishChunks EXCEPT ![pos] = c]
      /\ out' = Append(out, c)
      /\ pos' = pos + 1
      /\ UNCHANGED <<conf, phase, received, buffered, calls, verdicts, rows,
                     emitted, queue, cause, keepalives>>
  BY DEF EmitTail, Inv, TypeOK
<1>2. finishChunks[pos] \in Chunk /\ DOMAIN finishChunks[pos].tcs = {}
  BY <1>1 DEF Inv, TypeOK, BuffersInv
<1>3. c \in Chunk /\ DOMAIN c.tcs = {}
  BY <1>2, MadeChunks
<1> HIDE DEF c
<1>4. ReleasedOnVerdict' /\ out' \in Seq(Chunk)
  BY <1>1, <1>3, QuietOut
<1>5. finishChunks' \in Seq(Chunk) /\ \A k \in 1..Len(finishChunks') :
        k \in 1..Len(finishChunks) /\ (finishChunks'[k] = finishChunks[k] \/ finishChunks'[k] = c)
  BY <1>1, <1>3 DEF Inv, TypeOK
<1>6. TypeOK'
  BY <1>1, <1>4, <1>5 DEF Inv, TypeOK
<1>7. BuffersInv'
  BY <1>1, <1>3, <1>5 DEF Inv, BuffersInv, Blocked, Opened
<1>8. TakenInv' /\ VerdictsInv'
  BY <1>1 DEF Inv, TakenInv, VerdictsInv, Evaluate
<1> QED
  BY <1>4, <1>6, <1>7, <1>8 DEF Inv

(* A failure: the flush is prepared or the exception leaves the handler.   *)
LEMMA FailInv ==
  ASSUME Inv, NEW why \in {"guard", "upstream"}, NEW last \in Chunk, Fail(why, last),
         \/ received' = received
         \/ received' = Append(received, last),
         UNCHANGED <<conf, buffered, finishChunks, calls, verdicts, rows, pos,
                     emitted, out, keepalives>>,
         phase \in {"collect", "judge", "emit"}
  PROVE  Inv'
<1>1. /\ FailureChunks(last) \in Seq(Chunk)
      /\ conf.fail = "closed" =>
           \A k \in 1..Len(FailureChunks(last)) : DOMAIN FailureChunks(last)[k].tcs = {}
  BY FailureChunksAre DEF Inv
<1>2. /\ cause' = why
      /\ \/ phase' = "flush" /\ queue' = FailureChunks(last)
         \/ phase' = "raised" /\ queue' = <<>>
  BY DEF Fail
<1>3. received' \in Seq(Chunk) /\ (received # <<>> => received' # <<>>)
  <2>1. received \in Seq(Chunk)
    BY DEF Inv, TypeOK
  <2>2. Append(received, last) \in Seq(Chunk) /\ Append(received, last) # <<>>
    BY <2>1, AppendIs
  <2> QED
    BY <2>1, <2>2
<1>4. TypeOK'
  <2>0. <<>> \in Seq(Chunk) /\ {"flush", "raised"} \subseteq Phases
    BY DEF Phases
  <2>1. queue' \in Seq(Chunk) /\ phase' \in Phases
    BY <1>1, <1>2, <2>0
  <2>2. cause' \in {"none", "guard", "upstream"}
    BY <1>2
  <2> QED
    BY <1>3, <2>1, <2>2 DEF Inv, TypeOK
<1>5. Opened => Opened'
  BY <1>2 DEF Opened
<1>6. Opened' <=> conf.fail = "open"
  BY <1>2 DEF Opened
<1>7. BuffersInv'
  <2>1. Opened' \/ \A k \in 1..Len(queue') : DOMAIN queue'[k].tcs = {}
    BY <1>1, <1>2, <1>6 DEF Inv, TypeOK, Conf
  <2> QED
    BY <2>1 DEF Inv, BuffersInv, Blocked
<1>8. ReleasedOnVerdict'
  BY <1>5 DEF Inv, ReleasedOnVerdict, Evaluate
<1>9. TakenInv' /\ VerdictsInv'
  BY <1>2, <1>3 DEF Inv, TakenInv, VerdictsInv, Evaluate
<1> QED
  BY <1>4, <1>7, <1>8, <1>9 DEF Inv

LEMMA FailuresInv ==
  ASSUME Inv, GuardError \/ UpstreamError \/ \E s \in Shapes : ChunkError(s)
  PROVE  Inv'
<1>1. CASE GuardError
  <2>1. received # <<>>
    BY <1>1 DEF GuardError, Inv, TakenInv, TypeOK, Strips, Blocked, ReplacesNow
  <2>2. Last(received) \in Chunk
    BY <2>1, LastReceived
  <2>3. /\ Fail("guard", Last(received))
        /\ UNCHANGED <<conf, received, buffered, finishChunks, calls, verdicts, rows, pos,
                       emitted, out, keepalives>>
        /\ phase \in {"collect", "judge", "emit"}
    BY <1>1 DEF GuardError
  <2> QED
    BY <2>2, <2>3, FailInv
<1>2. ASSUME NEW s \in Shapes, ChunkError(s) PROVE Inv'
  <2>1. Arrived(s) \in Chunk
    BY ArrivedChunk DEF Inv
  <2>2. /\ Fail("guard", Arrived(s)) /\ received' = Append(received, Arrived(s))
        /\ UNCHANGED <<conf, buffered, finishChunks, calls, verdicts, rows, pos,
                       emitted, out, keepalives>>
        /\ phase \in {"collect", "judge", "emit"}
    BY <1>2 DEF ChunkError
  <2> QED
    BY <2>1, <2>2, FailInv
<1>3. CASE UpstreamError
  <2>1. CASE received # <<>>
    <3>1. Last(received) \in Chunk
      BY <2>1, LastReceived
    <3>2. /\ Fail("upstream", Last(received))
          /\ UNCHANGED <<conf, received, buffered, finishChunks, calls, verdicts, rows, pos,
                         emitted, out, keepalives>>
          /\ phase \in {"collect", "judge", "emit"}
      BY <1>3, <2>1 DEF UpstreamError
    <3> QED
      BY <3>1, <3>2, FailInv
  <2>2. CASE received = <<>>
    <3>1. /\ cause' = "upstream" /\ phase' = "raised"
          /\ UNCHANGED <<conf, received, buffered, finishChunks, calls, verdicts, rows, pos,
                         emitted, out, keepalives, queue>>
      BY <1>3, <2>2 DEF UpstreamError
    <3>2. Opened => Opened'
      BY <3>1 DEF Opened
    <3>3. TypeOK' /\ TakenInv' /\ VerdictsInv'
      BY <3>1 DEF Inv, TypeOK, TakenInv, VerdictsInv, Evaluate, Phases
    <3>4. BuffersInv' /\ ReleasedOnVerdict'
      BY <3>1, <3>2 DEF Inv, BuffersInv, ReleasedOnVerdict, Evaluate, Blocked
    <3> QED
      BY <3>3, <3>4 DEF Inv
  <2> QED
    BY <2>1, <2>2
<1> QED
  BY <1>1, <1>2, <1>3

(* The flush goes on.  Opened, anything may go; closed, nothing with calls.*)
LEMMA EmitFlushInv ==
  ASSUME Inv, EmitFlush
  PROVE  Inv'
<1>1. /\ queue \in Seq(Chunk) /\ queue # <<>> /\ phase = "flush"
      /\ out' = Append(out, queue[1]) /\ queue' = Tail(queue)
      /\ UNCHANGED <<conf, phase, received, buffered, finishChunks, calls, verdicts,
                     rows, pos, emitted, cause, keepalives>>
  BY DEF EmitFlush, Inv, TypeOK
<1>2. /\ queue[1] \in Chunk /\ queue' \in Seq(Chunk)
      /\ \A k \in 1..Len(queue') : k + 1 \in 1..Len(queue) /\ queue'[k] = queue[k + 1]
  BY <1>1
<1>3. ReleasedOnVerdict' /\ out' \in Seq(Chunk)
  <2>1. CASE Opened
    BY <1>1, <1>2, <2>1 DEF ReleasedOnVerdict, Opened, Inv, TypeOK
  <2>2. CASE ~Opened
    <3>1. DOMAIN queue[1].tcs = {}
      BY <1>1, <2>2 DEF Inv, BuffersInv
    <3> QED
      BY <1>1, <1>2, <3>1, QuietOut
  <2> QED
    BY <2>1, <2>2
<1>4. TypeOK'
  BY <1>1, <1>2, <1>3 DEF Inv, TypeOK
<1>5. BuffersInv'
  BY <1>1, <1>2 DEF Inv, BuffersInv, Blocked, Opened
<1>6. TakenInv' /\ VerdictsInv'
  BY <1>1 DEF Inv, TakenInv, VerdictsInv, Evaluate
<1> QED
  BY <1>3, <1>4, <1>5, <1>6 DEF Inv

LEMMA NextInv == Inv /\ [Next]_vars => Inv'
<1> SUFFICES ASSUME Inv, [Next]_vars PROVE Inv'
  OBVIOUS
<1>1. CASE \E s \in Shapes : Receive(s)
  BY <1>1, ReceiveInv
<1>2. CASE Stall
  BY <1>2, StallInv
<1>3. CASE \E i \in Indices : JudgeCall(i)
  BY <1>3, JudgeCallInv
<1>4. CASE EmitBuffered
  BY <1>4, EmitBufferedInv
<1>5. CASE EndBuffered
  BY <1>5, EndBufferedInv
<1>6. CASE EmitTail
  BY <1>6, EmitTailInv
<1>7. CASE GuardError \/ UpstreamError \/ \E s \in Shapes : ChunkError(s)
  BY <1>7, FailuresInv
<1>8. CASE EmitFlush
  BY <1>8, EmitFlushInv
<1>9. CASE UpstreamEnds \/ AllJudged \/ EndTail \/ EndFlush \/ ClientGone \/ UNCHANGED vars
  BY <1>9, PhaseInv
<1> QED
  BY <1>1, <1>2, <1>3, <1>4, <1>5, <1>6, <1>7, <1>8, <1>9 DEF Next, GuardStep, Over

(* The inductive invariant holds in every reachable state.                 *)
THEOREM Invariance == Spec => []Inv
BY InitInv, NextInv, PTL DEF Spec

(* The handler's locals keep their types, and what they index exists.      *)
THEOREM TypeCorrectness == Spec => []TypeOK
<1>1. Inv => TypeOK
  BY DEF Inv
<1> QED
  BY <1>1, Invariance, PTL

(* For any upstream, any rules and any number of calls: a tool-call delta  *)
(* reaches the client only after its call was judged, as the original only *)
(* if the assembled call was not blocked, unless the guard failed open.    *)
THEOREM JudgedBeforeReleased == Spec => []ReleasedOnVerdict
<1>1. Inv => ReleasedOnVerdict
  BY DEF Inv
<1> QED
  BY <1>1, Invariance, PTL
-----------------------------------------------------------------------------
(***************************************************************************)
(* ChatStream implements ToolGate.                                         *)
(***************************************************************************)

(* What one more chunk adds to the calls passed and replaced.              *)
LEMMA OneMore ==
  ASSUME Inv, NEW c \in Chunk, out' = Append(out, c)
  PROVE  /\ Passed' = Passed \cup {i \in DOMAIN c.tcs : c.tcs[i].arg # Echo}
         /\ Replaced' = Replaced \cup {i \in DOMAIN c.tcs : c.tcs[i].arg = Echo}
         /\ DOMAIN c.tcs \subseteq Indices
<1>1. DOMAIN c.tcs \subseteq Indices
  BY PartialIs DEF Chunk
<1>2. out \in Seq(Chunk)
  BY DEF Inv, TypeOK
<1>3. /\ \A k \in 1..Len(out') : (k \in 1..Len(out) /\ out'[k] = out[k]) \/ out'[k] = c
      /\ \A k \in 1..Len(out) : k \in 1..Len(out') /\ out'[k] = out[k]
      /\ Len(out') \in 1..Len(out') /\ out'[Len(out')] = c
  BY <1>2
<1>4. Passed' = Passed \cup {i \in DOMAIN c.tcs : c.tcs[i].arg # Echo}
  BY <1>1, <1>3 DEF Passed
<1>5. Replaced' = Replaced \cup {i \in DOMAIN c.tcs : c.tcs[i].arg = Echo}
  BY <1>1, <1>3 DEF Replaced
<1> QED
  BY <1>1, <1>4, <1>5

(* Steps that change neither what is assembled nor a verdict, and release  *)
(* at most a chunk without calls, are stutters of the abstract gate.       *)
LEMMA QuietMaps ==
  ASSUME Inv, UNCHANGED <<conf, calls, verdicts>>, Opened' = Opened,
         \/ out' = out
         \/ \E c \in Chunk : DOMAIN c.tcs = {} /\ out' = Append(out, c)
  PROVE  UNCHANGED Gate!gateVars
<1>1. Assembled' = Assembled /\ Verdict' = Verdict
  BY DEF Assembled, Verdict, SlotOf
<1>2. Passed' = Passed /\ Replaced' = Replaced
  <2>1. CASE out' = out
    BY <2>1 DEF Passed, Replaced
  <2>2. ASSUME NEW c \in Chunk, DOMAIN c.tcs = {}, out' = Append(out, c)
        PROVE  Passed' = Passed /\ Replaced' = Replaced
    BY <2>2, OneMore
  <2> QED
    BY <2>1, <2>2
<1> QED
  BY <1>1, <1>2 DEF Gate!gateVars

LEMMA InitMaps == Init => Gate!Init
<1> SUFFICES ASSUME Init PROVE Gate!Init
  OBVIOUS
<1>1. conf.mode \in {"block", "flag"}
  BY DEF Init, Conf
<1>2. Assembled = [i \in Indices |-> <<>>]
  BY DEF Init, Assembled, SlotOf, EmptyCalls
<1>3. Verdict = [i \in Indices |-> "none"]
  BY DEF Init, Verdict
<1>4. Passed = {} /\ Replaced = {} /\ Opened = FALSE
  BY DEF Init, Passed, Replaced, Opened
<1> QED
  BY <1>1, <1>2, <1>3, <1>4 DEF Gate!Init

(* A chunk that arrives is the gate's Receive: no call is judged yet.      *)
LEMMA ReceiveMaps ==
  ASSUME Inv, NEW s \in Shapes, Receive(s)
  PROVE  Gate!Receive
<1> DEFINE c == Arrived(s)
<1>1. TypeOK'
  BY ReceiveInv DEF Inv
<1>2. Assembled' \in [Indices -> Seq(Pieces)]
  BY <1>1 DEF Assembled, SlotOf, TypeOK, Slot
<1>3. \A i \in Indices : Verdict[i] = "none"
  BY DEF Receive, Inv, VerdictsInv, Verdict
<1>4. UNCHANGED <<conf, verdicts, cause>>
  BY DEF Receive
<1>5. c \in Chunk
  BY ArrivedChunk DEF Inv
<1>6. out' = out \/ (out' = Append(out, c) /\ DOMAIN c.tcs = {})
  BY DEF Receive, HasTools
<1>7. Passed' = Passed /\ Replaced' = Replaced
  <2>1. CASE out' = out
    BY <2>1 DEF Passed, Replaced
  <2>2. CASE out' = Append(out, c) /\ DOMAIN c.tcs = {}
    BY <2>2, <1>5, OneMore
  <2> QED
    BY <1>6, <2>1, <2>2
<1>8. Verdict' = Verdict /\ Opened' = Opened
  BY <1>4 DEF Verdict, Opened
<1> QED
  BY <1>2, <1>3, <1>4, <1>7, <1>8 DEF Gate!Receive

LEMMA JudgeCallMaps ==
  ASSUME Inv, NEW i \in Indices, JudgeCall(i)
  PROVE  Gate!Judge(i)
<1>1. /\ i \in DOMAIN calls /\ i \notin DOMAIN verdicts
      /\ verdicts' = [j \in DOMAIN verdicts \cup {i} |->
                        IF j = i THEN Evaluate(calls[i].args) ELSE verdicts[j]]
      /\ UNCHANGED <<conf, calls, out, cause>>
  BY DEF JudgeCall
<1>2. Assembled[i] = calls[i].args /\ Verdict[i] = "none"
  BY <1>1 DEF Assembled, SlotOf, Verdict
<1>3. Gate!Judgement(Assembled[i]) = Evaluate(calls[i].args)
  BY <1>2 DEF Gate!Judgement, Evaluate
<1>4. Verdict' = [Verdict EXCEPT ![i] = Evaluate(calls[i].args)]
  BY <1>1 DEF Verdict
<1>5. UNCHANGED <<conf, Assembled, Passed, Replaced, Opened>>
  BY <1>1 DEF Assembled, SlotOf, Passed, Replaced, Opened
<1> QED
  BY <1>2, <1>3, <1>4, <1>5 DEF Gate!Judge

(* A screened chunk that goes out is the gate's Release.                   *)
LEMMA EmitBufferedMaps ==
  ASSUME Inv, EmitBuffered
  PROVE  [Gate!Next]_(Gate!gateVars)
<1> DEFINE c == Screen(buffered[pos])
<1>1. /\ phase = "emit" /\ pos \in 1..Len(buffered)
      /\ out' = out \/ out' = Append(out, c)
      /\ UNCHANGED <<conf, calls, verdicts, cause>>
  BY DEF EmitBuffered, Inv, TypeOK
<1>2. buffered[pos] \in Chunk /\ DOMAIN verdicts = DOMAIN calls
  BY <1>1 DEF Inv, TypeOK, VerdictsInv
<1>3. /\ c \in Chunk /\ DOMAIN c.tcs \subseteq DOMAIN buffered[pos].tcs
      /\ \A i \in DOMAIN c.tcs :
           c.tcs[i] = IF i \in Blocked THEN Replacement(buffered[pos], i) ELSE buffered[pos].tcs[i]
  BY <1>2, ScreenChunk
<1>4. \A i \in DOMAIN c.tcs :
        i \in DOMAIN verdicts /\ (c.tcs[i].arg = Echo <=> verdicts[i] = "block")
  <2>1. \A i \in DOMAIN buffered[pos].tcs :
          i \in DOMAIN calls /\ (buffered[pos].tcs[i].arg = Echo => i \in Blocked)
    BY <1>1 DEF Inv, BuffersInv
  <2>2. \A i : Replacement(buffered[pos], i).arg = Echo
    BY DEF Replacement
  <2> QED
    BY <1>2, <1>3, <2>1, <2>2 DEF Blocked
<1> HIDE DEF c
<1>5. UNCHANGED <<conf, Assembled, Verdict, Opened>>
  BY <1>1 DEF Assembled, SlotOf, Verdict, Opened
<1>6. CASE out' = out
  BY <1>1, <1>6, QuietMaps, <1>5
<1>7. CASE out' = Append(out, c)
  <2>1. /\ Passed' = Passed \cup {i \in DOMAIN c.tcs : c.tcs[i].arg # Echo}
        /\ Replaced' = Replaced \cup {i \in DOMAIN c.tcs : c.tcs[i].arg = Echo}
        /\ DOMAIN c.tcs \subseteq Indices
    BY <1>3, <1>7, OneMore
  <2>2. \A i \in DOMAIN c.tcs :
          c.tcs[i].arg # Echo => Verdict[i] \in {"allow", "flag"}
    BY <1>4, <2>1 DEF Verdict, Inv, TypeOK, Verdicts
  <2>3. \A i \in DOMAIN c.tcs : c.tcs[i].arg = Echo => Verdict[i] = "block"
    BY <1>4, <2>1 DEF Verdict
  <2>4. Gate!Release
    BY <1>5, <2>1, <2>2, <2>3 DEF Gate!Release
  <2> QED
    BY <2>4 DEF Gate!Next
<1> QED
  BY <1>1, <1>6, <1>7

(* A failure is the gate's FailOpen, or nothing to it in closed mode.      *)
LEMMA FailureMaps ==
  ASSUME Inv, GuardError \/ UpstreamError \/ \E s \in Shapes : ChunkError(s)
  PROVE  [Gate!Next]_(Gate!gateVars)
<1>1. UNCHANGED <<conf, calls, verdicts, out>> /\ cause' \in {"guard", "upstream"}
  BY DEF GuardError, UpstreamError, ChunkError, Fail
<1>2. UNCHANGED <<conf, Assembled, Verdict, Passed, Replaced>>
  BY <1>1 DEF Assembled, SlotOf, Verdict, Passed, Replaced
<1>3. CASE conf.fail = "open"
  <2>1. Opened' = TRUE
    BY <1>1, <1>3 DEF Opened
  <2>2. Gate!FailOpen
    BY <1>2, <2>1 DEF Gate!FailOpen
  <2> QED
    BY <2>2 DEF Gate!Next
<1>4. CASE conf.fail # "open"
  <2>1. Opened' = Opened
    BY <1>1, <1>4 DEF Opened
  <2> QED
    BY <1>1, <2>1, QuietMaps
<1> QED
  BY <1>3, <1>4

(* The flush is the gate's FlushOpen when open and a stutter when closed.  *)
LEMMA EmitFlushMaps ==
  ASSUME Inv, EmitFlush
  PROVE  [Gate!Next]_(Gate!gateVars)
<1>1. /\ queue \in Seq(Chunk) /\ queue # <<>>
      /\ out' = Append(out, queue[1])
      /\ UNCHANGED <<conf, calls, verdicts, cause>>
  BY DEF EmitFlush, Inv, TypeOK
<1>2. queue[1] \in Chunk /\ 1 \in 1..Len(queue)
  BY <1>1
<1>3. UNCHANGED <<conf, Assembled, Verdict, Opened>>
  BY <1>1 DEF Assembled, SlotOf, Verdict, Opened
<1>4. CASE Opened
  <2>1. /\ Passed \subseteq Passed' /\ Passed' \subseteq Indices
        /\ Replaced \subseteq Replaced' /\ Replaced' \subseteq Indices
    BY <1>1, <1>2, OneMore DEF Passed, Replaced
  <2>2. Gate!FlushOpen
    BY <1>3, <1>4, <2>1 DEF Gate!FlushOpen
  <2> QED
    BY <2>2 DEF Gate!Next
<1>5. CASE ~Opened
  <2>1. DOMAIN queue[1].tcs = {}
    BY <1>2, <1>5 DEF Inv, BuffersInv
  <2> QED
    BY <1>1, <1>2, <1>3, <2>1, QuietMaps
<1> QED
  BY <1>4, <1>5

(* Steps that release at most a note, a keepalive or a chunk without calls.*)
LEMMA QuietStepsMap ==
  ASSUME Inv,
         \/ Stall \/ UpstreamEnds \/ AllJudged \/ EndBuffered \/ EmitTail \/ EndTail
         \/ EndFlush \/ ClientGone \/ UNCHANGED vars
  PROVE  UNCHANGED Gate!gateVars
<1>1. CASE Stall
  <2>1. received # <<>>
    BY <1>1 DEF Stall, Inv, TakenInv
  <2>2. Keepalive(Last(received)) \in Chunk /\ DOMAIN Keepalive(Last(received)).tcs = {}
    BY <2>1, LastReceived, MadeChunks
  <2>3. UNCHANGED <<conf, calls, verdicts>> /\ Opened' = Opened
        /\ out' = Append(out, Keepalive(Last(received)))
    BY <1>1 DEF Stall, Opened
  <2> QED
    BY <2>2, <2>3, QuietMaps
<1>2. CASE EndBuffered
  <2>1. ASSUME Strips
        PROVE  Note(Last(received)) \in Chunk /\ DOMAIN Note(Last(received)).tcs = {}
    <3>1. received # <<>>
      BY <2>1 DEF Strips, Blocked, Inv, TypeOK, TakenInv
    <3> QED
      BY <3>1, LastReceived, MadeChunks
  <2>2. UNCHANGED <<conf, calls, verdicts>> /\ Opened' = Opened
        /\ (out' = out \/ (Strips /\ out' = Append(out, Note(Last(received)))))
    BY <1>2 DEF EndBuffered, Opened
  <2> QED
    BY <2>1, <2>2, QuietMaps
<1>3. CASE EmitTail
  <2> DEFINE c == IF AllStripped THEN EndTurn(finishChunks[pos]) ELSE finishChunks[pos]
  <2>1. /\ pos \in 1..Len(finishChunks) /\ out' = Append(out, c)
        /\ UNCHANGED <<conf, calls, verdicts>> /\ Opened' = Opened
    BY <1>3 DEF EmitTail, Opened, Inv, TypeOK
  <2>2. finishChunks[pos] \in Chunk /\ DOMAIN finishChunks[pos].tcs = {}
    BY <2>1 DEF Inv, TypeOK, BuffersInv
  <2>3. c \in Chunk /\ DOMAIN c.tcs = {}
    BY <2>2, MadeChunks
  <2> HIDE DEF c
  <2> QED
    BY <2>1, <2>3, QuietMaps
<1>4. CASE UpstreamEnds \/ AllJudged \/ EndTail \/ EndFlush \/ ClientGone \/ UNCHANGED vars
  <2>1. UNCHANGED <<conf, calls, verdicts, out, cause>>
    BY <1>4 DEF UpstreamEnds, AllJudged, EndTail, EndFlush, ClientGone, vars
  <2>2. Opened' = Opened
    BY <2>1 DEF Opened
  <2> QED
    BY <2>1, <2>2, QuietMaps
<1> QED
  BY <1>1, <1>2, <1>3, <1>4

LEMMA NextMaps == Inv /\ [Next]_vars => [Gate!Next]_(Gate!gateVars)
<1> SUFFICES ASSUME Inv, [Next]_vars PROVE [Gate!Next]_(Gate!gateVars)
  OBVIOUS
<1>1. CASE \E s \in Shapes : Receive(s)
  BY <1>1, ReceiveMaps DEF Gate!Next
<1>2. CASE \E i \in Indices : JudgeCall(i)
  BY <1>2, JudgeCallMaps DEF Gate!Next
<1>3. CASE EmitBuffered
  BY <1>3, EmitBufferedMaps
<1>4. CASE GuardError \/ UpstreamError \/ \E s \in Shapes : ChunkError(s)
  BY <1>4, FailureMaps
<1>5. CASE EmitFlush
  BY <1>5, EmitFlushMaps
<1>6. CASE \/ Stall \/ UpstreamEnds \/ AllJudged \/ EndBuffered \/ EmitTail \/ EndTail
           \/ EndFlush \/ ClientGone \/ UNCHANGED vars
  BY <1>6, QuietStepsMap
<1> QED
  BY <1>1, <1>2, <1>3, <1>4, <1>5, <1>6 DEF Next, GuardStep, Over

(* The stream handler keeps the promise of the gate: whatever it releases  *)
(* and whenever it fails, each step is a step ToolGate allows.             *)
THEOREM ImplementsToolGate == Spec => GateSpec
<1>1. Init => Gate!Init
  BY InitMaps
<1>2. Inv /\ [Next]_vars => [Gate!Next]_(Gate!gateVars)
  BY NextMaps
<1> QED
  BY <1>1, <1>2, Invariance, PTL DEF Spec, GateSpec, Gate!Spec
-----------------------------------------------------------------------------
(***************************************************************************)
(* What the client assembles is what the handler assembled.                *)
(*                                                                         *)
(* The handler keys the calls by their index alone, so this needs an       *)
(* upstream that does not use one index in two choices (OwnIndices).       *)
(***************************************************************************)

(* What one chunk adds to call i of choice ch.                             *)
Part(c, ch, i) == IF c.ch = ch /\ i \in DOMAIN c.tcs THEN Fragment(c.tcs[i]) ELSE <<>>

LEMMA PartTyped ==
  ASSUME NEW c \in Chunk, NEW ch, NEW i
  PROVE  Part(c, ch, i) \in Seq(Pieces \cup {Echo})
<1>1. c.tcs \in [DOMAIN c.tcs -> Sent]
  BY PartialIs DEF Chunk
<1>2. ASSUME i \in DOMAIN c.tcs
      PROVE  Fragment(c.tcs[i]) \in Seq(Pieces \cup {Echo})
  <2>1. c.tcs[i].arg \in Pieces \cup {NoArg, Echo}
    <3>1. c.tcs[i] \in Sent
      BY <1>1, <1>2
    <3> QED
      BY <3>1 DEF Sent
  <2>2. CASE c.tcs[i].arg = NoArg
    BY <2>2 DEF Fragment
  <2>3. CASE c.tcs[i].arg # NoArg
    <3>1. Fragment(c.tcs[i]) = <<c.tcs[i].arg>>
      BY <2>3 DEF Fragment
    <3> QED
      BY <2>1, <2>3, <3>1
  <2> QED
    BY <2>2, <2>3
<1> QED
  BY <1>2 DEF Part

(* What a stream spells out, names and calls with one more chunk.          *)
LEMMA SpelledAppend ==
  ASSUME NEW q \in Seq(Chunk), NEW c \in Chunk, NEW ch, NEW i
  PROVE  /\ Spelled(Append(q, c), ch, i) = Spelled(q, ch, i) \o Part(c, ch, i)
         /\ Spelled(q, ch, i) \in Seq(Pieces \cup {Echo})
         /\ Called(Append(q, c), ch, i) <=>
              Called(q, ch, i) \/ (c.ch = ch /\ i \in DOMAIN c.tcs)
         /\ Named(Append(q, c), ch, i) <=>
              Named(q, ch, i) \/ (c.ch = ch /\ i \in DOMAIN c.tcs /\ c.tcs[i].id)
<1> DEFINE parts(s) == [k \in 1..Len(s) |-> Part(s[k], ch, i)]
           r == Append(q, c)
<1>1. /\ r \in Seq(Chunk) /\ Len(r) = Len(q) + 1 /\ r[Len(r)] = c
      /\ Len(q) \in Nat /\ \A k \in 1..Len(q) : k \in 1..Len(r) /\ r[k] = q[k]
      /\ \A k \in 1..Len(r) : k \in 1..Len(q) \/ k = Len(r)
  OBVIOUS
<1>2. \A s \in Seq(Chunk) : Spelled(s, ch, i) = FlattenSeq(parts(s))
  BY DEF Spelled, Part
<1>3. \A s \in Seq(Chunk) : parts(s) \in Seq(Seq(Pieces \cup {Echo}))
  <2> SUFFICES ASSUME NEW s \in Seq(Chunk)
               PROVE  parts(s) \in Seq(Seq(Pieces \cup {Echo}))
    OBVIOUS
  <2>1. \A k \in 1..Len(s) : Part(s[k], ch, i) \in Seq(Pieces \cup {Echo})
    BY PartTyped
  <2> QED
    BY <2>1
<1>4. parts(r) = Append(parts(q), Part(c, ch, i))
  <2>1. \A k \in 1..Len(r) : Part(r[k], ch, i) = Append(parts(q), Part(c, ch, i))[k]
    BY <1>1
  <2> QED
    BY <1>1, <2>1
<1>5. Spelled(r, ch, i) = Spelled(q, ch, i) \o Part(c, ch, i)
  <2> HIDE DEF parts
  <2>1. FlattenSeq(parts(r)) = FlattenSeq(parts(q)) \o Part(c, ch, i)
    BY <1>3, <1>4, PartTyped, FlattenAppend
  <2> QED
    BY <1>1, <1>2, <2>1
<1>6. Spelled(q, ch, i) \in Seq(Pieces \cup {Echo})
  <2> HIDE DEF parts
  <2> QED
    BY <1>2, <1>3, FlattenTyped
<1>7. Called(r, ch, i) <=> Called(q, ch, i) \/ (c.ch = ch /\ i \in DOMAIN c.tcs)
  <2> HIDE DEF r
  <2> QED
    BY <1>1 DEF Called
<1>8. Named(r, ch, i) <=> Named(q, ch, i) \/ (c.ch = ch /\ i \in DOMAIN c.tcs /\ c.tcs[i].id)
  <2> HIDE DEF r
  <2> QED
    BY <1>1 DEF Named
<1> QED
  BY <1>5, <1>6, <1>7, <1>8

(* A stream without chunks says nothing, and neither does one without      *)
(* tool calls.                                                             *)
LEMMA SpelledNothing ==
  ASSUME NEW q \in Seq(Chunk), NEW ch, NEW i,
         \A k \in 1..Len(q) : DOMAIN q[k].tcs = {}
  PROVE  Spelled(q, ch, i) = <<>> /\ ~Called(q, ch, i) /\ ~Named(q, ch, i)
<1>1. ~Called(q, ch, i) /\ ~Named(q, ch, i)
  BY DEF Called, Named
<1> DEFINE p == [k \in 1..Len(q) |-> Part(q[k], ch, i)]
<1>2. \A k \in 1..Len(q) : p[k] = <<>>
  BY DEF Part
<1>3. Len(p) = Len(q) /\ Len(p) \in Nat /\ p = [k \in 1..Len(p) |-> p[k]]
  OBVIOUS
<1>4. Spelled(q, ch, i) = FlattenSeq(p)
  BY DEF Spelled, Part
<1>5. FlattenSeq(p) = <<>>
  <2> HIDE DEF p
  <2> QED
    BY <1>2, <1>3, FlattenNothing
<1> QED
  BY <1>1, <1>4, <1>5
(* Where the handler is: what a failure ends, and what each phase starts   *)
(* from.                                                                   *)
CourseInv ==
  /\ phase \in {"collect", "judge", "emit", "tail"} => cause = "none" /\ queue = <<>>
  /\ phase = "flush" => cause # "none"
  /\ phase \in {"collect", "judge"} => pos = 1 /\ emitted = {}
  /\ phase \in {"emit", "tail"} \/ Delivered => DOMAIN verdicts = DOMAIN calls

(* The ledger has one row for each verdict.                                *)
RowsInv ==
  /\ IsFiniteSet(DOMAIN verdicts) /\ Len(rows) = Cardinality(DOMAIN verdicts)
  /\ \A i \in DOMAIN verdicts : \E k \in 1..Len(rows) :
       rows[k] = [index |-> i, args |-> calls[i].args, verdict |-> verdicts[i]]

(* Every call that is assembled was sent.                                  *)
SentInv == \A i \in DOMAIN calls : \E ch \in ChoiceIds : Called(received, ch, i)

(* In closed mode the flush does not end the turn in tool calls.           *)
ClosedInv ==
  cause # "none" /\ conf.fail = "closed" =>
    \A k \in 1..Len(queue) : queue[k].fin # "tool_calls"

BaseInv == Inv /\ CourseInv /\ RowsInv /\ SentInv /\ ClosedInv


(* The effect of a failure.                                                *)
LEMMA FailureIs ==
  ASSUME Inv, GuardError \/ UpstreamError \/ \E s \in Shapes : ChunkError(s)
  PROVE  /\ cause' # "none" /\ phase' \in {"flush", "raised"}
         /\ phase \in {"collect", "judge", "emit"}
         /\ UNCHANGED <<conf, buffered, finishChunks, calls, verdicts, rows, pos,
                        emitted, out, keepalives>>
         /\ \/ queue' = queue
            \/ queue' = <<>>
            \/ \E last \in Chunk : queue' = FailureChunks(last)
         /\ received' = received \/ \E s \in Shapes : received' = Append(received, Arrived(s))
<1>1. CASE GuardError
  <2>1. received # <<>>
    BY <1>1 DEF GuardError, Inv, TakenInv, TypeOK, Strips, Blocked, ReplacesNow
  <2>2. Last(received) \in Chunk
    BY <2>1, LastReceived
  <2> QED
    BY <1>1, <2>2 DEF GuardError, Fail
<1>2. ASSUME NEW s \in Shapes, ChunkError(s)
      PROVE  /\ cause' # "none" /\ phase' \in {"flush", "raised"} /\ phase = "collect"
             /\ \/ queue' = <<>>
                \/ \E last \in Chunk : queue' = FailureChunks(last)
             /\ received' = Append(received, Arrived(s))
             /\ UNCHANGED <<conf, buffered, finishChunks, calls, verdicts, rows, pos,
                            emitted, out, keepalives>>
  <2>1. Arrived(s) \in Chunk
    BY ArrivedChunk DEF Inv
  <2> QED
    BY <1>2, <2>1 DEF ChunkError, Fail
<1>3. CASE UpstreamError
  <2>1. received # <<>> => Last(received) \in Chunk
    BY LastReceived
  <2> QED
    BY <1>3, <2>1 DEF UpstreamError, Fail
<1> QED
  BY <1>1, <1>2, <1>3

LEMMA CourseStep ==
  ASSUME Inv, CourseInv, [Next]_vars
  PROVE  CourseInv'
<1>1. CASE \E s \in Shapes : Receive(s)
  BY <1>1 DEF Receive, CourseInv, Delivered
<1>2. CASE Stall
  BY <1>2 DEF Stall, CourseInv, Delivered
<1>3. CASE UpstreamEnds
  BY <1>3 DEF UpstreamEnds, CourseInv, Delivered
<1>4. CASE \E i \in Indices : JudgeCall(i)
  BY <1>4 DEF JudgeCall, CourseInv, Delivered
<1>5. CASE AllJudged
  BY <1>5 DEF AllJudged, CourseInv, Delivered
<1>6. CASE EmitBuffered
  BY <1>6 DEF EmitBuffered, CourseInv, Delivered
<1>7. CASE EndBuffered
  BY <1>7 DEF EndBuffered, CourseInv, Delivered
<1>8. CASE EmitTail
  BY <1>8 DEF EmitTail, CourseInv, Delivered
<1>9. CASE EndTail
  BY <1>9 DEF EndTail, CourseInv, Delivered
<1>10. CASE GuardError \/ UpstreamError \/ \E s \in Shapes : ChunkError(s)
  BY <1>10, FailureIs DEF CourseInv, Delivered
<1>11. CASE EmitFlush
  BY <1>11 DEF EmitFlush, CourseInv, Delivered
<1>12. CASE EndFlush
  BY <1>12 DEF EndFlush, CourseInv, Delivered
<1>13. CASE ClientGone
  BY <1>13 DEF ClientGone, CourseInv, Delivered
<1>14. CASE UNCHANGED vars
  BY <1>14 DEF vars, CourseInv, Delivered
<1> QED
  BY <1>1, <1>2, <1>3, <1>4, <1>5, <1>6, <1>7, <1>8, <1>9, <1>10, <1>11, <1>12, <1>13,
     <1>14 DEF Next, GuardStep, Over

(* Only Receive changes the slots, before any verdict, and only JudgeCall  *)
(* the verdicts and the rows.                                              *)
LEMMA SlotsStay ==
  ASSUME Inv, [Next]_vars, ~ \E s \in Shapes : Receive(s)
  PROVE  /\ UNCHANGED <<conf, calls>>
         /\ received' = received
            \/ (cause' # "none" /\ \E s \in Shapes : received' = Append(received, Arrived(s)))
         /\ UNCHANGED <<verdicts, rows>> \/ \E i \in Indices : JudgeCall(i)
<1>1. CASE GuardError \/ UpstreamError \/ \E s \in Shapes : ChunkError(s)
  BY <1>1, FailureIs
<1>2. CASE \/ Stall \/ UpstreamEnds \/ GuardStep \/ ClientGone \/ UNCHANGED vars
  BY <1>2 DEF Stall, UpstreamEnds, GuardStep, JudgeCall, AllJudged, EmitBuffered, EndBuffered,
     EmitTail, EndTail, EmitFlush, EndFlush, ClientGone, vars
<1> QED
  BY <1>1, <1>2 DEF Next, Over

LEMMA RowsStep ==
  ASSUME Inv, RowsInv, [Next]_vars
  PROVE  RowsInv'
<1>1. ASSUME NEW s \in Shapes, Receive(s) PROVE RowsInv'
  <2>1. DOMAIN verdicts = {} /\ UNCHANGED <<verdicts, rows>>
    BY <1>1 DEF Receive, Inv, VerdictsInv
  <2> QED
    BY <2>1 DEF RowsInv
<1>2. ASSUME NEW i \in Indices, JudgeCall(i) PROVE RowsInv'
  <2> DEFINE v   == Evaluate(calls[i].args)
             row == [index |-> i, args |-> calls[i].args, verdict |-> v]
  <2>1. /\ i \in DOMAIN calls /\ i \notin DOMAIN verdicts
        /\ verdicts' = [j \in DOMAIN verdicts \cup {i} |-> IF j = i THEN v ELSE verdicts[j]]
        /\ rows' = Append(rows, row) /\ UNCHANGED calls /\ rows \in Seq(Row)
    BY <1>2 DEF JudgeCall, Inv, TypeOK
  <2> HIDE DEF v
  <2>2. /\ IsFiniteSet(DOMAIN verdicts')
        /\ Cardinality(DOMAIN verdicts') = Cardinality(DOMAIN verdicts) + 1
    <3>1. DOMAIN verdicts' = DOMAIN verdicts \cup {i}
      BY <2>1
    <3>2. IsFiniteSet(DOMAIN verdicts)
      BY DEF RowsInv
    <3> QED
      BY <2>1, <3>1, <3>2, FS_AddElement
  <2>3. Len(rows') = Len(rows) + 1 /\ rows'[Len(rows) + 1] = row
        /\ Len(rows) \in Nat /\ \A k \in 1..Len(rows) : rows'[k] = rows[k]
    <3> HIDE DEF row
    <3>1. row \in Row
      <4>1. v \in Verdicts
        BY DEF v, Evaluate, Verdicts
      <4>2. calls[i].args \in Seq(Pieces)
        BY <2>1 DEF Inv, TypeOK, Slot
      <4> QED
        BY <4>1, <4>2 DEF row, Row
    <3> QED
      BY <2>1, <3>1
  <2>4. ASSUME NEW j \in DOMAIN verdicts'
        PROVE  \E k \in 1..Len(rows') :
                 rows'[k] = [index |-> j, args |-> calls'[j].args, verdict |-> verdicts'[j]]
    <3>1. CASE j = i
      <4>1. verdicts'[j] = v /\ Len(rows) + 1 \in 1..Len(rows')
        BY <2>1, <2>3, <3>1
      <4> QED
        BY <2>1, <2>3, <3>1, <4>1
    <3>2. CASE j # i
      <4>1. j \in DOMAIN verdicts /\ verdicts'[j] = verdicts[j]
        BY <2>1, <3>2
      <4>2. PICK k \in 1..Len(rows) :
              rows[k] = [index |-> j, args |-> calls[j].args, verdict |-> verdicts[j]]
        BY <4>1 DEF RowsInv
      <4>3. k \in 1..Len(rows') /\ rows'[k] = rows[k]
        BY <2>3
      <4> QED
        BY <2>1, <4>1, <4>2, <4>3
    <3> QED
      BY <3>1, <3>2
  <2> QED
    BY <2>2, <2>3, <2>4 DEF RowsInv
<1>3. CASE UNCHANGED <<calls, verdicts, rows>>
  BY <1>3 DEF RowsInv
<1> QED
  BY <1>1, <1>2, <1>3, SlotsStay

(* A call once sent stays sent.                                            *)
LEMMA CalledStays ==
  ASSUME NEW q \in Seq(Chunk), NEW c \in Chunk, NEW ch, NEW i, Called(q, ch, i)
  PROVE  Called(Append(q, c), ch, i)
BY SpelledAppend

LEMMA SentStep ==
  ASSUME Inv, SentInv, [Next]_vars
  PROVE  SentInv'
<1>1. received \in Seq(Chunk)
  BY DEF Inv, TypeOK
<1>2. \A s \in Shapes : Arrived(s) \in Chunk
  BY ArrivedChunk DEF Inv
<1>3. ASSUME NEW s \in Shapes, Receive(s) PROVE SentInv'
  <2> DEFINE c == Arrived(s)
  <2>1. DOMAIN calls' = DOMAIN calls \cup DOMAIN c.tcs /\ received' = Append(received, c)
    BY <1>3, AccumulateSlots DEF Inv, Receive
  <2>2. c.ch = s.ch /\ c.tcs = s.tcs /\ (DOMAIN s.tcs # {} => s.ch \in ChoiceIds)
    BY ShapesAssumption DEF Arrived, Shape
  <2>3. c \in Chunk
    BY <1>2
  <2> HIDE DEF c
  <2>4. \A ch, i : Called(received', ch, i) <=>
                     Called(received, ch, i) \/ (c.ch = ch /\ i \in DOMAIN c.tcs)
    BY <1>1, <2>1, <2>3, SpelledAppend
  <2>5. \A i \in DOMAIN c.tcs : Called(received', c.ch, i) /\ c.ch \in ChoiceIds
    BY <2>2, <2>4
  <2>6. \A i \in DOMAIN calls : \E ch \in ChoiceIds : Called(received', ch, i)
    BY <2>4 DEF SentInv
  <2> QED
    BY <2>1, <2>5, <2>6 DEF SentInv
<1>4. CASE ~ \E s \in Shapes : Receive(s)
  <2>1. calls' = calls
    BY <1>4, SlotsStay
  <2>2. \A ch, i : Called(received, ch, i) => Called(received', ch, i)
    <3>1. CASE received' = received
      BY <3>1
    <3>2. ASSUME NEW s \in Shapes, received' = Append(received, Arrived(s))
          PROVE  \A ch, i : Called(received, ch, i) => Called(received', ch, i)
      BY <1>1, <1>2, <3>2, CalledStays
    <3> QED
      BY <1>4, <3>1, <3>2, SlotsStay
  <2> QED
    BY <2>1, <2>2 DEF SentInv
<1> QED
  BY <1>3, <1>4

(* What a failure releases in closed mode does not end in tool calls.      *)
LEMMA ClosedChunks ==
  ASSUME TypeOK, NEW last \in Chunk, conf.fail = "closed"
  PROVE  \A k \in 1..Len(FailureChunks(last)) : FailureChunks(last)[k].fin # "tool_calls"
<1> DEFINE ended == [k \in 1..Len(finishChunks) |-> EndTurn(finishChunks[k])]
<1>1. Note(last).fin = "none" /\ Len(finishChunks) \in Nat
  <2>1. Keepalive(last) \in Chunk /\ Keepalive(last).fin = "none"
    BY MadeChunks DEF Keepalive, Chunk
  <2>2. Note(last).fin = Keepalive(last).fin
    BY <2>1 DEF Note, Chunk
  <2> QED
    BY <2>1, <2>2 DEF TypeOK
<1>2. \A c \in Chunk : EndTurn(c).fin # "tool_calls"
  BY DEF EndTurn, Chunk
<1>3. \A k \in 1..Len(finishChunks) : EndTurn(finishChunks[k]).fin # "tool_calls"
  BY <1>2 DEF TypeOK
<1>4. FailureChunks(last) = <<Note(last)>> \o ended
  BY DEF FailureChunks
<1>5. /\ Len(ended) = Len(finishChunks)
      /\ \A k \in 1..Len(ended) : ended[k] = EndTurn(finishChunks[k])
  BY <1>1
<1> HIDE DEF ended
<1>6. \A k \in 1..Len(<<Note(last)>> \o ended) :
        \/ k = 1 /\ (<<Note(last)>> \o ended)[k] = Note(last)
        \/ k - 1 \in 1..Len(ended) /\ (<<Note(last)>> \o ended)[k] = ended[k - 1]
  <2>1. ended \in Seq(Chunk)
    <3>1. \A k \in 1..Len(finishChunks) : EndTurn(finishChunks[k]) \in Chunk
      BY MadeChunks DEF TypeOK
    <3> QED
      BY <1>1, <3>1 DEF ended
  <2>2. <<Note(last)>> \in Seq(Chunk)
    BY MadeChunks
  <2> QED
    BY <2>1, <2>2
<1> QED
  BY <1>1, <1>3, <1>4, <1>5, <1>6

LEMMA ClosedStep ==
  ASSUME Inv, CourseInv, ClosedInv, [Next]_vars
  PROVE  ClosedInv'
<1>1. CASE GuardError \/ UpstreamError \/ \E s \in Shapes : ChunkError(s)
  <2>1. conf' = conf /\ (queue' = <<>> \/ \E last \in Chunk : queue' = FailureChunks(last))
    BY <1>1, FailureIs DEF CourseInv
  <2> QED
    BY <2>1, ClosedChunks DEF Inv, ClosedInv
<1>2. CASE EmitFlush
  <2>1. /\ queue \in Seq(Chunk) /\ queue # <<>> /\ queue' = Tail(queue)
        /\ UNCHANGED <<cause, conf>>
    BY <1>2 DEF EmitFlush, Inv, TypeOK
  <2>2. \A k \in 1..Len(queue') : k + 1 \in 1..Len(queue) /\ queue'[k] = queue[k + 1]
    BY <2>1
  <2> QED
    BY <2>1, <2>2 DEF ClosedInv
<1>3. CASE \/ \E s \in Shapes : Receive(s)
           \/ Stall \/ UpstreamEnds \/ \E i \in Indices : JudgeCall(i)
           \/ AllJudged \/ EmitBuffered \/ EndBuffered \/ EmitTail \/ EndTail \/ EndFlush
           \/ ClientGone \/ UNCHANGED vars
  <2>1. UNCHANGED <<cause, conf, queue>>
    BY <1>3 DEF Receive, Stall, UpstreamEnds, JudgeCall, AllJudged, EmitBuffered, EndBuffered,
       EmitTail, EndTail, EndFlush, ClientGone, vars
  <2> QED
    BY <2>1 DEF ClosedInv
<1> QED
  BY <1>1, <1>2, <1>3 DEF Next, GuardStep, Over

LEMMA InitBaseInv == Init => BaseInv
<1> SUFFICES ASSUME Init PROVE BaseInv
  OBVIOUS
<1>1. Inv
  BY InitInv
<1>2. CourseInv /\ SentInv /\ ClosedInv
  BY DEF Init, CourseInv, SentInv, ClosedInv, Delivered, EmptyCalls
<1>3. RowsInv
  <2>1. DOMAIN verdicts = {} /\ rows = <<>>
    BY DEF Init
  <2> QED
    BY <2>1, FS_EmptySet DEF RowsInv
<1> QED
  BY <1>1, <1>2, <1>3 DEF BaseInv

LEMMA NextBaseInv == BaseInv /\ [Next]_vars => BaseInv'
<1> SUFFICES ASSUME BaseInv, [Next]_vars PROVE BaseInv'
  OBVIOUS
<1> QED
  BY NextInv, CourseStep, RowsStep, SentStep, ClosedStep DEF BaseInv

THEOREM BaseInvariance == Spec => []BaseInv
BY InitBaseInv, NextBaseInv, PTL DEF Spec

(* After a failure in closed mode the client is sent no tool call and no   *)
(* finish reason that announces one, whatever was held.                    *)
THEOREM ClosedMeansClosed == Spec => ClosedStaysClosed
<1>1. ASSUME BaseInv, [Next]_vars, cause # "none", conf.fail = "closed", out' # out
      PROVE  ~HasTools(Last(out')) /\ Last(out').fin # "tool_calls"
  <2>1. EmitFlush
    <3>1. phase \notin {"collect", "judge", "emit", "tail"}
      BY <1>1 DEF BaseInv, CourseInv
    <3>2. ~ \E s \in Shapes : Receive(s)
      BY <3>1 DEF Receive
    <3>3. ~Stall /\ ~EmitBuffered /\ ~EndBuffered /\ ~EmitTail
      BY <3>1 DEF Stall, EmitBuffered, EndBuffered, EmitTail
    <3>4. ~(GuardError \/ UpstreamError \/ \E s \in Shapes : ChunkError(s))
      BY <1>1, FailureIs DEF BaseInv
    <3>5. ~(UpstreamEnds \/ (\E i \in Indices : JudgeCall(i)) \/ AllJudged \/ EndTail
              \/ EndFlush \/ ClientGone \/ UNCHANGED vars)
      BY <1>1 DEF UpstreamEnds, JudgeCall, AllJudged, EndTail, EndFlush, ClientGone, vars
    <3> QED
      BY <1>1, <3>2, <3>3, <3>4, <3>5 DEF Next, GuardStep, Over
  <2>2. /\ out \in Seq(Chunk) /\ queue \in Seq(Chunk) /\ queue # <<>>
        /\ out' = Append(out, queue[1])
    BY <1>1, <2>1 DEF EmitFlush, BaseInv, Inv, TypeOK
  <2>3. Last(out') = queue[1] /\ 1 \in 1..Len(queue)
    BY <2>2 DEF Last
  <2>4. DOMAIN queue[1].tcs = {}
    BY <1>1, <2>3 DEF BaseInv, Inv, BuffersInv, Opened
  <2>5. queue[1].fin # "tool_calls"
    BY <1>1, <2>3 DEF BaseInv, ClosedInv
  <2> QED
    BY <2>3, <2>4, <2>5 DEF HasTools
<1>2. BaseInv /\ [Next]_vars =>
        [cause # "none" /\ conf.fail = "closed" /\ out' # out =>
           ~HasTools(Last(out')) /\ Last(out').fin # "tool_calls"]_vars
  BY <1>1
<1> QED
  BY <1>2, BaseInvariance, PTL DEF Spec, ClosedStaysClosed
(* The deltas of a call are all of one choice.                             *)
Owned(q) == \A k \in 1..Len(q) : \A i \in DOMAIN q[k].tcs : Owns(q[k].ch, i)
OwnedInv == Owned(received) /\ Owned(buffered) /\ (Opened \/ Owned(out))

(* The slots hold what the stream spelled, as far as the handler took it.  *)
Assembles ==
  \A ch \in ChoiceIds : \A i \in Indices : Owns(ch, i) =>
    /\ SlotOf(i).args = Spelled(received, ch, i)
    /\ SlotOf(i).id <=> Named(received, ch, i)
    /\ i \in DOMAIN calls <=> Called(received, ch, i)
AssembledInv ==
  \/ Assembles
  \/ cause # "none" /\ (Opened \/ \A k \in 1..Len(out) : ~HasTools(out[k]))

SpelledInv == BaseInv /\ OwnedInv /\ AssembledInv


(* A stream of owned chunks with one more.                                 *)
LEMMA OwnedAppend ==
  ASSUME NEW q \in Seq(Chunk), NEW c \in Chunk, Owned(q),
         \A i \in DOMAIN c.tcs : Owns(c.ch, i)
  PROVE  Owned(Append(q, c))
<1>1. \A k \in 1..Len(Append(q, c)) :
        (k \in 1..Len(q) /\ Append(q, c)[k] = q[k]) \/ Append(q, c)[k] = c
  BY AppendIs
<1> QED
  BY <1>1 DEF Owned

(* A chunk without calls is owned whatever its choice.                     *)
LEMMA ArrivedOwned ==
  ASSUME NEW s \in Shapes
  PROVE  \A i \in DOMAIN Arrived(s).tcs : Owns(Arrived(s).ch, i)
BY DEF Arrived, Owns

LEMMA OwnerIs ==
  ASSUME NEW ch, NEW i, Owns(ch, i)
  PROVE  ch \in ChoiceIds
BY ShapesAssumption DEF Owns, Shape

(* What EmitBuffered releases and what it leaves in its place.             *)
LEMMA EmitIs ==
  ASSUME Inv, EmitBuffered
  PROVE  LET c == Screen(buffered[pos]) IN
         /\ phase = "emit" /\ pos \in 1..Len(buffered)
         /\ buffered[pos] \in Chunk /\ c \in Chunk
         /\ buffered' = [buffered EXCEPT ![pos] = c]
         /\ Len(buffered') = Len(buffered) /\ buffered' \in Seq(Chunk)
         /\ \A k \in 1..Len(buffered) : buffered'[k] = IF k = pos THEN c ELSE buffered[k]
         /\ \/ out' = Append(out, c)
            \/ out' = out /\ Blocked # {} /\ ~Keeps(c)
         /\ Keeps(c) => out' = Append(out, c)
         /\ emitted' = emitted \cup (IF Rewrites THEN Blocked \cap DOMAIN buffered[pos].tcs ELSE {})
         /\ pos' = pos + 1
         /\ UNCHANGED <<conf, phase, received, finishChunks, calls, verdicts, rows,
                        queue, cause, keepalives>>
         /\ c.ch = buffered[pos].ch /\ c.text = buffered[pos].text
         /\ c.fin = buffered[pos].fin /\ c.n = buffered[pos].n
         /\ DOMAIN c.tcs = {i \in DOMAIN buffered[pos].tcs :
                              i \notin Blocked \/ (Rewrites /\ i \notin emitted)}
         /\ \A i \in DOMAIN c.tcs :
              c.tcs[i] = IF i \in Blocked THEN Replacement(buffered[pos], i) ELSE buffered[pos].tcs[i]
<1> DEFINE b == buffered[pos]
           c == Screen(b)
           stay == {i \in DOMAIN b.tcs : i \notin Blocked \/ (Rewrites /\ i \notin emitted)}
           t    == [i \in stay |-> IF i \in Blocked THEN Replacement(b, i) ELSE b.tcs[i]]
<1>1. phase = "emit" /\ pos \in 1..Len(buffered) /\ buffered \in Seq(Chunk)
  BY DEF EmitBuffered, Inv, TypeOK
<1>2. b \in Chunk
  BY <1>1
<1>3. c \in Chunk
  BY <1>2, ScreenChunk
<1>4. c = [b EXCEPT !.tcs = t]
  BY DEF Screen
<1>5. c.ch = b.ch /\ c.text = b.text /\ c.fin = b.fin /\ c.n = b.n /\ c.tcs = t
  <2> HIDE DEF t
  <2> QED
    BY <1>2, <1>4 DEF Chunk
<1>6. buffered' = [buffered EXCEPT ![pos] = c]
  BY DEF EmitBuffered
<1>7. /\ out' = IF Blocked = {} \/ Keeps(c) THEN Append(out, c) ELSE out
      /\ emitted' = emitted \cup (IF Rewrites THEN Blocked \cap DOMAIN b.tcs ELSE {})
      /\ pos' = pos + 1
      /\ UNCHANGED <<conf, phase, received, finishChunks, calls, verdicts, rows,
                     queue, cause, keepalives>>
  BY DEF EmitBuffered
<1>8. DOMAIN t = stay /\ \A i \in stay :
        t[i] = IF i \in Blocked THEN Replacement(b, i) ELSE b.tcs[i]
  OBVIOUS
<1> HIDE DEF c, t
<1>9. /\ Len(buffered') = Len(buffered) /\ buffered' \in Seq(Chunk)
      /\ \A k \in 1..Len(buffered) : buffered'[k] = IF k = pos THEN c ELSE buffered[k]
  BY <1>1, <1>3, <1>6
<1> QED
  BY <1>1, <1>2, <1>3, <1>5, <1>6, <1>7, <1>8, <1>9 DEF c

(* The steps that only yield a chunk without calls, or none.               *)
QuietStep ==
  \/ Stall \/ UpstreamEnds \/ (\E i \in Indices : JudgeCall(i)) \/ AllJudged
  \/ EndBuffered \/ EmitTail \/ EndTail \/ EndFlush \/ ClientGone \/ UNCHANGED vars

LEMMA QuietIs ==
  ASSUME Inv, QuietStep
  PROVE  /\ UNCHANGED <<conf, received, buffered, calls, cause, queue, emitted>>
         /\ out' = out \/ \E c \in Chunk : DOMAIN c.tcs = {} /\ out' = Append(out, c)
<1>1. CASE Stall
  <2>1. received # <<>>
    BY <1>1 DEF Stall, Inv, TakenInv
  <2>2. Keepalive(Last(received)) \in Chunk /\ DOMAIN Keepalive(Last(received)).tcs = {}
    BY <2>1, LastReceived, MadeChunks
  <2> QED
    BY <1>1, <2>2 DEF Stall
<1>2. CASE EndBuffered
  <2>1. ASSUME Strips
        PROVE  Note(Last(received)) \in Chunk /\ DOMAIN Note(Last(received)).tcs = {}
    <3>1. received # <<>>
      BY <2>1 DEF Strips, Blocked, Inv, TypeOK, TakenInv
    <3> QED
      BY <3>1, LastReceived, MadeChunks
  <2> QED
    BY <1>2, <2>1 DEF EndBuffered
<1>3. CASE EmitTail
  <2> DEFINE c == IF AllStripped THEN EndTurn(finishChunks[pos]) ELSE finishChunks[pos]
  <2>1. pos \in 1..Len(finishChunks) /\ out' = Append(out, c)
        /\ UNCHANGED <<conf, received, buffered, calls, cause, queue, emitted>>
    BY <1>3 DEF EmitTail, Inv, TypeOK
  <2>2. finishChunks[pos] \in Chunk /\ DOMAIN finishChunks[pos].tcs = {}
    BY <2>1 DEF Inv, TypeOK, BuffersInv
  <2>3. c \in Chunk /\ DOMAIN c.tcs = {}
    BY <2>2, MadeChunks
  <2> HIDE DEF c
  <2> QED
    BY <2>1, <2>3
<1>4. CASE \/ UpstreamEnds \/ (\E i \in Indices : JudgeCall(i)) \/ AllJudged \/ EndTail
           \/ EndFlush \/ ClientGone \/ UNCHANGED vars
  BY <1>4 DEF UpstreamEnds, JudgeCall, AllJudged, EndTail, EndFlush, ClientGone, vars
<1> QED
  BY <1>1, <1>2, <1>3, <1>4 DEF QuietStep

LEMMA StepKinds ==
  ASSUME [Next]_vars
  PROVE  \/ \E s \in Shapes : Receive(s)
         \/ EmitBuffered
         \/ GuardError \/ UpstreamError \/ \E s \in Shapes : ChunkError(s)
         \/ EmitFlush
         \/ QuietStep
BY DEF Next, GuardStep, Over, QuietStep

LEMMA OwnedStep ==
  ASSUME Inv, OwnedInv, [Next]_vars
  PROVE  OwnedInv'
<1>1. received \in Seq(Chunk) /\ buffered \in Seq(Chunk) /\ out \in Seq(Chunk)
  BY DEF Inv, TypeOK
<1>2. \A s \in Shapes : Arrived(s) \in Chunk
  BY ArrivedChunk DEF Inv
<1>3. \A s \in Shapes : \A q \in Seq(Chunk) : Owned(q) => Owned(Append(q, Arrived(s)))
  BY <1>2, ArrivedOwned, OwnedAppend
<1>4. ASSUME NEW s \in Shapes, Receive(s) PROVE OwnedInv'
  <2>1. /\ received' = Append(received, Arrived(s))
        /\ buffered' = buffered \/ buffered' = Append(buffered, Arrived(s))
        /\ out' = out \/ out' = Append(out, Arrived(s))
        /\ UNCHANGED <<conf, cause>>
    BY <1>4 DEF Receive
  <2> QED
    BY <1>1, <1>3, <2>1 DEF OwnedInv, Opened
<1>5. CASE EmitBuffered
  <2> DEFINE c == Screen(buffered[pos])
  <2>1. /\ pos \in 1..Len(buffered) /\ c \in Chunk /\ c.ch = buffered[pos].ch
        /\ DOMAIN c.tcs \subseteq DOMAIN buffered[pos].tcs
        /\ Len(buffered') = Len(buffered)
        /\ \A k \in 1..Len(buffered) : buffered'[k] = IF k = pos THEN c ELSE buffered[k]
        /\ out' = out \/ out' = Append(out, c)
        /\ UNCHANGED <<conf, cause, received>>
    BY <1>5, EmitIs
  <2> HIDE DEF c
  <2>2. \A i \in DOMAIN c.tcs : Owns(c.ch, i)
    BY <2>1 DEF OwnedInv, Owned
  <2>3. Owned(buffered')
    BY <2>1, <2>2 DEF OwnedInv, Owned
  <2>4. Owned(out) => Owned(out')
    BY <1>1, <2>1, <2>2, OwnedAppend
  <2> QED
    BY <2>1, <2>3, <2>4 DEF OwnedInv, Opened
<1>6. CASE GuardError \/ UpstreamError \/ \E s \in Shapes : ChunkError(s)
  <2>1. /\ UNCHANGED <<conf, buffered, out>> /\ cause' # "none"
        /\ received' = received \/ \E s \in Shapes : received' = Append(received, Arrived(s))
    BY <1>6, FailureIs
  <2>2. Owned(received')
    BY <1>1, <1>3, <2>1 DEF OwnedInv
  <2> QED
    BY <2>1, <2>2 DEF OwnedInv, Opened
<1>7. CASE EmitFlush
  <2>1. /\ queue \in Seq(Chunk) /\ queue # <<>> /\ out' = Append(out, queue[1])
        /\ UNCHANGED <<conf, cause, buffered, received>>
    BY <1>7 DEF EmitFlush, Inv, TypeOK
  <2>2. queue[1] \in Chunk /\ 1 \in 1..Len(queue)
    BY <2>1
  <2>3. ~Opened => DOMAIN queue[1].tcs = {}
    BY <2>2 DEF Inv, BuffersInv
  <2>4. ~Opened => Owned(out')
    BY <1>1, <2>1, <2>2, <2>3, OwnedAppend DEF OwnedInv
  <2> QED
    BY <2>1, <2>4 DEF OwnedInv, Opened
<1>8. CASE QuietStep
  <2>1. /\ UNCHANGED <<conf, received, buffered, cause>>
        /\ out' = out \/ \E c \in Chunk : DOMAIN c.tcs = {} /\ out' = Append(out, c)
    BY <1>8, QuietIs
  <2>2. Owned(out) => Owned(out')
    BY <1>1, <2>1, OwnedAppend
  <2> QED
    BY <2>1, <2>2 DEF OwnedInv, Opened
<1> QED
  BY <1>4, <1>5, <1>6, <1>7, <1>8, StepKinds

LEMMA SlotFields ==
  ASSUME NEW r, NEW a, NEW b \in BOOLEAN, r = [args |-> a, id |-> b]
  PROVE  r.args = a /\ (r.id <=> b)
OBVIOUS

(* Once a closed failure found nothing of a call out, nothing goes out.    *)
LEMMA AssembledStep ==
  ASSUME OwnIndices, BaseInv, OwnedInv, AssembledInv, [Next]_vars
  PROVE  AssembledInv'
<1>0. Inv /\ received \in Seq(Chunk) /\ out \in Seq(Chunk)
  BY DEF BaseInv, Inv, TypeOK
<1>1. ASSUME NEW s \in Shapes, Receive(s) PROVE AssembledInv'
  <2> DEFINE c == Arrived(s)
  <2>1. phase = "collect" /\ cause = "none"
    BY <1>1 DEF Receive, BaseInv, CourseInv
  <2>2. Assembles
    BY <2>1 DEF AssembledInv
  <2>3. /\ received' = Append(received, c) /\ calls' = Accumulate(c)
        /\ DOMAIN calls' = DOMAIN calls \cup DOMAIN c.tcs
    BY <1>0, <1>1, AccumulateSlots DEF Receive, Inv
  <2>4. c \in Chunk /\ \A i \in DOMAIN c.tcs : Owns(c.ch, i)
    BY <1>0, ArrivedChunk, ArrivedOwned DEF Inv
  <2>5. \A i \in DOMAIN c.tcs :
          calls'[i] = [args |-> SlotOf(i).args \o Fragment(c.tcs[i]),
                       id   |-> SlotOf(i).id \/ c.tcs[i].id]
    BY <2>3 DEF Accumulate
  <2>6. \A i : i \notin DOMAIN c.tcs => SlotOf(i)' = SlotOf(i)
    BY <2>3 DEF Accumulate, SlotOf
  <2>7. \A i \in DOMAIN c.tcs : SlotOf(i)' = calls'[i]
    BY <2>3 DEF SlotOf
  <2> HIDE DEF c
  <2>8. ASSUME NEW ch \in ChoiceIds, NEW i \in Indices, Owns(ch, i)
        PROVE  /\ SlotOf(i)'.args = Spelled(received', ch, i)
               /\ SlotOf(i)'.id <=> Named(received', ch, i)
               /\ i \in DOMAIN calls' <=> Called(received', ch, i)
    <3>1. /\ Spelled(received', ch, i) = Spelled(received, ch, i) \o Part(c, ch, i)
          /\ Spelled(received, ch, i) \in Seq(Pieces \cup {Echo})
          /\ Called(received', ch, i) <=>
               Called(received, ch, i) \/ (c.ch = ch /\ i \in DOMAIN c.tcs)
          /\ Named(received', ch, i) <=>
               Named(received, ch, i) \/ (c.ch = ch /\ i \in DOMAIN c.tcs /\ c.tcs[i].id)
      BY <1>0, <2>3, <2>4, SpelledAppend
    <3>2. /\ SlotOf(i).args = Spelled(received, ch, i)
          /\ SlotOf(i).id <=> Named(received, ch, i)
          /\ i \in DOMAIN calls <=> Called(received, ch, i)
      BY <2>2, <2>8 DEF Assembles
    <3>3. CASE i \in DOMAIN c.tcs
      <4>1. c.ch = ch
        BY <2>4, <2>8, <3>3, OwnerIs DEF OwnIndices
      <4>2. Part(c, ch, i) = Fragment(c.tcs[i])
        BY <3>3, <4>1 DEF Part
      <4>3. SlotOf(i)' = [args |-> SlotOf(i).args \o Fragment(c.tcs[i]),
                          id   |-> SlotOf(i).id \/ c.tcs[i].id]
        BY <2>5, <2>7, <3>3, Zenon
      <4>4. SlotOf(i)'.args = Spelled(received', ch, i)
        BY <3>1, <3>2, <4>2, <4>3
      <4>5. SlotOf(i)'.id <=> SlotOf(i).id \/ c.tcs[i].id
        <5> DEFINE a == SlotOf(i).args \o Fragment(c.tcs[i])
                   b == SlotOf(i).id \/ c.tcs[i].id
        <5>1. b \in BOOLEAN
          OBVIOUS
        <5>2. SlotOf(i)' = [args |-> a, id |-> b]
          BY <4>3
        <5> HIDE DEF a, b
        <5>3. SlotOf(i)'.id <=> b
          BY <5>1, <5>2, SlotFields, Zenon
        <5> QED
          BY <5>3 DEF b
      <4>6. SlotOf(i)'.id <=> Named(received', ch, i)
        BY <3>1, <3>2, <3>3, <4>1, <4>5
      <4>7. i \in DOMAIN calls' <=> Called(received', ch, i)
        BY <2>3, <3>1, <3>3, <4>1
      <4> QED
        BY <4>4, <4>6, <4>7
    <3>4. CASE i \notin DOMAIN c.tcs
      <4>1. Part(c, ch, i) = <<>>
        BY <3>4 DEF Part
      <4>2. Spelled(received', ch, i) = Spelled(received, ch, i)
        BY <3>1, <4>1
      <4>3. SlotOf(i)' = SlotOf(i)
        BY <2>6, <3>4
      <4> QED
        BY <2>3, <3>1, <3>2, <3>4, <4>2, <4>3
    <3> QED
      BY <3>3, <3>4
  <2> QED
    BY <2>8 DEF AssembledInv, Assembles
<1>2. CASE ~ \E s \in Shapes : Receive(s)
  <2>1. /\ UNCHANGED <<conf, calls>>
        /\ received' = received
           \/ (cause' # "none" /\ \E s \in Shapes : received' = Append(received, Arrived(s)))
    BY <1>0, <1>2, SlotsStay
  <2>2. CASE received' # received
    <3>1. ~EmitBuffered /\ ~EmitFlush /\ ~QuietStep
      BY <1>0, <2>2, QuietIs DEF EmitBuffered, EmitFlush
    <3>2. \E s \in Shapes : ChunkError(s)
      BY <1>2, <2>2, <3>1, StepKinds DEF GuardError, UpstreamError
    <3>3. phase = "collect" /\ out' = out /\ cause' # "none"
      BY <3>2 DEF ChunkError, Fail
    <3>4. \A k \in 1..Len(out) : ~HasTools(out[k])
      BY <3>3 DEF BaseInv, Inv, VerdictsInv, ReleasedOnVerdict, Opened, HasTools
    <3> QED
      BY <3>3, <3>4 DEF AssembledInv, HasTools
  <2>3. CASE received' = received /\ Assembles
    BY <2>1, <2>3 DEF AssembledInv, Assembles, SlotOf
  <2>4. CASE received' = received /\ ~Assembles
    <3>1. cause # "none" /\ (Opened \/ \A k \in 1..Len(out) : ~HasTools(out[k]))
      BY <2>4 DEF AssembledInv
    <3>2. phase \notin {"collect", "judge", "emit", "tail"}
      BY <3>1 DEF BaseInv, CourseInv
    <3>3. ~EmitBuffered /\ ~(GuardError \/ UpstreamError \/ \E s \in Shapes : ChunkError(s))
      BY <1>0, <3>2, FailureIs DEF EmitBuffered
    <3>4. CASE EmitFlush
      <4>1. /\ queue \in Seq(Chunk) /\ queue # <<>> /\ out' = Append(out, queue[1])
            /\ cause' = cause
        BY <1>0, <3>4 DEF EmitFlush, Inv, TypeOK
      <4>2. queue[1] \in Chunk /\ 1 \in 1..Len(queue)
        BY <4>1
      <4>3. ~Opened => DOMAIN queue[1].tcs = {}
        BY <1>0, <4>2 DEF Inv, BuffersInv
      <4>4. \A k \in 1..Len(out') : (k \in 1..Len(out) /\ out'[k] = out[k]) \/ out'[k] = queue[1]
        BY <1>0, <4>1, <4>2, AppendIs
      <4> QED
        BY <2>1, <3>1, <4>1, <4>3, <4>4 DEF AssembledInv, Opened, HasTools
    <3>5. CASE QuietStep
      <4>1. cause' = cause
            /\ (out' = out \/ \E c \in Chunk : DOMAIN c.tcs = {} /\ out' = Append(out, c))
        BY <1>0, <3>5, QuietIs
      <4>2. \A k \in 1..Len(out') : (k \in 1..Len(out) /\ out'[k] = out[k]) \/ ~HasTools(out'[k])
        <5>1. ASSUME NEW c \in Chunk, DOMAIN c.tcs = {}, out' = Append(out, c)
              PROVE  \A k \in 1..Len(out') :
                       (k \in 1..Len(out) /\ out'[k] = out[k]) \/ ~HasTools(out'[k])
          BY <1>0, <5>1, AppendIs DEF HasTools
        <5> QED
          BY <4>1, <5>1
      <4> QED
        BY <2>1, <3>1, <4>1, <4>2 DEF AssembledInv, Opened, HasTools
    <3> QED
      BY <1>2, <3>3, <3>4, <3>5, StepKinds
  <2> QED
    BY <2>2, <2>3, <2>4
<1> QED
  BY <1>1, <1>2

LEMMA InitSpelledInv == Init => SpelledInv
<1> SUFFICES ASSUME Init PROVE SpelledInv
  OBVIOUS
<1>1. BaseInv
  BY InitBaseInv
<1>2. OwnedInv
  BY DEF Init, OwnedInv, Owned
<1>3. Assembles
  <2>1. /\ <<>> \in Seq(Chunk) /\ received = <<>> /\ DOMAIN calls = {}
        /\ \A i : SlotOf(i) = [args |-> <<>>, id |-> FALSE]
    BY DEF Init, EmptyCalls, SlotOf
  <2>2. \A ch, i : Spelled(received, ch, i) = <<>> /\ ~Called(received, ch, i) /\ ~Named(received, ch, i)
    <3>1. \A k \in 1..Len(<<>>) : DOMAIN <<>>[k].tcs = {}
      OBVIOUS
    <3> QED
      BY <2>1, <3>1, SpelledNothing
  <2> QED
    BY <2>1, <2>2 DEF Assembles
<1> QED
  BY <1>1, <1>2, <1>3 DEF SpelledInv, AssembledInv

THEOREM SpelledInvariance ==
  ASSUME OwnIndices
  PROVE  Spec => []SpelledInv
<1>1. Init => SpelledInv
  BY InitSpelledInv
<1>2. SpelledInv /\ [Next]_vars => SpelledInv'
  BY NextBaseInv, OwnedStep, AssembledStep DEF SpelledInv, BaseInv
<1> QED
  BY <1>1, <1>2, PTL DEF Spec

(* For any upstream that keeps its choices' indices apart, any rules and   *)
(* any cut of the calls into deltas: no delta of a call reaches the client *)
(* if what the upstream spelled of that call over the whole stream matches *)
(* a block rule, unless the guard failed open.                             *)
THEOREM BlockedCallsStay ==
  ASSUME OwnIndices
  PROVE  Spec => []NoBlockedCallDelivered
<1>1. SpelledInv => NoBlockedCallDelivered
  <2> SUFFICES ASSUME SpelledInv, NEW k \in 1..Len(out), NEW i \in DOMAIN out[k].tcs,
                      out[k].tcs[i].arg # Echo, ~Opened
               PROVE  Evaluate(Spelled(received, out[k].ch, i)) # "block"
    BY DEF NoBlockedCallDelivered
  <2>1. i \in DOMAIN verdicts /\ Evaluate(calls[i].args) # "block"
    BY DEF SpelledInv, BaseInv, Inv, ReleasedOnVerdict
  <2>2. i \in DOMAIN calls /\ i \in Indices
    BY <2>1 DEF SpelledInv, BaseInv, Inv, TypeOK
  <2>3. Owns(out[k].ch, i) /\ out[k].ch \in ChoiceIds
    BY OwnerIs DEF SpelledInv, OwnedInv, Owned
  <2>4. Assembles
    BY DEF SpelledInv, AssembledInv, HasTools
  <2>5. calls[i].args = Spelled(received, out[k].ch, i)
    BY <2>2, <2>3, <2>4 DEF Assembles, SlotOf
  <2> QED
    BY <2>1, <2>5
<1> QED
  BY <1>1, SpelledInvariance, PTL

(* Before anything held is released the ledger has one row for each call,  *)
(* with all of its arguments and the verdict on them.                      *)
THEOREM LedgerIsComplete ==
  ASSUME OwnIndices
  PROVE  Spec => []LedgerComplete
<1>1. SpelledInv => LedgerComplete
  <2> SUFFICES ASSUME SpelledInv, phase \in {"emit", "tail"} \/ Delivered
               PROVE  LedgerComplete
    BY DEF LedgerComplete
  <2>1. DOMAIN verdicts = DOMAIN calls /\ cause = "none" /\ DOMAIN calls \subseteq Indices
    BY DEF SpelledInv, BaseInv, CourseInv, Delivered, Inv, TypeOK
  <2>2. Assembles
    BY <2>1 DEF SpelledInv, AssembledInv
  <2>3. ASSUME NEW ch, NEW i, Called(received, ch, i)
        PROVE  Owns(ch, i) /\ ch \in ChoiceIds
    BY <2>3, OwnerIs DEF Called, SpelledInv, OwnedInv, Owned
  <2>4. {i \in Indices : \E ch \in ChoiceIds : Called(received, ch, i)} = DOMAIN calls
    <3>1. \A i \in DOMAIN calls : \E ch \in ChoiceIds : Called(received, ch, i)
      BY DEF SpelledInv, BaseInv, SentInv
    <3>2. \A i \in Indices : \A ch \in ChoiceIds : Called(received, ch, i) => i \in DOMAIN calls
      BY <2>2, <2>3 DEF Assembles
    <3> QED
      BY <2>1, <3>1, <3>2
  <2>5. ASSUME NEW ch \in ChoiceIds, NEW i \in Indices, Called(received, ch, i)
        PROVE  \E k \in 1..Len(rows) :
                 LET args == Spelled(received, ch, i)
                 IN  rows[k] = [index |-> i, args |-> args, verdict |-> Evaluate(args)]
    <3>1. Owns(ch, i) /\ i \in DOMAIN calls
      BY <2>3, <2>4, <2>5
    <3>2. calls[i].args = Spelled(received, ch, i)
      BY <2>2, <3>1 DEF Assembles, SlotOf
    <3>3. verdicts[i] = Evaluate(calls[i].args)
      BY <2>1, <3>1 DEF SpelledInv, BaseInv, Inv, VerdictsInv
    <3>4. PICK k \in 1..Len(rows) :
            rows[k] = [index |-> i, args |-> calls[i].args, verdict |-> verdicts[i]]
      BY <2>1, <3>1 DEF SpelledInv, BaseInv, RowsInv
    <3> QED
      BY <3>2, <3>3, <3>4
  <2>6. Len(rows) = Cardinality(DOMAIN calls)
    BY <2>1 DEF SpelledInv, BaseInv, RowsInv
  <2> QED
    BY <2>4, <2>5, <2>6 DEF LedgerComplete
<1> QED
  BY <1>1, SpelledInvariance, PTL
-----------------------------------------------------------------------------
(***************************************************************************)
(* What the client assembles of each call is its verdict.                  *)
(***************************************************************************)

(* The same call in two streams.                                           *)
Agree(q, r, ch, i) ==
  /\ Spelled(q, ch, i) = Spelled(r, ch, i)
  /\ Called(q, ch, i) <=> Called(r, ch, i)
  /\ Named(q, ch, i) <=> Named(r, ch, i)

(* Two streams whose chunks have the same deltas of the call.              *)
LEMMA AgreeSame ==
  ASSUME NEW q \in Seq(Chunk), NEW r \in Seq(Chunk), NEW ch, NEW i, Len(q) = Len(r),
         \A k \in 1..Len(q) :
           /\ q[k].ch = ch /\ i \in DOMAIN q[k].tcs <=> r[k].ch = ch /\ i \in DOMAIN r[k].tcs
           /\ q[k].ch = ch /\ i \in DOMAIN q[k].tcs => q[k].tcs[i] = r[k].tcs[i]
  PROVE  Agree(q, r, ch, i)
<1>1. (Called(q, ch, i) <=> Called(r, ch, i)) /\ (Named(q, ch, i) <=> Named(r, ch, i))
  BY DEF Called, Named
<1>2. \A k \in 1..Len(q) : Part(q[k], ch, i) = Part(r[k], ch, i)
  BY DEF Part
<1>3. [k \in 1..Len(q) |-> Part(q[k], ch, i)] = [k \in 1..Len(r) |-> Part(r[k], ch, i)]
  BY <1>2
<1>4. Spelled(q, ch, i) = FlattenSeq([k \in 1..Len(q) |-> Part(q[k], ch, i)])
  BY DEF Spelled, Part
<1>5. Spelled(r, ch, i) = FlattenSeq([k \in 1..Len(r) |-> Part(r[k], ch, i)])
  BY DEF Spelled, Part
<1>6. Spelled(q, ch, i) = Spelled(r, ch, i)
  BY <1>3, <1>4, <1>5, Zenon
<1> QED
  BY <1>1, <1>6 DEF Agree

(* One more chunk in both; one more chunk without the call in one.         *)
LEMMA AgreeAppend ==
  ASSUME NEW q \in Seq(Chunk), NEW r \in Seq(Chunk), NEW c \in Chunk, NEW ch, NEW i,
         Agree(q, r, ch, i)
  PROVE  Agree(Append(q, c), Append(r, c), ch, i)
<1>1. /\ Spelled(Append(q, c), ch, i) = Spelled(q, ch, i) \o Part(c, ch, i)
      /\ Called(Append(q, c), ch, i) <=>
           Called(q, ch, i) \/ (c.ch = ch /\ i \in DOMAIN c.tcs)
      /\ Named(Append(q, c), ch, i) <=>
           Named(q, ch, i) \/ (c.ch = ch /\ i \in DOMAIN c.tcs /\ c.tcs[i].id)
  BY SpelledAppend
<1>2. /\ Spelled(Append(r, c), ch, i) = Spelled(r, ch, i) \o Part(c, ch, i)
      /\ Called(Append(r, c), ch, i) <=>
           Called(r, ch, i) \/ (c.ch = ch /\ i \in DOMAIN c.tcs)
      /\ Named(Append(r, c), ch, i) <=>
           Named(r, ch, i) \/ (c.ch = ch /\ i \in DOMAIN c.tcs /\ c.tcs[i].id)
  BY SpelledAppend
<1> QED
  BY <1>1, <1>2, Zenon DEF Agree

LEMMA AgreeQuiet ==
  ASSUME NEW q \in Seq(Chunk), NEW c \in Chunk, NEW ch, NEW i, i \notin DOMAIN c.tcs
  PROVE  Agree(Append(q, c), q, ch, i)
<1>1. Part(c, ch, i) = <<>>
  BY DEF Part
<1>2. /\ Spelled(q, ch, i) \in Seq(Pieces \cup {Echo})
      /\ Spelled(Append(q, c), ch, i) = Spelled(q, ch, i) \o Part(c, ch, i)
      /\ Called(Append(q, c), ch, i) <=>
           Called(q, ch, i) \/ (c.ch = ch /\ i \in DOMAIN c.tcs)
      /\ Named(Append(q, c), ch, i) <=>
           Named(q, ch, i) \/ (c.ch = ch /\ i \in DOMAIN c.tcs /\ c.tcs[i].id)
  BY SpelledAppend
<1>3. Spelled(q, ch, i) \o <<>> = Spelled(q, ch, i)
  BY <1>2
<1>4. Spelled(Append(q, c), ch, i) = Spelled(q, ch, i)
  BY <1>1, <1>2, <1>3
<1> QED
  BY <1>2, <1>4 DEF Agree

(* The held chunks still spell what the stream spelled of every call that  *)
(* is not blocked, and name every call that is rewritten.                  *)
HeldInv ==
  phase \in {"collect", "judge", "emit"} =>
    /\ \A k \in 1..Len(buffered) : \A i \in DOMAIN buffered[k].tcs :
         buffered[k].tcs[i].id => calls[i].id
    /\ \A ch \in ChoiceIds : \A i \in Indices : Owns(ch, i) =>
         /\ i \notin Blocked => Agree(buffered, received, ch, i)
         /\ Rewrites => (Called(buffered, ch, i) <=> Called(received, ch, i))

(* What is out of each call is what the released chunks spell of it, or    *)
(* its replacement, once.                                                  *)
Released == SubSeq(buffered, 1, pos - 1)
ReplacedOnce(ch, i) ==
  /\ Called(out, ch, i) <=> i \in emitted
  /\ Spelled(out, ch, i) = IF i \in emitted THEN <<Echo>> ELSE <<>>
  /\ i \in emitted => (Named(out, ch, i) <=> calls[i].id)
ReleasedInv ==
  phase \in {"collect", "judge", "emit"} =>
    /\ pos <= Len(buffered) + 1
    /\ ~Rewrites => emitted = {}
    /\ \A ch \in ChoiceIds : \A i \in Indices : Owns(ch, i) =>
         /\ i \notin Blocked => Agree(out, Released, ch, i)
         /\ i \in Blocked => ReplacedOnce(ch, i)
         /\ i \in Blocked /\ Rewrites => (i \in emitted <=> Called(Released, ch, i))

(* The same when all of them are released.                                 *)
ThroughInv ==
  phase = "tail" \/ Delivered =>
    \A ch \in ChoiceIds : \A i \in Indices : Owns(ch, i) =>
      /\ i \notin Blocked => Agree(out, received, ch, i)
      /\ i \in Blocked =>
           /\ ReplacedOnce(ch, i)
           /\ i \in emitted <=> Rewrites /\ Called(received, ch, i)

ClientInv == SpelledInv /\ HeldInv /\ ReleasedInv /\ ThroughInv

(* Yielding a chunk without calls, or nothing, changes no call.            *)
LEMMA QuietAgree ==
  ASSUME out \in Seq(Chunk),
         out' = out \/ \E c \in Chunk : DOMAIN c.tcs = {} /\ out' = Append(out, c)
  PROVE  \A ch, i : Agree(out', out, ch, i)
<1>1. CASE out' = out
  BY <1>1 DEF Agree
<1>2. ASSUME NEW c \in Chunk, DOMAIN c.tcs = {}, out' = Append(out, c)
      PROVE  \A ch, i : Agree(out', out, ch, i)
  BY <1>2, AgreeQuiet
<1> QED
  BY <1>1, <1>2

LEMMA ReceiveClient ==
  ASSUME ClientInv, NEW s \in Shapes, Receive(s)
  PROVE  HeldInv' /\ ReleasedInv' /\ ThroughInv'
<1> DEFINE c == Arrived(s)
<1>0. Inv /\ BaseInv /\ received \in Seq(Chunk) /\ buffered \in Seq(Chunk) /\ out \in Seq(Chunk)
  BY DEF ClientInv, SpelledInv, BaseInv, Inv, TypeOK
<1>1. /\ phase = "collect" /\ phase' = "collect" /\ cause = "none" /\ Blocked = {} /\ Blocked' = {}
      /\ pos = 1 /\ pos' = 1 /\ emitted = {} /\ emitted' = {}
  BY <1>0 DEF Receive, BaseInv, CourseInv, Inv, VerdictsInv, Blocked
<1>2. c \in Chunk
  BY <1>0, ArrivedChunk DEF Inv
<1>3. /\ received' = Append(received, c)
      /\ \/ buffered' = Append(buffered, c)
         \/ buffered' = buffered /\ DOMAIN c.tcs = {}
      /\ out' = out \/ (out' = Append(out, c) /\ DOMAIN c.tcs = {})
  BY DEF Receive, HasTools
<1>4. Len(buffered) \in Nat /\ Len(buffered') \in Nat
  BY <1>0, <1>2, <1>3
<1>5. Released = <<>> /\ Released' = <<>>
  BY <1>0, <1>1, <1>2, <1>3 DEF Released
<1>6. ASSUME NEW ch, NEW i
      PROVE  Agree(buffered, received, ch, i) => Agree(buffered', received', ch, i)
  <2>1. CASE buffered' = Append(buffered, c)
    BY <1>0, <1>2, <1>3, <2>1, AgreeAppend
  <2>2. CASE buffered' = buffered /\ DOMAIN c.tcs = {}
    <3>1. Agree(received', received, ch, i)
      BY <1>0, <1>2, <1>3, <2>2, AgreeQuiet
    <3> QED
      BY <2>2, <3>1 DEF Agree
  <2> QED
    BY <1>3, <2>1, <2>2
<1>7. \A k \in 1..Len(buffered') : \A i \in DOMAIN buffered'[k].tcs :
         buffered'[k].tcs[i].id => calls'[i].id
  <2>1. calls' = Accumulate(c) /\ \A i \in DOMAIN c.tcs : i \in DOMAIN calls'
    BY <1>0, AccumulateSlots DEF Receive, Inv
  <2>2. \A i \in DOMAIN c.tcs : c.tcs[i].id => calls'[i].id
    BY <2>1 DEF Accumulate
  <2>3. \A i \in DOMAIN calls : i \in DOMAIN calls' /\ (calls[i].id => calls'[i].id)
    <3>1. DOMAIN calls' = DOMAIN calls \cup DOMAIN c.tcs
      BY <1>0, <2>1, AccumulateSlots DEF Inv
    <3> QED
      BY <2>1, <3>1 DEF Accumulate, SlotOf
  <2>4. \A k \in 1..Len(buffered) : \A i \in DOMAIN buffered[k].tcs :
          i \in DOMAIN calls /\ (buffered[k].tcs[i].id => calls[i].id)
    BY <1>0, <1>1 DEF ClientInv, HeldInv, Inv, BuffersInv
  <2> HIDE DEF c
  <2>5. \A k \in 1..Len(buffered') :
          (k \in 1..Len(buffered) /\ buffered'[k] = buffered[k]) \/ buffered'[k] = c
    BY <1>0, <1>2, <1>3, AppendIs
  <2> QED
    BY <2>2, <2>3, <2>4, <2>5
<1>8. HeldInv'
  BY <1>1, <1>6, <1>7 DEF HeldInv, ClientInv, Agree
<1>9. \A ch, i : Agree(out', out, ch, i)
  BY <1>0, <1>2, <1>3, QuietAgree
<1>10. ReleasedInv'
  BY <1>1, <1>4, <1>5, <1>9 DEF ReleasedInv, ClientInv, Agree
<1>11. ThroughInv'
  BY <1>1 DEF ThroughInv, Delivered
<1> QED
  BY <1>8, <1>10, <1>11

(* A verdict comes before anything held is released.                       *)
LEMMA JudgeClient ==
  ASSUME ClientInv, NEW j \in Indices, JudgeCall(j)
  PROVE  HeldInv' /\ ReleasedInv' /\ ThroughInv'
<1>0. BaseInv /\ buffered \in Seq(Chunk)
  BY DEF ClientInv, SpelledInv, BaseInv, Inv, TypeOK
<1>1. /\ phase = "judge" /\ pos = 1 /\ emitted = {} /\ Blocked \subseteq Blocked'
      /\ UNCHANGED <<conf, phase, received, buffered, calls, pos, emitted, out, cause>>
  BY <1>0 DEF JudgeCall, BaseInv, CourseInv, Blocked
<1>2. Released = <<>> /\ <<>> \in Seq(Chunk)
  BY <1>0, <1>1 DEF Released
<1>3. \A ch, i : Spelled(<<>>, ch, i) = <<>> /\ ~Called(<<>>, ch, i)
  <2>1. \A k \in 1..Len(<<>>) : DOMAIN <<>>[k].tcs = {}
    OBVIOUS
  <2> QED
    BY <1>2, <2>1, SpelledNothing
<1>4. HeldInv'
  BY <1>1 DEF HeldInv, ClientInv, Rewrites
<1>5. ReleasedInv'
  <2>1. /\ Released' = Released
        /\ Rewrites' = Rewrites
    BY <1>1 DEF Released, Rewrites
  <2>2. ASSUME NEW ch \in ChoiceIds, NEW i \in Indices, Owns(ch, i)
        PROVE  /\ i \notin Blocked => Agree(out, Released, ch, i)
               /\ ReplacedOnce(ch, i)
    <3>1. i \notin Blocked => Agree(out, Released, ch, i)
      BY <1>1, <2>2 DEF ClientInv, ReleasedInv
    <3>2. i \notin Blocked => ReplacedOnce(ch, i)
      BY <1>1, <1>2, <1>3, <3>1 DEF ReplacedOnce, Agree
    <3>3. i \in Blocked => ReplacedOnce(ch, i)
      BY <1>1, <2>2 DEF ClientInv, ReleasedInv
    <3> QED
      BY <3>1, <3>2, <3>3
  <2>3. \A ch, i : ReplacedOnce(ch, i) => ReplacedOnce(ch, i)'
    BY <1>1 DEF ReplacedOnce
  <2> QED
    BY <1>1, <1>2, <1>3, <2>1, <2>2, <2>3 DEF ClientInv, ReleasedInv
<1>6. ThroughInv'
  BY <1>1 DEF ThroughInv, Delivered
<1> QED
  BY <1>4, <1>5, <1>6

(* A held chunk is screened: a call that is let through keeps its deltas,  *)
(* a rewritten one its first, as the replacement.                          *)
LEMMA EmitClient ==
  ASSUME OwnIndices, ClientInv, EmitBuffered
  PROVE  HeldInv' /\ ReleasedInv' /\ ThroughInv'
<1> DEFINE b == buffered[pos]
           c == Screen(b)
<1>0. Inv /\ BaseInv /\ received \in Seq(Chunk) /\ buffered \in Seq(Chunk) /\ out \in Seq(Chunk)
      /\ pos \in Nat \ {0}
  BY DEF ClientInv, SpelledInv, BaseInv, Inv, TypeOK
<1>1. /\ phase = "emit" /\ pos \in 1..Len(buffered)
      /\ b \in Chunk /\ c \in Chunk
      /\ buffered' = [buffered EXCEPT ![pos] = c]
      /\ Len(buffered') = Len(buffered) /\ buffered' \in Seq(Chunk)
      /\ \A k \in 1..Len(buffered) : buffered'[k] = IF k = pos THEN c ELSE buffered[k]
      /\ \/ out' = Append(out, c)
         \/ out' = out /\ Blocked # {} /\ ~Keeps(c)
      /\ Keeps(c) => out' = Append(out, c)
      /\ emitted' = emitted \cup (IF Rewrites THEN Blocked \cap DOMAIN b.tcs ELSE {})
      /\ pos' = pos + 1
      /\ UNCHANGED <<conf, phase, received, finishChunks, calls, verdicts, rows,
                     queue, cause, keepalives>>
      /\ c.ch = b.ch
      /\ DOMAIN c.tcs = {i \in DOMAIN b.tcs : i \notin Blocked \/ (Rewrites /\ i \notin emitted)}
      /\ \A i \in DOMAIN c.tcs :
           c.tcs[i] = IF i \in Blocked THEN Replacement(b, i) ELSE b.tcs[i]
  BY <1>0, EmitIs
<1>2. DOMAIN c.tcs # {} => Keeps(c)
  BY DEF Keeps, HasTools
<1>3. /\ \A k \in 1..Len(buffered) : \A i \in DOMAIN buffered[k].tcs :
           buffered[k].tcs[i].id => calls[i].id
      /\ pos <= Len(buffered) + 1
      /\ ~Rewrites => emitted = {}
  BY <1>1 DEF ClientInv, HeldInv, ReleasedInv
<1>4. \A i \in DOMAIN b.tcs : Owns(b.ch, i) /\ (b.tcs[i].id => calls[i].id)
  BY <1>1, <1>3 DEF ClientInv, SpelledInv, OwnedInv, Owned
<1>5. Rewrites' = Rewrites /\ Blocked' = Blocked
  BY <1>1 DEF Rewrites, Blocked
<1>6. Released' = Append(Released, c) /\ Released \in Seq(Chunk) /\ Len(Released) = pos - 1
      /\ \A k \in 1..(pos - 1) : Released[k] = buffered[k] /\ k \in 1..Len(buffered)
  <2>1. /\ pos \in Nat \ {0} /\ pos \in 1..Len(buffered) /\ c \in Chunk
        /\ buffered \in Seq(Chunk) /\ buffered' \in Seq(Chunk) /\ Len(buffered') = Len(buffered)
        /\ pos' - 1 = pos
        /\ \A k \in 1..Len(buffered) : buffered'[k] = IF k = pos THEN c ELSE buffered[k]
    BY <1>0, <1>1
  <2> HIDE DEF b, c
  <2>2. /\ Released \in Seq(Chunk) /\ Len(Released) = pos - 1
        /\ \A k \in 1..(pos - 1) : Released[k] = buffered[k] /\ k \in 1..Len(buffered)
    BY <2>1 DEF Released
  <2>3. /\ Released' \in Seq(Chunk) /\ Len(Released') = pos
        /\ \A k \in 1..pos : Released'[k] = buffered'[k]
    BY <2>1 DEF Released
  <2>4. /\ Append(Released, c) \in Seq(Chunk) /\ Len(Append(Released, c)) = pos
        /\ \A k \in 1..pos : Append(Released, c)[k] = IF k = pos THEN c ELSE Released[k]
    BY <2>1, <2>2
  <2>5. \A k \in 1..pos : Released'[k] = Append(Released, c)[k]
    BY <2>1, <2>2, <2>3, <2>4
  <2>6. Released' = Append(Released, c)
    BY <2>3, <2>4, <2>5
  <2> QED
    BY <2>2, <2>6
<1> HIDE DEF b, c
<1>7. \A k \in 1..Len(buffered') : \A i \in DOMAIN buffered'[k].tcs :
         buffered'[k].tcs[i].id => calls'[i].id
  <2>1. \A i : Replacement(b, i).id => b.tcs[i].id \/ calls[i].id
    BY DEF Replacement
  <2>2. \A i \in DOMAIN c.tcs : c.tcs[i].id => calls[i].id
    BY <1>1, <1>4, <2>1
  <2> QED
    BY <1>1, <1>3, <2>2
<1>8. ASSUME NEW ch \in ChoiceIds, NEW i \in Indices, Owns(ch, i), i \notin Blocked
      PROVE  Agree(buffered', received', ch, i) /\ Agree(out', Released', ch, i)
  <2>1. Agree(buffered, received, ch, i) /\ Agree(out, Released, ch, i)
    BY <1>1, <1>8 DEF ClientInv, HeldInv, ReleasedInv
  <2>2. (i \in DOMAIN c.tcs <=> i \in DOMAIN b.tcs) /\ (i \in DOMAIN c.tcs => c.tcs[i] = b.tcs[i])
    BY <1>1, <1>8
  <2>3. Agree(buffered', buffered, ch, i)
    <3>1. \A k \in 1..Len(buffered') :
           /\ buffered'[k].ch = ch /\ i \in DOMAIN buffered'[k].tcs
                <=> buffered[k].ch = ch /\ i \in DOMAIN buffered[k].tcs
           /\ buffered'[k].ch = ch /\ i \in DOMAIN buffered'[k].tcs
                => buffered'[k].tcs[i] = buffered[k].tcs[i]
      BY <1>1, <2>2 DEF b
    <3> QED
      BY <1>0, <1>1, <3>1, AgreeSame
  <2>4. Agree(buffered', received', ch, i)
    BY <1>1, <2>1, <2>3 DEF Agree
  <2>5. Agree(out', Released', ch, i)
    <3>1. CASE out' = Append(out, c)
      BY <1>0, <1>1, <1>6, <2>1, <3>1, AgreeAppend
    <3>2. CASE out' = out /\ ~Keeps(c)
      <4>1. i \notin DOMAIN c.tcs
        BY <1>2, <3>2
      <4>2. Agree(Append(Released, c), Released, ch, i)
        BY <1>1, <1>6, <4>1, AgreeQuiet
      <4> QED
        BY <1>6, <2>1, <3>2, <4>2 DEF Agree
    <3> QED
      BY <1>1, <3>1, <3>2
  <2> QED
    BY <2>4, <2>5
<1>9. ASSUME NEW ch \in ChoiceIds, NEW i \in Indices, Owns(ch, i), i \in Blocked
      PROVE  /\ Rewrites => (Called(buffered', ch, i) <=> Called(received', ch, i))
             /\ Rewrites => (i \in emitted' <=> Called(Released', ch, i))
             /\ ReplacedOnce(ch, i)'
  <2>1. /\ Rewrites => (Called(buffered, ch, i) <=> Called(received, ch, i))
        /\ Rewrites => (i \in emitted <=> Called(Released, ch, i))
        /\ ReplacedOnce(ch, i)
    BY <1>1, <1>9 DEF ClientInv, HeldInv, ReleasedInv
  <2>2. i \in DOMAIN b.tcs => b.ch = ch
    BY <1>4, <1>9, OwnerIs DEF OwnIndices
  <2>3. i \in emitted' <=> i \in emitted \/ (Rewrites /\ i \in DOMAIN b.tcs)
    BY <1>1, <1>9
  <2>4. i \in DOMAIN c.tcs <=> i \in DOMAIN b.tcs /\ Rewrites /\ i \notin emitted
    BY <1>1, <1>9
  <2>5. Rewrites => (i \in emitted' <=> Called(Released', ch, i))
    <3>1. Called(Released', ch, i) <=> Called(Released, ch, i) \/ (c.ch = ch /\ i \in DOMAIN c.tcs)
      BY <1>1, <1>6, SpelledAppend
    <3> QED
      BY <1>1, <2>1, <2>2, <2>3, <2>4, <3>1
  <2>6. Rewrites => (Called(buffered', ch, i) <=> Called(buffered, ch, i))
    <3>1. Called(buffered', ch, i) => Called(buffered, ch, i)
      BY <1>1 DEF Called, b
    <3>2. ASSUME Rewrites, Called(buffered, ch, i)
          PROVE  Called(buffered', ch, i)
      <4>1. CASE i \in emitted
        <5>1. PICK k \in 1..Len(Released) : Released[k].ch = ch /\ i \in DOMAIN Released[k].tcs
          BY <2>1, <3>2, <4>1 DEF Called
        <5>2. k \in 1..Len(buffered') /\ buffered'[k] = Released[k]
          BY <1>0, <1>1, <1>6
        <5> QED
          BY <5>1, <5>2 DEF Called
      <4>2. CASE i \notin emitted
        <5>1. PICK k \in 1..Len(buffered) : buffered[k].ch = ch /\ i \in DOMAIN buffered[k].tcs
          BY <3>2 DEF Called
        <5>2. buffered'[k].ch = ch /\ i \in DOMAIN buffered'[k].tcs
          BY <1>1, <2>4, <3>2, <4>2, <5>1 DEF b
        <5> QED
          BY <1>1, <5>2 DEF Called
      <4> QED
        BY <4>1, <4>2
    <3> QED
      BY <3>1, <3>2
  <2>7. ReplacedOnce(ch, i)'
    <3>1. CASE i \in DOMAIN c.tcs
      <4>1. i \notin emitted /\ i \in emitted' /\ c.ch = ch /\ out' = Append(out, c)
        BY <1>1, <1>2, <2>2, <2>3, <2>4, <3>1
      <4>2. Spelled(out, ch, i) = <<>> /\ ~Called(out, ch, i) /\ ~Named(out, ch, i)
        BY <2>1, <4>1 DEF ReplacedOnce, Called, Named
      <4>3. c.tcs[i] = Replacement(b, i)
        BY <1>1, <1>9, <3>1
      <4>4. c.tcs[i].arg = Echo /\ (c.tcs[i].id <=> calls[i].id)
        <5>1. Replacement(b, i).arg = Echo /\ (Replacement(b, i).id <=> b.tcs[i].id \/ calls[i].id)
          BY DEF Replacement
        <5> QED
          BY <1>4, <2>4, <3>1, <4>3, <5>1
      <4>5. Part(c, ch, i) = <<Echo>>
        BY <3>1, <4>1, <4>4, MarkersAssumption DEF Part, Fragment
      <4>6. /\ Spelled(out', ch, i) = Spelled(out, ch, i) \o Part(c, ch, i)
            /\ Called(out', ch, i)
            /\ Named(out', ch, i) <=> Named(out, ch, i) \/ c.tcs[i].id
        <5>1. /\ Spelled(out', ch, i) = Spelled(out, ch, i) \o Part(c, ch, i)
              /\ Called(out', ch, i) <=> Called(out, ch, i) \/ (c.ch = ch /\ i \in DOMAIN c.tcs)
              /\ Named(out', ch, i) <=>
                   Named(out, ch, i) \/ (c.ch = ch /\ i \in DOMAIN c.tcs /\ c.tcs[i].id)
          <6>1. c \in Chunk
            BY <1>1
          <6>2. out \in Seq(Chunk)
            BY <1>0
          <6>3. out' = Append(out, c)
            BY <4>1
          <6> QED
            BY <6>1, <6>2, <6>3, SpelledAppend, Zenon
        <5> QED
          BY <3>1, <4>1, <5>1
      <4>7. Spelled(out', ch, i) = <<Echo>>
        BY <4>2, <4>5, <4>6
      <4> QED
        BY <1>1, <4>1, <4>2, <4>4, <4>6, <4>7 DEF ReplacedOnce
    <3>2. CASE i \notin DOMAIN c.tcs
      <4>1. Agree(out', out, ch, i)
        <5>1. CASE out' = Append(out, c)
          BY <1>0, <1>1, <3>2, <5>1, AgreeQuiet
        <5>2. CASE out' = out
          BY <5>2 DEF Agree
        <5> QED
          BY <1>1, <5>1, <5>2
      <4>2. i \in emitted' <=> i \in emitted
        BY <2>3, <2>4, <3>2
      <4> QED
        BY <1>1, <2>1, <4>1, <4>2 DEF ReplacedOnce, Agree
    <3> QED
      BY <3>1, <3>2
  <2> QED
    BY <1>1, <2>1, <2>5, <2>6, <2>7
<1>10. HeldInv'
  <2>1. ASSUME NEW ch \in ChoiceIds, NEW i \in Indices, Owns(ch, i), Rewrites
        PROVE  Called(buffered', ch, i) <=> Called(received', ch, i)
    BY <1>8, <1>9, <2>1 DEF Agree
  <2> QED
    BY <1>5, <1>7, <1>8, <2>1 DEF HeldInv
<1>11. ReleasedInv'
  <2>1. pos' <= Len(buffered') + 1 /\ (~Rewrites => emitted' = {})
    BY <1>0, <1>1, <1>3
  <2> QED
    BY <1>5, <1>8, <1>9, <2>1 DEF ReleasedInv
<1>12. ThroughInv'
  BY <1>1 DEF ThroughInv, Delivered
<1> QED
  BY <1>10, <1>11, <1>12

(* All held chunks are released, so what is out is the whole of each call. *)
LEMMA EndClient ==
  ASSUME ClientInv, EndBuffered
  PROVE  HeldInv' /\ ReleasedInv' /\ ThroughInv'
<1>0. Inv /\ buffered \in Seq(Chunk) /\ out \in Seq(Chunk) /\ pos \in Nat \ {0}
  BY DEF ClientInv, SpelledInv, BaseInv, Inv, TypeOK
<1>1. phase = "emit" /\ pos > Len(buffered) /\ phase' = "tail"
      /\ UNCHANGED <<conf, received, verdicts, calls, emitted>>
  BY DEF EndBuffered
<1>2. \A ch, i : Agree(out', out, ch, i)
  BY <1>0, QuietIs, QuietAgree DEF QuietStep
<1>3. Released = buffered
  <2>1. pos - 1 = Len(buffered)
    BY <1>0, <1>1 DEF ClientInv, ReleasedInv
  <2> QED
    BY <1>0, <2>1 DEF Released
<1>4. Rewrites' = Rewrites /\ Blocked' = Blocked
  BY <1>1 DEF Rewrites, Blocked
<1>5. ASSUME NEW ch \in ChoiceIds, NEW i \in Indices, Owns(ch, i)
      PROVE  /\ i \notin Blocked => Agree(out', received', ch, i)
             /\ i \in Blocked => /\ ReplacedOnce(ch, i)'
                                 /\ i \in emitted <=> Rewrites /\ Called(received, ch, i)
  <2>1. /\ i \notin Blocked => Agree(out, buffered, ch, i) /\ Agree(buffered, received, ch, i)
        /\ i \in Blocked => ReplacedOnce(ch, i)
        /\ ~Rewrites => emitted = {}
        /\ i \in Blocked /\ Rewrites =>
             /\ i \in emitted <=> Called(buffered, ch, i)
             /\ Called(buffered, ch, i) <=> Called(received, ch, i)
    BY <1>1, <1>3, <1>5 DEF ClientInv, HeldInv, ReleasedInv
  <2>2. i \notin Blocked => Agree(out', received', ch, i)
    BY <1>1, <1>2, <2>1 DEF Agree
  <2>3. i \in Blocked => ReplacedOnce(ch, i)'
    BY <1>1, <1>2, <2>1 DEF ReplacedOnce, Agree
  <2> QED
    BY <2>1, <2>2, <2>3
<1>6. ThroughInv'
  BY <1>1, <1>4, <1>5 DEF ThroughInv
<1> QED
  BY <1>1, <1>6 DEF HeldInv, ReleasedInv

LEMMA ClientStep ==
  ASSUME OwnIndices, ClientInv, [Next]_vars
  PROVE  HeldInv' /\ ReleasedInv' /\ ThroughInv'
<1>0. Inv /\ BaseInv /\ out \in Seq(Chunk)
  BY DEF ClientInv, SpelledInv, BaseInv, Inv, TypeOK
<1>1. CASE \E s \in Shapes : Receive(s)
  BY <1>1, ReceiveClient
<1>2. CASE \E j \in Indices : JudgeCall(j)
  BY <1>2, JudgeClient
<1>3. CASE EmitBuffered
  BY <1>3, EmitClient
<1>4. CASE EndBuffered
  BY <1>4, EndClient
<1>5. CASE GuardError \/ UpstreamError \/ \E s \in Shapes : ChunkError(s)
  BY <1>0, <1>5, FailureIs DEF HeldInv, ReleasedInv, ThroughInv, Delivered
<1>6. CASE EmitFlush
  BY <1>6 DEF EmitFlush, HeldInv, ReleasedInv, ThroughInv, Delivered
<1>7. CASE EndFlush
  BY <1>0, <1>7 DEF EndFlush, HeldInv, ReleasedInv, ThroughInv, Delivered, BaseInv, CourseInv
<1>8. CASE ClientGone
  BY <1>8 DEF ClientGone, HeldInv, ReleasedInv, ThroughInv, Delivered
<1>9. CASE Stall \/ UpstreamEnds \/ AllJudged \/ EmitTail \/ EndTail \/ UNCHANGED vars
  <2>1. \A ch, i : Agree(out', out, ch, i)
    BY <1>0, <1>9, QuietIs, QuietAgree DEF QuietStep
  <2>2. /\ UNCHANGED <<conf, received, buffered, calls, verdicts, cause, emitted>>
        /\ phase' \in {"collect", "judge", "emit"} =>
             phase \in {"collect", "judge", "emit"} /\ pos' = pos
        /\ phase' = "tail" => phase = "tail"
        /\ phase' = "done" /\ cause' = "none" => phase = "tail" \/ Delivered
    BY <1>9 DEF Stall, UpstreamEnds, AllJudged, EmitTail, EndTail, vars, Delivered
  <2>3. Rewrites' = Rewrites /\ Blocked' = Blocked
    BY <2>2 DEF Rewrites, Blocked
  <2>4. HeldInv'
    BY <2>2, <2>3 DEF ClientInv, HeldInv
  <2>5. \A ch, i : ReplacedOnce(ch, i) => ReplacedOnce(ch, i)'
    BY <2>1, <2>2 DEF ReplacedOnce, Agree
  <2>6. ReleasedInv'
    <3> SUFFICES ASSUME phase' \in {"collect", "judge", "emit"}
                 PROVE  ReleasedInv'
      BY DEF ReleasedInv
    <3>1. Released' = Released
      BY <2>2 DEF Released
    <3>2. \A ch, i : Agree(out, Released, ch, i) => Agree(out', Released', ch, i)
      BY <2>1, <3>1 DEF Agree
    <3> QED
      BY <2>2, <2>3, <2>5, <3>1, <3>2 DEF ClientInv, ReleasedInv
  <2>7. ThroughInv'
    <3>1. \A ch, i : Agree(out, received, ch, i) => Agree(out', received', ch, i)
      BY <2>1, <2>2 DEF Agree
    <3> QED
      BY <2>2, <2>3, <2>5, <3>1 DEF ClientInv, ThroughInv, Delivered
  <2> QED
    BY <2>4, <2>6, <2>7
<1> QED
  BY <1>1, <1>2, <1>3, <1>4, <1>5, <1>6, <1>7, <1>8, <1>9 DEF Next, GuardStep, Over

LEMMA InitClientInv == Init => ClientInv
<1> SUFFICES ASSUME Init PROVE ClientInv
  OBVIOUS
<1>1. /\ phase = "collect" /\ buffered = <<>> /\ received = <<>> /\ out = <<>> /\ pos = 1
      /\ emitted = {} /\ Blocked = {} /\ SpelledInv
  BY InitSpelledInv DEF Init, Blocked
<1>2. Released = <<>>
  BY <1>1 DEF Released
<1> QED
  BY <1>1, <1>2 DEF ClientInv, HeldInv, ReleasedInv, ThroughInv, Agree, Delivered

(* For any upstream that keeps its choices' indices apart and any cut of   *)
(* the calls into deltas: when a reply went through, what the client puts  *)
(* together of each call is the upstream's call under its id, or its one   *)
(* whole replacement, or nothing, as its verdict and the knobs have it.    *)
THEOREM ClientHoldsVerdicts ==
  ASSUME OwnIndices
  PROVE  Spec => []ClientAssemblesVerdict
<1>1. Init => ClientInv
  BY InitClientInv
<1>2. ClientInv /\ [Next]_vars => ClientInv'
  BY NextBaseInv, OwnedStep, AssembledStep, ClientStep DEF ClientInv, SpelledInv, BaseInv
<1>3. ClientInv => ClientAssemblesVerdict
  <2> SUFFICES ASSUME ClientInv, Delivered, NEW ch \in ChoiceIds, NEW i \in Indices
               PROVE  LET args == Spelled(received, ch, i)
                          kept == Evaluate(args) # "block" \/ Rewrites
                      IN  /\ Called(out, ch, i) <=> Called(received, ch, i) /\ kept
                          /\ Called(out, ch, i) =>
                               /\ Named(out, ch, i) <=> Named(received, ch, i)
                               /\ Spelled(out, ch, i) =
                                    IF Evaluate(args) = "block" THEN <<Echo>> ELSE args
    BY DEF ClientAssemblesVerdict
  <2>1. /\ cause = "none" /\ DOMAIN verdicts = DOMAIN calls /\ Assembles
        /\ Owned(received) /\ Owned(out)
        /\ \A j \in DOMAIN verdicts : verdicts[j] = Evaluate(calls[j].args)
    BY DEF ClientInv, SpelledInv, BaseInv, CourseInv, Delivered, AssembledInv, OwnedInv, Opened,
       Inv, VerdictsInv
  <2>2. CASE ~Owns(ch, i)
    <3>1. ~Called(received, ch, i) /\ ~Called(out, ch, i)
      BY <2>1, <2>2 DEF Called, Owned
    <3> QED
      BY <3>1
  <2>3. CASE Owns(ch, i)
    <3>1. /\ SlotOf(i).args = Spelled(received, ch, i)
          /\ SlotOf(i).id <=> Named(received, ch, i)
          /\ i \in DOMAIN calls <=> Called(received, ch, i)
      BY <2>1, <2>3 DEF Assembles
    <3>2. /\ i \notin Blocked => Agree(out, received, ch, i)
          /\ i \in Blocked => /\ ReplacedOnce(ch, i)
                              /\ i \in emitted <=> Rewrites /\ Called(received, ch, i)
      BY <2>3 DEF ClientInv, ThroughInv
    <3>3. i \in DOMAIN calls => SlotOf(i) = calls[i]
      BY DEF SlotOf
    <3>4. i \in Blocked <=> i \in DOMAIN calls /\ Evaluate(Spelled(received, ch, i)) = "block"
      BY <2>1, <3>1, <3>3 DEF Blocked
    <3>5. CASE i \in Blocked
      BY <3>1, <3>2, <3>3, <3>4, <3>5 DEF ReplacedOnce
    <3>6. CASE i \notin Blocked
      BY <3>1, <3>2, <3>4, <3>6 DEF Agree
    <3> QED
      BY <3>5, <3>6
  <2> QED
    BY <2>2, <2>3
<1> QED
  BY <1>1, <1>2, <1>3, PTL DEF Spec
-----------------------------------------------------------------------------
(***************************************************************************)
(* Finish reasons, the note and text.                                      *)
(*                                                                         *)
(* A chunk that has text and all of whose calls are stripped stays, with   *)
(* its finish reason; so the first of these needs an upstream that does    *)
(* not put text, a call and tool_calls into one chunk (FinishApart).       *)
(***************************************************************************)

(* A call can still be shown, was shown, or is stripped; and a chunk that  *)
(* is held for its calls and still has them does not end the turn in tool  *)
(* calls without them.                                                     *)
Shown == \E j \in 1..Len(out) : HasTools(out[j])
Gone(i) == i \in Blocked /\ ~Rewrites
FinishInv ==
  /\ \A k \in 1..Len(finishChunks) : finishChunks[k].fin = "tool_calls" => DOMAIN calls # {}
  /\ emitted # {} => Shown
  /\ phase \in {"collect", "judge", "emit"} =>
       /\ \A k \in pos..Len(buffered) :
            /\ HasTools(buffered[k])
            /\ HasContent(buffered[k]) => buffered[k].fin # "tool_calls"
       /\ \A i \in DOMAIN calls :
            (\E k \in pos..Len(buffered) : i \in DOMAIN buffered[k].tcs) \/ Shown \/ Gone(i)
  /\ phase = "tail" => Shown \/ \A i \in DOMAIN calls : Gone(i)
  /\ FinishMatchesCalls

TurnInv == BaseInv /\ FinishInv

(* What a stream shows, it shows with one more chunk.                      *)
LEMMA ShownAppend ==
  ASSUME out \in Seq(Chunk), NEW c \in Chunk, out' = Append(out, c), Opened => Opened',
         c.fin = "tool_calls" => Shown \/ HasTools(c) \/ Opened'
  PROVE  /\ Shown' <=> Shown \/ HasTools(c)
         /\ FinishMatchesCalls => FinishMatchesCalls'
<1>1. /\ Len(out) \in Nat /\ Len(out') = Len(out) + 1 /\ out'[Len(out) + 1] = c
      /\ \A k \in 1..Len(out) : k \in 1..Len(out') /\ out'[k] = out[k]
      /\ \A k \in 1..Len(out') : k \in 1..Len(out) \/ k = Len(out) + 1
  OBVIOUS
<1>2. Shown' <=> Shown \/ HasTools(c)
  BY <1>1 DEF Shown
<1>3. ASSUME FinishMatchesCalls, ~Opened', NEW k \in 1..Len(out'), out'[k].fin = "tool_calls"
      PROVE  \E j \in 1..k : HasTools(out'[j])
  <2>1. CASE k \in 1..Len(out)
    <3>1. PICK j \in 1..k : HasTools(out[j])
      BY <1>1, <1>3, <2>1 DEF FinishMatchesCalls
    <3>2. j \in 1..Len(out)
      BY <2>1
    <3> QED
      BY <1>1, <3>1, <3>2
  <2>2. CASE k = Len(out) + 1
    <3>1. PICK j \in 1..Len(out') : HasTools(out'[j])
      BY <1>1, <1>2, <1>3, <2>2 DEF Shown
    <3> QED
      BY <1>1, <2>2, <3>1
  <2> QED
    BY <1>1, <2>1, <2>2
<1> QED
  BY <1>2, <1>3 DEF FinishMatchesCalls

LEMMA ReceiveTurn ==
  ASSUME FinishApart, TurnInv, NEW s \in Shapes, Receive(s)
  PROVE  FinishInv'
<1> DEFINE c == Arrived(s)
<1>0. /\ Inv /\ buffered \in Seq(Chunk) /\ finishChunks \in Seq(Chunk) /\ out \in Seq(Chunk)
      /\ phase = "collect" /\ phase' = "collect" /\ pos = 1 /\ pos' = 1
      /\ emitted = {} /\ emitted' = {} /\ cause = "none" /\ cause' = "none"
  BY DEF TurnInv, BaseInv, Inv, TypeOK, CourseInv, Receive
<1>1. c \in Chunk /\ c.tcs = s.tcs /\ c.text = s.text /\ c.fin = s.fin
  BY <1>0, ArrivedChunk DEF Inv, Arrived
<1>2. DOMAIN calls' = DOMAIN calls \cup DOMAIN c.tcs /\ UpstreamMay(s)
  BY <1>0, AccumulateSlots DEF Receive, Inv
<1>3. /\ (buffered' = buffered /\ ~HasTools(c)) \/ (buffered' = Append(buffered, c) /\ HasTools(c))
      /\ finishChunks' = finishChunks \/ finishChunks' = Append(finishChunks, c)
      /\ out' = out \/ (out' = Append(out, c) /\ c.fin = "none")
  BY DEF Receive
<1>4. HasTools(c) => (HasContent(c) => c.fin # "tool_calls")
  BY <1>1 DEF FinishApart, HasTools, HasContent
<1>5. c.fin = "tool_calls" => DOMAIN calls' # {}
  BY <1>1, <1>2 DEF UpstreamMay
<1> HIDE DEF c
<1>6. \A k \in 1..Len(finishChunks') : finishChunks'[k].fin = "tool_calls" => DOMAIN calls' # {}
  <2>1. \A k \in 1..Len(finishChunks') :
          (k \in 1..Len(finishChunks) /\ finishChunks'[k] = finishChunks[k]) \/ finishChunks'[k] = c
    <3>1. CASE finishChunks' = finishChunks
      BY <3>1
    <3>2. CASE finishChunks' = Append(finishChunks, c)
      <4>1. \A k \in 1..Len(Append(finishChunks, c)) :
              \/ k \in 1..Len(finishChunks) /\ Append(finishChunks, c)[k] = finishChunks[k]
              \/ Append(finishChunks, c)[k] = c
        BY <1>0, <1>1, AppendIs
      <4> QED
        BY <3>2, <4>1
    <3> QED
      BY <1>3, <3>1, <3>2
  <2> QED
    BY <1>2, <1>5, <2>1 DEF TurnInv, FinishInv
<1>7. /\ Len(buffered') \in Nat
      /\ \A k \in 1..Len(buffered') :
           (k \in 1..Len(buffered) /\ buffered'[k] = buffered[k]) \/ (buffered'[k] = c /\ HasTools(c))
      /\ \A k \in 1..Len(buffered) : k \in 1..Len(buffered') /\ buffered'[k] = buffered[k]
      /\ HasTools(c) => Len(buffered') \in 1..Len(buffered') /\ buffered'[Len(buffered')] = c
  <2>0. Len(buffered) \in Nat
    BY <1>0
  <2>1. CASE buffered' = buffered /\ ~HasTools(c)
    BY <2>0, <2>1
  <2>2. CASE buffered' = Append(buffered, c) /\ HasTools(c)
    <3>1. /\ Len(Append(buffered, c)) = Len(buffered) + 1
          /\ \A k \in 1..Len(buffered) : Append(buffered, c)[k] = buffered[k]
          /\ Append(buffered, c)[Len(buffered) + 1] = c
      BY <1>0, <1>1
    <3> QED
      BY <2>0, <2>2, <3>1
  <2> QED
    BY <1>3, <2>1, <2>2
<1>8. \A k \in pos'..Len(buffered') :
        HasTools(buffered'[k]) /\ (HasContent(buffered'[k]) => buffered'[k].fin # "tool_calls")
  BY <1>0, <1>4, <1>7 DEF TurnInv, FinishInv
<1>9. Opened' = Opened
  BY DEF Receive, Opened
<1>10. (Shown => Shown') /\ (FinishMatchesCalls => FinishMatchesCalls')
  <2>1. CASE out' = out
    BY <1>9, <2>1 DEF Shown, FinishMatchesCalls
  <2>2. CASE out' = Append(out, c) /\ c.fin = "none"
    BY <1>0, <1>1, <1>9, <2>2, ShownAppend
  <2> QED
    BY <1>3, <2>1, <2>2
<1>11. ASSUME NEW i \in DOMAIN calls'
       PROVE  (\E k \in pos'..Len(buffered') : i \in DOMAIN buffered'[k].tcs) \/ Shown' \/ Gone(i)'
  <2>1. CASE i \in DOMAIN c.tcs
    BY <1>0, <1>7, <2>1 DEF HasTools
  <2>2. CASE i \in DOMAIN calls
    <3>1. (\E k \in pos..Len(buffered) : i \in DOMAIN buffered[k].tcs) \/ Shown \/ Gone(i)
      BY <1>0, <2>2 DEF TurnInv, FinishInv
    <3>2. ~Gone(i)
      BY <1>0 DEF Gone, Blocked, Inv, VerdictsInv
    <3> QED
      BY <1>0, <1>7, <1>10, <3>1, <3>2
  <2> QED
    BY <1>2, <2>1, <2>2
<1> QED
  BY <1>0, <1>6, <1>8, <1>10, <1>11 DEF FinishInv, TurnInv

LEMMA EmitTurn ==
  ASSUME TurnInv, EmitBuffered
  PROVE  FinishInv'
<1> DEFINE b == buffered[pos]
           c == Screen(b)
<1>0. Inv /\ buffered \in Seq(Chunk) /\ out \in Seq(Chunk) /\ pos \in Nat \ {0}
  BY DEF TurnInv, BaseInv, Inv, TypeOK
<1>1. /\ phase = "emit" /\ pos \in 1..Len(buffered) /\ c \in Chunk
      /\ Len(buffered') = Len(buffered)
      /\ \A k \in 1..Len(buffered) : buffered'[k] = IF k = pos THEN c ELSE buffered[k]
      /\ \/ out' = Append(out, c)
         \/ out' = out /\ Blocked # {} /\ ~Keeps(c)
      /\ emitted' = emitted \cup (IF Rewrites THEN Blocked \cap DOMAIN b.tcs ELSE {})
      /\ pos' = pos + 1
      /\ UNCHANGED <<conf, phase, finishChunks, calls, verdicts, cause>>
      /\ c.text = b.text /\ c.fin = b.fin
      /\ DOMAIN c.tcs = {i \in DOMAIN b.tcs : i \notin Blocked \/ (Rewrites /\ i \notin emitted)}
  BY <1>0, EmitIs
<1>2. (Blocked = {} => HasTools(c)) /\ HasTools(b) /\ (HasContent(b) => b.fin # "tool_calls")
  <2>1. HasTools(b) /\ (HasContent(b) => b.fin # "tool_calls")
    BY <1>0, <1>1 DEF TurnInv, FinishInv
  <2>2. Blocked = {} => DOMAIN c.tcs = DOMAIN b.tcs
    BY <1>1
  <2> QED
    BY <2>1, <2>2 DEF HasTools
<1>3. Rewrites' = Rewrites /\ Blocked' = Blocked /\ Opened' = Opened
  BY <1>1 DEF Rewrites, Blocked, Opened
<1> HIDE DEF b, c
<1>4. /\ Shown => Shown'
      /\ HasTools(c) => Shown'
      /\ FinishMatchesCalls => FinishMatchesCalls'
  <2>1. CASE out' = Append(out, c)
    <3>1. ~Opened /\ (c.fin = "tool_calls" /\ HasContent(c) => HasTools(c) \/ ~HasContent(b))
      BY <1>1, <1>2 DEF TurnInv, BaseInv, CourseInv, Opened, HasContent
    <3>2. Keeps(c) \/ Blocked = {}
      BY <1>1, <2>1 DEF EmitBuffered, b, c
    <3>3. c.fin = "tool_calls" => HasTools(c)
      BY <1>1, <1>2, <3>2 DEF Keeps, HasContent
    <3> QED
      BY <1>0, <1>1, <1>3, <2>1, <3>3, ShownAppend
  <2>2. CASE out' = out /\ ~Keeps(c)
    BY <1>3, <2>2 DEF Shown, FinishMatchesCalls, Keeps
  <2> QED
    BY <1>1, <2>1, <2>2
<1>5. emitted' # {} => Shown'
  <2>1. CASE emitted # {}
    BY <1>4, <2>1 DEF TurnInv, FinishInv
  <2>2. CASE emitted = {}
    <3>1. emitted' # {} => HasTools(c)
      BY <1>1, <2>2 DEF HasTools
    <3> QED
      BY <1>4, <3>1
  <2> QED
    BY <2>1, <2>2
<1>6. ASSUME NEW i \in DOMAIN calls'
      PROVE  (\E k \in pos'..Len(buffered') : i \in DOMAIN buffered'[k].tcs) \/ Shown' \/ Gone(i)'
  <2>1. (\E k \in pos..Len(buffered) : i \in DOMAIN buffered[k].tcs) \/ Shown \/ Gone(i)
    BY <1>1, <1>6 DEF TurnInv, FinishInv
  <2>2. Gone(i)' <=> Gone(i)
    BY <1>3 DEF Gone
  <2>3. ASSUME NEW k \in pos..Len(buffered), i \in DOMAIN buffered[k].tcs
        PROVE  (\E l \in pos'..Len(buffered') : i \in DOMAIN buffered'[l].tcs) \/ Shown' \/ Gone(i)
    <3>1. CASE k = pos
      <4>1. i \in DOMAIN b.tcs
        BY <2>3, <3>1 DEF b
      <4>2. CASE i \in DOMAIN c.tcs
        BY <1>4, <4>2 DEF HasTools
      <4>3. CASE i \notin DOMAIN c.tcs
        <5>1. i \in Blocked /\ (~Rewrites \/ i \in emitted)
          BY <1>1, <4>1, <4>3
        <5> QED
          BY <1>4, <5>1 DEF Gone, TurnInv, FinishInv
      <4> QED
        BY <4>2, <4>3
    <3>2. CASE k # pos
      BY <1>0, <1>1, <2>3, <3>2
    <3> QED
      BY <3>1, <3>2
  <2> QED
    BY <1>4, <2>1, <2>2, <2>3
<1>7. \A k \in pos'..Len(buffered') : k \in pos..Len(buffered) /\ buffered'[k] = buffered[k]
  BY <1>0, <1>1
<1> QED
  BY <1>1, <1>4, <1>5, <1>6, <1>7 DEF TurnInv, FinishInv

(* The held tool chunks are through: every call was shown, or all of them  *)
(* were stripped.                                                          *)
LEMMA EndTurnStep ==
  ASSUME TurnInv, EndBuffered \/ EmitTail
  PROVE  FinishInv'
<1>0. /\ Inv /\ out \in Seq(Chunk) /\ finishChunks \in Seq(Chunk)
      /\ phase \in {"emit", "tail"} /\ cause = "none" /\ DOMAIN verdicts = DOMAIN calls
  BY DEF TurnInv, BaseInv, Inv, TypeOK, CourseInv, EndBuffered, EmitTail
<1>1. CASE EndBuffered
  <2>1. /\ phase = "emit" /\ pos > Len(buffered) /\ phase' = "tail"
        /\ UNCHANGED <<conf, finishChunks, calls, verdicts, emitted, cause>>
        /\ out' = out \/ (Strips /\ out' = Append(out, Note(Last(received))))
    BY <1>1 DEF EndBuffered
  <2>2. (Shown => Shown') /\ FinishMatchesCalls'
    <3>1. ASSUME Strips
          PROVE  Note(Last(received)) \in Chunk /\ Note(Last(received)).fin = "none"
      <4>1. received # <<>>
        BY <1>0, <3>1 DEF Strips, Blocked, Inv, TypeOK, TakenInv
      <4>2. Last(received) \in Chunk
        BY <1>0, <4>1, LastReceived
      <4>3. Keepalive(Last(received)) \in Chunk /\ Keepalive(Last(received)).fin = "none"
        BY <4>2, MadeChunks DEF Keepalive, Chunk
      <4>4. Note(Last(received)).fin = Keepalive(Last(received)).fin
        BY <4>3 DEF Note, Chunk
      <4> QED
        BY <4>2, <4>3, <4>4, MadeChunks
    <3>2. Opened' = Opened
      BY <2>1 DEF Opened
    <3>3. CASE out' = out
      BY <3>2, <3>3 DEF Shown, FinishMatchesCalls, TurnInv, FinishInv
    <3>4. CASE Strips /\ out' = Append(out, Note(Last(received)))
      BY <1>0, <3>1, <3>2, <3>4, ShownAppend DEF TurnInv, FinishInv
    <3> QED
      BY <2>1, <3>3, <3>4
  <2>3. Shown' \/ \A i \in DOMAIN calls' : Gone(i)'
    <3>1. \A i \in DOMAIN calls : Shown \/ Gone(i)
      <4>1. ~ \E k : k \in pos..Len(buffered)
        BY <1>0, <2>1 DEF Inv, TypeOK
      <4> QED
        BY <2>1, <4>1 DEF TurnInv, FinishInv
    <3>2. \A i : Gone(i)' <=> Gone(i)
      BY <2>1 DEF Gone, Blocked, Rewrites
    <3> QED
      BY <2>1, <2>2, <3>1, <3>2
  <2> QED
    BY <2>1, <2>2, <2>3 DEF TurnInv, FinishInv
<1>2. CASE EmitTail
  <2> DEFINE f == finishChunks[pos]
             c == IF AllStripped THEN EndTurn(f) ELSE f
  <2>1. /\ phase = "tail" /\ pos \in 1..Len(finishChunks) /\ phase' = phase
        /\ finishChunks' = [finishChunks EXCEPT ![pos] = c] /\ out' = Append(out, c)
        /\ UNCHANGED <<conf, calls, verdicts, emitted, cause>>
    BY <1>0, <1>2 DEF EmitTail, Inv, TypeOK
  <2>2. f \in Chunk /\ c \in Chunk
    BY <1>0, <2>1, MadeChunks
  <2>3. c.fin = "tool_calls" => f.fin = "tool_calls" /\ ~AllStripped
    BY <2>2 DEF EndTurn, Chunk
  <2>4. f.fin = "tool_calls" => DOMAIN calls # {}
    BY <2>1 DEF TurnInv, FinishInv
  <2> HIDE DEF c, f
  <2>5. c.fin = "tool_calls" => Shown
    <3>1. (\A i \in DOMAIN calls : Gone(i)) /\ DOMAIN calls # {} => AllStripped
      BY <1>0 DEF Gone, AllStripped, Strips, Blocked
    <3> QED
      BY <2>1, <2>3, <2>4, <3>1 DEF TurnInv, FinishInv
  <2>6. (Shown => Shown') /\ FinishMatchesCalls'
    <3>1. Opened' = Opened
      BY <2>1 DEF Opened
    <3> QED
      BY <1>0, <2>1, <2>2, <2>5, <3>1, ShownAppend DEF TurnInv, FinishInv
  <2>7. \A k \in 1..Len(finishChunks') : finishChunks'[k].fin = "tool_calls" => DOMAIN calls' # {}
    <3>1. \A k \in 1..Len(finishChunks') :
            k \in 1..Len(finishChunks) /\ (finishChunks'[k] = finishChunks[k] \/ finishChunks'[k] = c)
      BY <1>0, <2>1
    <3> QED
      BY <2>1, <2>3, <2>4, <3>1 DEF TurnInv, FinishInv
  <2>8. \A i : Gone(i)' <=> Gone(i)
    BY <2>1 DEF Gone, Blocked, Rewrites
  <2> QED
    BY <2>1, <2>6, <2>7, <2>8 DEF TurnInv, FinishInv
<1> QED
  BY <1>1, <1>2

(* Keepalives, verdicts, failures and the flush.                           *)
LEMMA OtherTurn ==
  ASSUME TurnInv, [Next]_vars, ~ \E s \in Shapes : Receive(s), ~EmitBuffered,
         ~EndBuffered, ~EmitTail
  PROVE  FinishInv'
<1>0. Inv /\ out \in Seq(Chunk)
  BY DEF TurnInv, BaseInv, Inv, TypeOK
<1>1. CASE Stall
  <2>1. received # <<>>
    BY <1>0, <1>1 DEF Stall, Inv, TakenInv
  <2>2. Keepalive(Last(received)) \in Chunk /\ Keepalive(Last(received)).fin = "none"
    BY <1>0, <2>1, LastReceived, MadeChunks DEF Keepalive, Chunk
  <2>3. out' = Append(out, Keepalive(Last(received))) /\ Opened' = Opened
    BY <1>1 DEF Stall, Opened
  <2>4. (Shown => Shown') /\ FinishMatchesCalls'
    BY <1>0, <2>2, <2>3, ShownAppend DEF TurnInv, FinishInv
  <2>5. UNCHANGED <<conf, phase, buffered, finishChunks, calls, verdicts, pos, emitted>>
    BY <1>1 DEF Stall
  <2>6. \A i : Gone(i)' <=> Gone(i)
    BY <2>5 DEF Gone, Blocked, Rewrites
  <2> QED
    BY <2>4, <2>5, <2>6 DEF TurnInv, FinishInv
<1>2. CASE EmitFlush
  <2>1. /\ queue \in Seq(Chunk) /\ queue # <<>> /\ out' = Append(out, queue[1])
        /\ phase = "flush" /\ phase' = "flush" /\ cause # "none"
        /\ UNCHANGED <<conf, finishChunks, calls, emitted, cause>>
    BY <1>0, <1>2 DEF EmitFlush, Inv, TypeOK, TurnInv, BaseInv, CourseInv
  <2>2. queue[1] \in Chunk /\ 1 \in 1..Len(queue) /\ Opened' = Opened
    BY <2>1 DEF Opened
  <2>3. ~Opened => queue[1].fin # "tool_calls"
    BY <1>0, <2>1, <2>2 DEF TurnInv, BaseInv, ClosedInv, Opened, Inv, TypeOK, Conf
  <2>4. (Shown => Shown') /\ FinishMatchesCalls'
    BY <1>0, <2>1, <2>2, <2>3, ShownAppend DEF TurnInv, FinishInv
  <2> QED
    BY <2>1, <2>4 DEF TurnInv, FinishInv
<1>3. CASE GuardError \/ UpstreamError \/ \E s \in Shapes : ChunkError(s)
  <2>1. /\ phase' \in {"flush", "raised"}
        /\ UNCHANGED <<conf, finishChunks, calls, emitted, out>>
        /\ Opened => Opened'
    BY <1>0, <1>3, FailureIs DEF Opened
  <2> QED
    BY <2>1 DEF TurnInv, FinishInv, FinishMatchesCalls, Shown
<1>4. CASE \E i \in Indices : JudgeCall(i)
  <2>1. /\ UNCHANGED <<conf, phase, buffered, finishChunks, calls, pos, emitted, out, cause>>
        /\ phase = "judge" /\ Blocked \subseteq Blocked'
    BY <1>4 DEF JudgeCall, Blocked
  <2>2. \A i : Gone(i) => Gone(i)'
    BY <2>1 DEF Gone, Rewrites
  <2> QED
    BY <2>1, <2>2 DEF TurnInv, FinishInv, FinishMatchesCalls, Shown, Opened
<1>5. CASE UpstreamEnds \/ AllJudged \/ EndTail \/ EndFlush \/ ClientGone \/ UNCHANGED vars
  <2>1. /\ UNCHANGED <<conf, buffered, finishChunks, calls, verdicts, pos, emitted, out, cause>>
        /\ phase' \in {"collect", "judge", "emit"} => phase \in {"collect", "judge", "emit"}
        /\ phase' = "tail" => phase = "tail"
    BY <1>5 DEF UpstreamEnds, AllJudged, EndTail, EndFlush, ClientGone, vars
  <2>2. \A i : Gone(i)' <=> Gone(i)
    BY <2>1 DEF Gone, Blocked, Rewrites
  <2> QED
    BY <2>1, <2>2 DEF TurnInv, FinishInv, FinishMatchesCalls, Shown, Opened
<1> QED
  BY <1>1, <1>2, <1>3, <1>4, <1>5, StepKinds DEF QuietStep

LEMMA InitTurnInv == Init => TurnInv
<1>1. Init => BaseInv
  BY InitBaseInv
<1>2. Init => FinishInv
  BY DEF Init, FinishInv, FinishMatchesCalls, EmptyCalls
<1> QED
  BY <1>1, <1>2 DEF TurnInv

LEMMA NextTurnInv ==
  ASSUME FinishApart, TurnInv, [Next]_vars
  PROVE  TurnInv'
BY NextBaseInv, ReceiveTurn, EmitTurn, EndTurnStep, OtherTurn DEF TurnInv

(* Whatever was stripped and however the reply failed, unless it failed    *)
(* open: the client hears of tool calls only when it holds one.            *)
THEOREM FinishTellsTheTruth ==
  ASSUME FinishApart
  PROVE  Spec => []FinishMatchesCalls
<1>1. Init => TurnInv
  BY InitTurnInv
<1>2. TurnInv /\ [Next]_vars => TurnInv'
  BY NextTurnInv
<1>3. TurnInv => FinishMatchesCalls
  BY DEF TurnInv, FinishInv
<1> QED
  BY <1>1, <1>2, <1>3, PTL DEF Spec
-----------------------------------------------------------------------------
(* Once the held tool chunks are through, the note for stripped calls is   *)
(* out.                                                                    *)
NoteInv ==
  phase = "tail" \/ Delivered =>
    (Strips /\ Last(received).ch # NoChoice => \E k \in 1..Len(out) : out[k].text = "note")

(* A copy of the last chunk with nothing in it, and with the note.         *)
LEMMA MadeTexts ==
  ASSUME NEW c \in Chunk
  PROVE  /\ Keepalive(c) \in Chunk /\ Note(c) \in Chunk /\ EndTurn(c) \in Chunk
         /\ Keepalive(c).text = "" /\ Keepalive(c).n = 0
         /\ Note(c).text = (IF c.ch = NoChoice THEN "" ELSE "note") /\ Note(c).n = 0
         /\ EndTurn(c).text = c.text /\ EndTurn(c).n = c.n
<1> DEFINE a == Keepalive(c)
<1>1. a \in Chunk /\ Note(c) \in Chunk /\ EndTurn(c) \in Chunk
  BY MadeChunks
<1>2. a.text = "" /\ a.n = 0
  BY DEF Keepalive, Chunk
<1>3. EndTurn(c).text = c.text /\ EndTurn(c).n = c.n
  BY DEF EndTurn, Chunk
<1> HIDE DEF a
<1>4. Note(c) = [a EXCEPT !.text = IF c.ch = NoChoice THEN "" ELSE "note"]
  BY DEF Note, a
<1>5. Note(c).text = (IF c.ch = NoChoice THEN "" ELSE "note") /\ Note(c).n = 0
  BY <1>1, <1>2, <1>4 DEF Chunk
<1> QED
  BY <1>1, <1>2, <1>3, <1>5 DEF a

LEMMA NoteStep ==
  ASSUME BaseInv, NoteInv, [Next]_vars
  PROVE  NoteInv'
<1>0. Inv /\ CourseInv /\ out \in Seq(Chunk)
  BY DEF BaseInv, Inv, TypeOK
<1>1. CASE EndBuffered
  <2>1. /\ phase' = "tail" /\ UNCHANGED <<conf, received, verdicts>>
        /\ Strips => out' = Append(out, Note(Last(received)))
    BY <1>1 DEF EndBuffered
  <2>2. Strips' = Strips
    BY <2>1 DEF Strips, Blocked, Rewrites
  <2>3. ASSUME Strips, Last(received).ch # NoChoice
        PROVE  \E k \in 1..Len(out') : out'[k].text = "note"
    <3>1. received # <<>>
      BY <1>0, <2>3 DEF Strips, Blocked, Inv, TypeOK, TakenInv
    <3>2. Note(Last(received)) \in Chunk /\ Note(Last(received)).text = "note"
      BY <1>0, <2>3, <3>1, LastReceived, MadeTexts
    <3>3. out'[Len(out) + 1].text = "note" /\ Len(out') = Len(out) + 1 /\ Len(out) \in Nat
      BY <1>0, <2>1, <2>3, <3>2
    <3>4. Len(out) + 1 \in 1..Len(out')
      BY <3>3
    <3> QED
      BY <3>3, <3>4
  <2> QED
    BY <2>1, <2>2, <2>3 DEF NoteInv
<1>2. CASE EmitTail
  <2> DEFINE c == IF AllStripped THEN EndTurn(finishChunks[pos]) ELSE finishChunks[pos]
  <2>1. phase = "tail" /\ UNCHANGED <<conf, received, verdicts>> /\ out' = Append(out, c)
        /\ pos \in 1..Len(finishChunks) /\ finishChunks \in Seq(Chunk)
    BY <1>0, <1>2 DEF EmitTail, Inv, TypeOK
  <2>2. c \in Chunk
    <3>1. finishChunks[pos] \in Chunk
      BY <2>1
    <3> QED
      BY <3>1, MadeTexts
  <2> HIDE DEF c
  <2>3. \A k \in 1..Len(out) : k \in 1..Len(out') /\ out'[k] = out[k]
    BY <1>0, <2>1, <2>2
  <2>4. Strips' = Strips
    BY <2>1 DEF Strips, Blocked, Rewrites
  <2> QED
    BY <2>1, <2>3, <2>4 DEF NoteInv
<1>3. CASE EndTail
  <2>1. phase = "tail" /\ UNCHANGED <<conf, received, verdicts, out>>
    BY <1>3 DEF EndTail
  <2>2. Strips' = Strips
    BY <2>1 DEF Strips, Blocked, Rewrites
  <2> QED
    BY <2>1, <2>2 DEF NoteInv
<1>4. CASE Over \/ UNCHANGED vars
  <2>1. UNCHANGED vars
    BY <1>4 DEF Over
  <2> QED
    BY <2>1 DEF NoteInv, vars, Delivered, Strips, Blocked, Rewrites
<1>5. CASE ~EndBuffered /\ ~EmitTail /\ ~EndTail /\ ~Over /\ ~UNCHANGED vars
  <2>1. CASE EndFlush
    BY <1>0, <2>1 DEF EndFlush, CourseInv, NoteInv, Delivered
  <2>2. CASE ~EndFlush
    <3>1. phase' \notin {"tail", "done"}
      <4>1. CASE \E s \in Shapes : Receive(s)
        BY <4>1 DEF Receive
      <4>2. CASE EmitBuffered \/ EmitFlush
        BY <4>2 DEF EmitBuffered, EmitFlush
      <4>3. CASE GuardError \/ UpstreamError \/ \E s \in Shapes : ChunkError(s)
        BY <1>0, <4>3, FailureIs
      <4>4. CASE Stall \/ UpstreamEnds \/ (\E i \in Indices : JudgeCall(i)) \/ AllJudged \/ ClientGone
        BY <4>4 DEF Stall, UpstreamEnds, JudgeCall, AllJudged, ClientGone
      <4> QED
        BY <1>5, <2>2, <4>1, <4>2, <4>3, <4>4, StepKinds DEF QuietStep
    <3> QED
      BY <3>1 DEF NoteInv, Delivered
  <2> QED
    BY <2>1, <2>2
<1> QED
  BY <1>1, <1>2, <1>3, <1>4, <1>5

(* A reply that went through with calls stripped carries the note, unless  *)
(* its last chunk had no place for it.                                     *)
THEOREM StrippedCallsAreNoted == Spec => []NoteDelivered
<1>1. Init => BaseInv /\ NoteInv
  BY InitBaseInv DEF Init, NoteInv, Delivered
<1>2. BaseInv /\ NoteInv /\ [Next]_vars => BaseInv' /\ NoteInv'
  BY NextBaseInv, NoteStep
<1>3. NoteInv => NoteDelivered
  BY DEF NoteInv, NoteDelivered
<1> QED
  BY <1>1, <1>2, <1>3, PTL DEF Spec

(* Where the text of the m-th chunk is: already out, still held among the  *)
(* tool chunks, or still held behind them; each from where the handler is. *)
TextAt(q, from, m) == {j \in 1..Len(q) : j >= from /\ q[j].n = m /\ q[j].text = "text"}
FromHeld   == IF phase \in {"collect", "judge", "emit"} THEN pos ELSE Len(buffered) + 1
FromBehind == IF phase = "tail" THEN pos ELSE IF phase = "done" THEN Len(finishChunks) + 1 ELSE 1
OutAt(m)  == TextAt(out, 1, m)
HeldAt(m) == TextAt(buffered, FromHeld, m)
TailAt(m) == TextAt(finishChunks, FromBehind, m)
One(T) == \E j \in T : T = {j}
Placed(m) ==
  \/ One(OutAt(m)) /\ HeldAt(m) = {} /\ TailAt(m) = {}
  \/ OutAt(m) = {} /\ One(HeldAt(m)) /\ TailAt(m) = {}
  \/ OutAt(m) = {} /\ HeldAt(m) = {} /\ One(TailAt(m))
Numbered(q) == \A j \in 1..Len(q) : q[j].n <= Len(received) /\ (q[j].text = "text" => q[j].n > 0)

TextInv ==
  phase \in {"collect", "judge", "emit", "tail"} \/ Delivered =>
    /\ Numbered(out) /\ Numbered(buffered) /\ Numbered(finishChunks)
    /\ \A m \in 1..Len(received) : HasContent(received[m]) => Placed(m)
    /\ \A m \in 1..Len(received) : received[m].text \in {"", "text"}


(* One more element, place by place.                                       *)
LEMMA AppendAt ==
  ASSUME NEW S, NEW q \in Seq(S), NEW e \in S
  PROVE  /\ Append(q, e) \in Seq(S)
         /\ Len(q) \in Nat /\ Len(Append(q, e)) = Len(q) + 1
         /\ Append(q, e)[Len(q) + 1] = e
         /\ \A k \in 1..Len(q) : k \in 1..Len(Append(q, e)) /\ Append(q, e)[k] = q[k] /\ q[k] \in S
         /\ \A k \in 1..Len(Append(q, e)) : k \in 1..Len(q) \/ k = Len(q) + 1
OBVIOUS
LEMMA TextAppend ==
  ASSUME NEW q \in Seq(Chunk), NEW c \in Chunk, NEW from \in Nat, from <= Len(q) + 1, NEW m
  PROVE  TextAt(Append(q, c), from, m) =
           TextAt(q, from, m) \cup (IF c.n = m /\ c.text = "text" THEN {Len(q) + 1} ELSE {})
<1>1. /\ Len(q) \in Nat /\ Len(Append(q, c)) = Len(q) + 1 /\ Append(q, c)[Len(q) + 1] = c
      /\ \A k \in 1..Len(q) : Append(q, c)[k] = q[k]
  OBVIOUS
<1>2. 1..(Len(q) + 1) = 1..Len(q) \cup {Len(q) + 1}
  BY <1>1
<1> DEFINE r == Append(q, c)
<1> HIDE DEF r
<1>3. \A j : j \in TextAt(r, from, m) <=>
        j \in 1..Len(r) /\ j >= from /\ r[j].n = m /\ r[j].text = "text"
  BY DEF TextAt
<1>4. \A j : j \in TextAt(q, from, m) <=>
        j \in 1..Len(q) /\ j >= from /\ q[j].n = m /\ q[j].text = "text"
  BY DEF TextAt
<1>5. \A j : j \in TextAt(r, from, m) <=>
        j \in TextAt(q, from, m) \/ (j = Len(q) + 1 /\ c.n = m /\ c.text = "text")
  BY <1>1, <1>2, <1>3, <1>4 DEF r
<1>6. TextAt(r, from, m) =
        TextAt(q, from, m) \cup (IF c.n = m /\ c.text = "text" THEN {Len(q) + 1} ELSE {})
  BY <1>5, Zenon
<1> QED
  BY <1>6 DEF r

LEMMA TextNext ==
  ASSUME NEW q \in Seq(Chunk), NEW r \in Seq(Chunk), Len(r) = Len(q),
         \A j \in 1..Len(q) : r[j].n = q[j].n /\ r[j].text = q[j].text,
         NEW from \in Nat, NEW m
  PROVE  TextAt(r, from + 1, m) = TextAt(q, from, m) \ {from}
<1>1. \A j \in 1..Len(q) : j >= from + 1 <=> j >= from /\ j # from
  OBVIOUS
<1> QED
  BY <1>1 DEF TextAt

(* The one place of a text moves, or stays.                                *)
LEMMA Moves ==
  ASSUME NEW A, NEW x, x \notin A, NEW B, NEW e
  PROVE  LET A2 == A \cup (IF e \in B THEN {x} ELSE {})
             B2 == B \ {e}
         IN
         /\ One(A) /\ B = {} => One(A2) /\ B2 = {}
         /\ A = {} /\ One(B) => (One(A2) /\ B2 = {}) \/ (A2 = {} /\ One(B2))
         /\ A = {} /\ B = {} => A2 = {} /\ B2 = {}
<1> DEFINE A2 == A \cup (IF e \in B THEN {x} ELSE {})
           B2 == B \ {e}
<1>1. CASE e \in B
  <2>1. A2 = A \cup {x}
    BY <1>1
  <2>2. ASSUME A = {}, One(B)
        PROVE  One(A2) /\ B2 = {}
    <3>1. A2 = {x}
      BY <2>1, <2>2
    <3>2. PICK j \in B : B = {j}
      BY <2>2 DEF One
    <3> QED
      BY <1>1, <3>1, <3>2 DEF One
  <2> QED
    BY <1>1, <2>2
<1>2. CASE e \notin B
  <2>1. A2 = A /\ B2 = B
    BY <1>2
  <2> QED
    BY <2>1
<1> QED
  BY <1>1, <1>2

LEMMA ReceiveText ==
  ASSUME Inv, CourseInv, TextInv, NEW s \in Shapes, Receive(s)
  PROVE  TextInv'
<1> DEFINE c == Arrived(s)
<1>0. /\ received \in Seq(Chunk) /\ buffered \in Seq(Chunk) /\ finishChunks \in Seq(Chunk)
      /\ out \in Seq(Chunk) /\ pos = 1 /\ pos' = 1 /\ phase = "collect" /\ phase' = "collect"
      /\ received' = Append(received, c)
  BY DEF Inv, TypeOK, CourseInv, Receive
<1>1. c \in Chunk /\ c.n = Len(received) + 1 /\ c.text \in {"", "text"}
  <2>1. s \in Shape
    BY ShapesAssumption
  <2>2. c \in Chunk
    BY ArrivedChunk DEF Inv
  <2> QED
    BY <2>1, <2>2 DEF Arrived, Shape
<1>2. \/ buffered' = Append(buffered, c) /\ finishChunks' = finishChunks /\ out' = out
      \/ finishChunks' = Append(finishChunks, c) /\ buffered' = buffered /\ out' = out
      \/ out' = Append(out, c) /\ buffered' = buffered /\ finishChunks' = finishChunks
  BY DEF Receive
<1> HIDE DEF c
<1>3. /\ Len(received) \in Nat /\ Len(received') = Len(received) + 1
      /\ received'[Len(received) + 1] = c
      /\ \A k \in 1..Len(received) : received'[k] = received[k]
      /\ \A k \in 1..Len(received') : k \in 1..Len(received) \/ k = Len(received) + 1
  <2>1. received \in Seq(Chunk) /\ c \in Chunk /\ received' = Append(received, c)
    BY <1>0, <1>1
  <2> DEFINE r == Append(received, c)
  <2>2. /\ Len(received) \in Nat /\ Len(r) = Len(received) + 1 /\ r[Len(received) + 1] = c
        /\ \A k \in 1..Len(received) : r[k] = received[k]
        /\ \A k \in 1..Len(r) : k \in 1..Len(received) \/ k = Len(received) + 1
    BY <2>1, AppendAt
  <2> QED
    BY <2>1, <2>2
<1>4. /\ Numbered(out) /\ Numbered(buffered) /\ Numbered(finishChunks)
      /\ \A m \in 1..Len(received) : HasContent(received[m]) => Placed(m)
      /\ \A m \in 1..Len(received) : received[m].text \in {"", "text"}
  BY <1>0 DEF TextInv
<1>5. ASSUME NEW q \in Seq(Chunk), NEW r \in Seq(Chunk), r = q \/ r = Append(q, c), Numbered(q)
      PROVE  \A j \in 1..Len(r) : r[j].n <= Len(received') /\ (r[j].text = "text" => r[j].n > 0)
  <2>1. \A j \in 1..Len(r) : (j \in 1..Len(q) /\ r[j] = q[j]) \/ r[j] = c
    <3>1. CASE r = q
      BY <3>1
    <3>2. CASE r = Append(q, c)
      <4>1. \A j \in 1..Len(Append(q, c)) :
              (j \in 1..Len(q) /\ Append(q, c)[j] = q[j]) \/ Append(q, c)[j] = c
        BY <1>1, AppendIs
      <4> QED
        BY <3>2, <4>1
    <3> QED
      BY <1>5, <3>1, <3>2
  <2>2. \A j \in 1..Len(q) : q[j].n \in Nat
    <3>1. \A j \in 1..Len(q) : q[j] \in Chunk
      OBVIOUS
    <3> QED
      BY <3>1 DEF Chunk
  <2>3. /\ Len(received) \in Nat /\ Len(received') = Len(received) + 1
        /\ c.n = Len(received) + 1
        /\ \A j \in 1..Len(q) : q[j].n <= Len(received) /\ (q[j].text = "text" => q[j].n > 0)
    BY <1>1, <1>3, <1>5 DEF Numbered
  <2> QED
    BY <2>1, <2>2, <2>3
<1>6. out' \in Seq(Chunk) /\ buffered' \in Seq(Chunk) /\ finishChunks' \in Seq(Chunk)
  <2>1. \A q \in Seq(Chunk) : Append(q, c) \in Seq(Chunk)
    BY <1>1, AppendAt
  <2> QED
    BY <1>0, <1>2, <2>1
<1>7. Numbered(out)' /\ Numbered(buffered)' /\ Numbered(finishChunks)'
  <2>1. Numbered(out)'
    BY <1>0, <1>2, <1>4, <1>5, <1>6 DEF Numbered
  <2>2. Numbered(buffered)'
    BY <1>0, <1>2, <1>4, <1>5, <1>6 DEF Numbered
  <2>3. Numbered(finishChunks)'
    BY <1>0, <1>2, <1>4, <1>5, <1>6 DEF Numbered
  <2> QED
    BY <2>1, <2>2, <2>3
<1>8. FromHeld = 1 /\ FromHeld' = 1 /\ FromBehind = 1 /\ FromBehind' = 1
  BY <1>0 DEF FromHeld, FromBehind
<1> DEFINE new(m) == c.n = m /\ c.text = "text"
<1>9. ASSUME NEW q \in Seq(Chunk), NEW m
      PROVE  /\ TextAt(Append(q, c), 1, m) =
                  TextAt(q, 1, m) \cup (IF new(m) THEN {Len(q) + 1} ELSE {})
             /\ m = Len(received) + 1 /\ Numbered(q) => TextAt(q, 1, m) = {}
  <2>1. 1 \in Nat /\ 1 <= Len(q) + 1
    OBVIOUS
  <2>2. TextAt(Append(q, c), 1, m) =
                  TextAt(q, 1, m) \cup (IF c.n = m /\ c.text = "text" THEN {Len(q) + 1} ELSE {})
    BY <1>1, <2>1, TextAppend
  <2>3. ASSUME m = Len(received) + 1, Numbered(q), NEW j \in TextAt(q, 1, m)
        PROVE  FALSE
    <3>1. j \in 1..Len(q) /\ q[j].n = Len(received) + 1
      BY <2>3 DEF TextAt
    <3>2. q[j].n <= Len(received)
      BY <2>3, <3>1 DEF Numbered
    <3> QED
      BY <1>3, <3>1, <3>2
  <2> QED
    BY <2>2, <2>3
<1>10. ASSUME NEW m
       PROVE  /\ OutAt(m) = TextAt(out, 1, m) /\ OutAt(m)' = TextAt(out', 1, m)
              /\ HeldAt(m) = TextAt(buffered, 1, m) /\ HeldAt(m)' = TextAt(buffered', 1, m)
              /\ TailAt(m) = TextAt(finishChunks, 1, m) /\ TailAt(m)' = TextAt(finishChunks', 1, m)
  BY <1>8 DEF OutAt, HeldAt, TailAt, TextAt
<1>11. ASSUME NEW m \in 1..Len(received'), HasContent(received'[m])
       PROVE  Placed(m)'
  <2>1. CASE m = Len(received) + 1
    <3>1. new(m)
      BY <1>1, <1>3, <1>11, <2>1 DEF HasContent
    <3>2. OutAt(m) = {} /\ HeldAt(m) = {} /\ TailAt(m) = {}
      <4>1. \A q \in Seq(Chunk) : Numbered(q) => TextAt(q, 1, m) = {}
        BY <1>9, <2>1
      <4> QED
        BY <1>0, <1>4, <1>10, <4>1
    <3>3. \A n : One({n})
      BY DEF One
    <3>4. CASE out' = Append(out, c) /\ buffered' = buffered /\ finishChunks' = finishChunks
      <4>1. OutAt(m)' = {Len(out) + 1} /\ HeldAt(m)' = {} /\ TailAt(m)' = {}
        BY <1>0, <1>9, <1>10, <3>1, <3>2, <3>4
      <4> QED
        BY <3>3, <4>1 DEF Placed, One
    <3>5. CASE buffered' = Append(buffered, c) /\ finishChunks' = finishChunks /\ out' = out
      <4>1. HeldAt(m)' = {Len(buffered) + 1} /\ OutAt(m)' = {} /\ TailAt(m)' = {}
        BY <1>0, <1>9, <1>10, <3>1, <3>2, <3>5
      <4> QED
        BY <3>3, <4>1 DEF Placed, One
    <3>6. CASE finishChunks' = Append(finishChunks, c) /\ buffered' = buffered /\ out' = out
      <4>1. TailAt(m)' = {Len(finishChunks) + 1} /\ OutAt(m)' = {} /\ HeldAt(m)' = {}
        BY <1>0, <1>9, <1>10, <3>1, <3>2, <3>6
      <4> QED
        BY <3>3, <4>1 DEF Placed, One
    <3> QED
      BY <1>2, <3>4, <3>5, <3>6
  <2>2. CASE m \in 1..Len(received)
    <3>1. ~new(m) /\ Placed(m)
      <4>1. c.n # m
        <5>1. Len(received) \in Nat /\ c.n = Len(received) + 1
          BY <1>1, <1>3
        <5> HIDE DEF new
        <5> QED
          BY <2>2, <5>1
      <4>2. received'[m] = received[m]
        BY <1>3, <2>2
      <4> QED
        BY <1>4, <1>11, <2>2, <4>1, <4>2
    <3>2. OutAt(m)' = OutAt(m) /\ HeldAt(m)' = HeldAt(m) /\ TailAt(m)' = TailAt(m)
      <4>1. \A q \in Seq(Chunk) : TextAt(Append(q, c), 1, m) = TextAt(q, 1, m)
        BY <1>9, <3>1
      <4> QED
        BY <1>0, <1>2, <1>10, <4>1
    <3> QED
      BY <3>1, <3>2 DEF Placed, One
  <2> QED
    BY <1>3, <2>1, <2>2
<1>12. \A m \in 1..Len(received') : received'[m].text \in {"", "text"}
  BY <1>1, <1>3, <1>4
<1> QED
  BY <1>7, <1>11, <1>12 DEF TextInv

(* A held chunk is looked at: its text goes out with it.                   *)
LEMMA EmitText ==
  ASSUME Inv, CourseInv, TextInv, EmitBuffered
  PROVE  TextInv'
<1> DEFINE b == buffered[pos]
           c == Screen(b)
<1>0. /\ buffered \in Seq(Chunk) /\ finishChunks \in Seq(Chunk) /\ out \in Seq(Chunk)
      /\ pos \in Nat \ {0} /\ received \in Seq(Chunk)
  BY DEF Inv, TypeOK
<1>1. /\ phase = "emit" /\ pos \in 1..Len(buffered) /\ c \in Chunk /\ b \in Chunk
      /\ Len(buffered') = Len(buffered) /\ buffered' \in Seq(Chunk)
      /\ \A k \in 1..Len(buffered) : buffered'[k] = IF k = pos THEN c ELSE buffered[k]
      /\ out' = Append(out, c) \/ (out' = out /\ ~Keeps(c))
      /\ pos' = pos + 1 /\ UNCHANGED <<phase, received, finishChunks>>
      /\ c.text = b.text /\ c.n = b.n
  BY EmitIs
<1> HIDE DEF c, b
<1>2. /\ Numbered(out) /\ Numbered(buffered) /\ Numbered(finishChunks)
      /\ \A m \in 1..Len(received) : HasContent(received[m]) => Placed(m)
      /\ \A m \in 1..Len(received) : received[m].text \in {"", "text"}
  BY <1>1 DEF TextInv
<1>3. /\ b = buffered[pos] /\ Len(buffered) \in Nat
      /\ \A k \in 1..Len(buffered) : buffered'[k].n = buffered[k].n /\ buffered'[k].text = buffered[k].text
  <2>1. b = buffered[pos]
    BY DEF b
  <2>2. Len(buffered) \in Nat
    BY <1>0
  <2>3. \A k \in 1..Len(buffered) : buffered'[k] = IF k = pos THEN c ELSE buffered[k]
    BY <1>1
  <2>4. c.text = b.text /\ c.n = b.n
    BY <1>1
  <2> QED
    BY <2>1, <2>2, <2>3, <2>4
<1>4. c.n <= Len(received) /\ (c.text = "text" => c.n > 0)
  BY <1>1, <1>2, <1>3 DEF Numbered
<1>5. Numbered(out)'
  <2>1. CASE out' = out
    BY <1>1, <1>2, <2>1 DEF Numbered
  <2>2. CASE out' = Append(out, c)
    <3>1. \A j \in 1..Len(Append(out, c)) :
            (j \in 1..Len(out) /\ Append(out, c)[j] = out[j]) \/ Append(out, c)[j] = c
      BY <1>0, <1>1, AppendIs
    <3> QED
      BY <1>1, <1>2, <1>4, <2>2, <3>1 DEF Numbered
  <2> QED
    BY <1>1, <2>1, <2>2
<1>6. Numbered(buffered)'
  BY <1>1, <1>2, <1>3 DEF Numbered
<1>7. Numbered(finishChunks)'
  BY <1>1, <1>2 DEF Numbered
<1>8. FromHeld = pos /\ FromHeld' = pos + 1 /\ FromBehind' = FromBehind
  BY <1>1 DEF FromHeld, FromBehind
<1>9. ASSUME NEW m
      PROVE  /\ Len(out) + 1 \notin OutAt(m)
             /\ OutAt(m)' = OutAt(m) \cup (IF pos \in HeldAt(m) THEN {Len(out) + 1} ELSE {})
             /\ HeldAt(m)' = HeldAt(m) \ {pos}
             /\ TailAt(m)' = TailAt(m)
  <2>1. pos \in HeldAt(m) <=> b.n = m /\ b.text = "text"
    <3>1. pos >= pos
      BY <1>0
    <3> QED
      BY <1>1, <1>3, <1>8, <3>1 DEF HeldAt, TextAt
  <2>2. HeldAt(m)' = HeldAt(m) \ {pos}
    <3>1. TextAt(buffered', pos + 1, m) = TextAt(buffered, pos, m) \ {pos}
      BY <1>0, <1>1, <1>3, TextNext
    <3> QED
      BY <1>8, <3>1 DEF HeldAt, TextAt
  <2>3. OutAt(m)' = OutAt(m) \cup (IF pos \in HeldAt(m) THEN {Len(out) + 1} ELSE {})
    <3>1. CASE out' = Append(out, c)
      <4>1. out \in Seq(Chunk) /\ c \in Chunk /\ 1 \in Nat /\ 1 <= Len(out) + 1
        BY <1>0, <1>1
      <4>2. TextAt(Append(out, c), 1, m) =
              TextAt(out, 1, m) \cup (IF c.n = m /\ c.text = "text" THEN {Len(out) + 1} ELSE {})
        BY <4>1, TextAppend
      <4>3. OutAt(m)' = TextAt(Append(out, c), 1, m)
        BY <3>1 DEF OutAt, TextAt
      <4> QED
        BY <1>1, <2>1, <4>2, <4>3 DEF OutAt
    <3>2. CASE out' = out /\ ~Keeps(c)
      <4>1. c.text # "text"
        BY <3>2 DEF Keeps, HasContent
      <4>2. OutAt(m)' = OutAt(m)
        BY <3>2 DEF OutAt, TextAt
      <4> QED
        BY <1>1, <2>1, <4>1, <4>2
    <3> QED
      BY <1>1, <3>1, <3>2
  <2>4. Len(out) + 1 \notin OutAt(m)
    BY <1>0 DEF OutAt, TextAt
  <2>5. TailAt(m)' = TailAt(m)
    BY <1>1, <1>8 DEF TailAt, TextAt
  <2> QED
    BY <2>2, <2>3, <2>4, <2>5
<1>10. ASSUME NEW m, Placed(m)
       PROVE  Placed(m)'
  <2> DEFINE A == OutAt(m)
             B == HeldAt(m)
             T == TailAt(m)
             x == Len(out) + 1
             A2 == A \cup (IF pos \in B THEN {x} ELSE {})
             B2 == B \ {pos}
  <2>1. OutAt(m)' = A2 /\ HeldAt(m)' = B2 /\ TailAt(m)' = T /\ x \notin A
    BY <1>9
  <2>2. \/ One(A) /\ B = {} /\ T = {}
        \/ A = {} /\ One(B) /\ T = {}
        \/ A = {} /\ B = {} /\ One(T)
    BY <1>10 DEF Placed
  <2>3. /\ One(A) /\ B = {} => One(A2) /\ B2 = {}
        /\ A = {} /\ One(B) => (One(A2) /\ B2 = {}) \/ (A2 = {} /\ One(B2))
        /\ A = {} /\ B = {} => A2 = {} /\ B2 = {}
    <3>1. x \notin A
      BY <2>1
    <3> HIDE DEF A, B, x
    <3> QED
      BY <3>1, Moves, Zenon
  <2> HIDE DEF A2, B2, T, A, B, x
  <2>4. \/ One(A2) /\ B2 = {} /\ T = {}
        \/ A2 = {} /\ One(B2) /\ T = {}
        \/ A2 = {} /\ B2 = {} /\ One(T)
    BY <2>2, <2>3
  <2> QED
    BY <2>1, <2>4 DEF Placed, One
<1>11. /\ \A m \in 1..Len(received') : HasContent(received'[m]) => Placed(m)'
       /\ \A m \in 1..Len(received') : received'[m].text \in {"", "text"}
  BY <1>1, <1>2, <1>10
<1> QED
  BY <1>5, <1>6, <1>7, <1>11 DEF TextInv

(* The steps from the held tool chunks to the end.                         *)
LEMMA TailText ==
  ASSUME Inv, CourseInv, TextInv, EmitTail
  PROVE  TextInv'
<1> DEFINE f == finishChunks[pos]
           c == IF AllStripped THEN EndTurn(f) ELSE f
<1>0. /\ buffered \in Seq(Chunk) /\ finishChunks \in Seq(Chunk) /\ out \in Seq(Chunk)
      /\ pos \in Nat \ {0} /\ received \in Seq(Chunk)
  BY DEF Inv, TypeOK
<1>1. /\ phase = "tail" /\ pos \in 1..Len(finishChunks)
      /\ finishChunks' = [finishChunks EXCEPT ![pos] = c]
      /\ out' = Append(out, c)
      /\ pos' = pos + 1 /\ UNCHANGED <<phase, received, buffered>>
  BY <1>0 DEF EmitTail
<1>2. f \in Chunk
  BY <1>0, <1>1
<1>3. c \in Chunk /\ c.text = f.text /\ c.n = f.n
  BY <1>2, MadeTexts
<1> HIDE DEF c
<1>4. /\ Len(finishChunks') = Len(finishChunks) /\ finishChunks' \in Seq(Chunk)
      /\ \A k \in 1..Len(finishChunks) : finishChunks'[k] = IF k = pos THEN c ELSE finishChunks[k]
      /\ Len(finishChunks) \in Nat
  BY <1>0, <1>1, <1>3
<1>5. /\ Numbered(out) /\ Numbered(buffered) /\ Numbered(finishChunks)
      /\ \A m \in 1..Len(received) : HasContent(received[m]) => Placed(m)
      /\ \A m \in 1..Len(received) : received[m].text \in {"", "text"}
  BY <1>1 DEF TextInv
<1>6. \A k \in 1..Len(finishChunks) :
        finishChunks'[k].n = finishChunks[k].n /\ finishChunks'[k].text = finishChunks[k].text
  <2>1. \A k \in 1..Len(finishChunks) : finishChunks'[k] = IF k = pos THEN c ELSE finishChunks[k]
    BY <1>4
  <2> QED
    BY <1>3, <2>1
<1>7. c.n <= Len(received) /\ (c.text = "text" => c.n > 0)
  BY <1>1, <1>3, <1>5 DEF Numbered
<1>8. Numbered(out)'
  <2>1. \A j \in 1..Len(Append(out, c)) :
          (j \in 1..Len(out) /\ Append(out, c)[j] = out[j]) \/ Append(out, c)[j] = c
    BY <1>0, <1>3, AppendIs
  <2> QED
    BY <1>1, <1>5, <1>7, <2>1 DEF Numbered
<1>9. Numbered(buffered)'
  BY <1>1, <1>5 DEF Numbered
<1>10. Numbered(finishChunks)'
  BY <1>1, <1>4, <1>5, <1>6 DEF Numbered
<1>11. FromBehind = pos /\ FromBehind' = pos + 1 /\ FromHeld' = FromHeld
  BY <1>1 DEF FromHeld, FromBehind
<1>12. ASSUME NEW m
       PROVE  /\ Len(out) + 1 \notin OutAt(m)
              /\ OutAt(m)' = OutAt(m) \cup (IF pos \in TailAt(m) THEN {Len(out) + 1} ELSE {})
              /\ TailAt(m)' = TailAt(m) \ {pos}
              /\ HeldAt(m)' = HeldAt(m)
  <2>1. pos \in TailAt(m) <=> f.n = m /\ f.text = "text"
    <3>1. pos >= pos
      BY <1>0
    <3> QED
      BY <1>1, <1>11, <3>1 DEF TailAt, TextAt
  <2>2. TailAt(m)' = TailAt(m) \ {pos}
    <3>1. TextAt(finishChunks', pos + 1, m) = TextAt(finishChunks, pos, m) \ {pos}
      <4>1. finishChunks \in Seq(Chunk) /\ finishChunks' \in Seq(Chunk)
        BY <1>0, <1>4
      <4>2. Len(finishChunks') = Len(finishChunks) /\ pos \in Nat
        BY <1>0, <1>4
      <4> QED
        BY <1>6, <4>1, <4>2, TextNext
    <3> QED
      BY <1>11, <3>1 DEF TailAt, TextAt
  <2>3. OutAt(m)' = OutAt(m) \cup (IF pos \in TailAt(m) THEN {Len(out) + 1} ELSE {})
    <3>1. out \in Seq(Chunk) /\ c \in Chunk /\ 1 \in Nat /\ 1 <= Len(out) + 1
      BY <1>0, <1>3
    <3>2. TextAt(Append(out, c), 1, m) =
            TextAt(out, 1, m) \cup (IF c.n = m /\ c.text = "text" THEN {Len(out) + 1} ELSE {})
      BY <3>1, TextAppend
    <3>3. OutAt(m)' = TextAt(Append(out, c), 1, m)
      BY <1>1 DEF OutAt, TextAt
    <3> QED
      BY <1>3, <2>1, <3>2, <3>3 DEF OutAt
  <2>4. Len(out) + 1 \notin OutAt(m)
    BY <1>0 DEF OutAt, TextAt
  <2>5. HeldAt(m)' = HeldAt(m)
    BY <1>1, <1>11 DEF HeldAt, TextAt
  <2> QED
    BY <2>2, <2>3, <2>4, <2>5
<1>13. ASSUME NEW m, Placed(m)
       PROVE  Placed(m)'
  <2> DEFINE A == OutAt(m)
             B == TailAt(m)
             T == HeldAt(m)
             x == Len(out) + 1
             A2 == A \cup (IF pos \in B THEN {x} ELSE {})
             B2 == B \ {pos}
  <2>1. OutAt(m)' = A2 /\ TailAt(m)' = B2 /\ HeldAt(m)' = T /\ x \notin A
    BY <1>12
  <2>2. \/ One(A) /\ B = {} /\ T = {}
        \/ A = {} /\ One(B) /\ T = {}
        \/ A = {} /\ B = {} /\ One(T)
    BY <1>13 DEF Placed
  <2>3. /\ One(A) /\ B = {} => One(A2) /\ B2 = {}
        /\ A = {} /\ One(B) => (One(A2) /\ B2 = {}) \/ (A2 = {} /\ One(B2))
        /\ A = {} /\ B = {} => A2 = {} /\ B2 = {}
    <3>1. x \notin A
      BY <2>1
    <3> HIDE DEF A, B, x
    <3> QED
      BY <3>1, Moves, Zenon
  <2> HIDE DEF A2, B2, T, A, B, x
  <2>4. \/ One(A2) /\ B2 = {} /\ T = {}
        \/ A2 = {} /\ One(B2) /\ T = {}
        \/ A2 = {} /\ B2 = {} /\ One(T)
    BY <2>2, <2>3
  <2> QED
    BY <2>1, <2>4 DEF Placed, One
<1>14. /\ \A m \in 1..Len(received') : HasContent(received'[m]) => Placed(m)'
       /\ \A m \in 1..Len(received') : received'[m].text \in {"", "text"}
  BY <1>1, <1>5, <1>13
<1> QED
  BY <1>8, <1>9, <1>10, <1>14 DEF TextInv

(* Steps that move no text: chunks the guard made, verdicts, the end of a  *)
(* phase.                                                                  *)
LEMMA OtherText ==
  ASSUME Inv, CourseInv, TextInv, [Next]_vars,
         ~ \E s \in Shapes : Receive(s), ~EmitBuffered, ~EmitTail
  PROVE  TextInv'
<1>0. /\ buffered \in Seq(Chunk) /\ finishChunks \in Seq(Chunk) /\ out \in Seq(Chunk)
      /\ pos \in Nat \ {0} /\ received \in Seq(Chunk)
  BY DEF Inv, TypeOK
<1>1. CASE phase' \notin {"collect", "judge", "emit", "tail"} /\ ~Delivered'
  BY <1>1 DEF TextInv
<1>2. CASE phase' \in {"collect", "judge", "emit", "tail"} \/ Delivered'
  <2>1. /\ UNCHANGED <<received, buffered, finishChunks>>
        /\ phase \in {"collect", "judge", "emit", "tail"} \/ Delivered
        /\ \/ out' = out
           \/ \E c \in Chunk : out' = Append(out, c) /\ c.n = 0 /\ c.text # "text"
    <3>1. CASE Stall
      <4>1. received # <<>> /\ phase = "collect"
        BY <3>1 DEF Stall, Inv, TakenInv
      <4> DEFINE c == Keepalive(Last(received))
      <4>2. c \in Chunk /\ c.n = 0 /\ c.text = ""
        BY <4>1, LastReceived, MadeTexts
      <4>3. out' = Append(out, c) /\ UNCHANGED <<received, buffered, finishChunks>>
        BY <3>1 DEF Stall
      <4> HIDE DEF c
      <4> QED
        BY <4>1, <4>2, <4>3
    <3>2. CASE EndBuffered
      <4>1. phase = "emit" /\ UNCHANGED <<received, buffered, finishChunks>>
            /\ (out' = out \/ (Strips /\ out' = Append(out, Note(Last(received)))))
        BY <3>2 DEF EndBuffered
      <4>2. ASSUME Strips
            PROVE  /\ Note(Last(received)) \in Chunk /\ Note(Last(received)).n = 0
                   /\ Note(Last(received)).text # "text"
        <5>1. received # <<>>
          BY <4>2 DEF Strips, Blocked, Inv, TypeOK, TakenInv
        <5> QED
          BY <5>1, LastReceived, MadeTexts
      <4> QED
        BY <4>1, <4>2
    <3>3. CASE GuardError \/ UpstreamError \/ \E s \in Shapes : ChunkError(s)
      BY <1>2, <3>3, FailureIs DEF Delivered
    <3>4. CASE EmitFlush \/ EndFlush
      BY <1>2, <3>4 DEF EmitFlush, EndFlush, CourseInv, Delivered
    <3>5. CASE UpstreamEnds \/ (\E i \in Indices : JudgeCall(i)) \/ AllJudged \/ EndTail
               \/ ClientGone \/ UNCHANGED vars
      BY <1>2, <3>5
         DEF UpstreamEnds, JudgeCall, AllJudged, EndTail, ClientGone, Delivered, vars
    <3> QED
      BY <3>1, <3>2, <3>3, <3>4, <3>5, StepKinds DEF QuietStep
  <2>2. /\ Numbered(out) /\ Numbered(buffered) /\ Numbered(finishChunks)
        /\ \A m \in 1..Len(received) : HasContent(received[m]) => Placed(m)
        /\ \A m \in 1..Len(received) : received[m].text \in {"", "text"}
    BY <2>1 DEF TextInv
  <2>3. ASSUME NEW m
        PROVE  OutAt(m)' = OutAt(m)
    <3>1. CASE out' = out
      BY <3>1 DEF OutAt, TextAt
    <3>2. ASSUME NEW c \in Chunk, out' = Append(out, c), c.n = 0, c.text # "text"
          PROVE  OutAt(m)' = OutAt(m)
      <4>1. out \in Seq(Chunk) /\ c \in Chunk /\ 1 \in Nat /\ 1 <= Len(out) + 1
        BY <1>0
      <4>2. TextAt(Append(out, c), 1, m) =
              TextAt(out, 1, m) \cup (IF c.n = m /\ c.text = "text" THEN {Len(out) + 1} ELSE {})
        BY <4>1, TextAppend
      <4>3. OutAt(m)' = TextAt(Append(out, c), 1, m)
        BY <3>2 DEF OutAt, TextAt
      <4> QED
        BY <3>2, <4>2, <4>3 DEF OutAt
    <3> QED
      BY <2>1, <3>1, <3>2
  <2>4. Numbered(out)'
    <3>1. CASE out' = out
      BY <2>1, <2>2, <3>1 DEF Numbered
    <3>2. ASSUME NEW c \in Chunk, out' = Append(out, c), c.n = 0, c.text # "text"
          PROVE  Numbered(out)'
      <4>1. \A j \in 1..Len(Append(out, c)) :
              (j \in 1..Len(out) /\ Append(out, c)[j] = out[j]) \/ Append(out, c)[j] = c
        BY <1>0, AppendIs
      <4>2. 0 <= Len(received)
        BY <1>0
      <4> QED
        BY <2>1, <2>2, <3>2, <4>1, <4>2 DEF Numbered
    <3> QED
      BY <2>1, <3>1, <3>2
  <2>5. Numbered(buffered)' /\ Numbered(finishChunks)'
    BY <2>1, <2>2 DEF Numbered
  <2>6. ASSUME NEW m
        PROVE  HeldAt(m)' = HeldAt(m) /\ TailAt(m)' = TailAt(m)
    <3>1. CASE EndBuffered
      <4>1. /\ phase = "emit" /\ phase' = "tail" /\ pos > Len(buffered) /\ pos' = 1
            /\ UNCHANGED <<buffered, finishChunks>>
        BY <3>1 DEF EndBuffered
      <4>2. FromHeld = pos /\ FromHeld' = Len(buffered) + 1 /\ FromBehind = 1 /\ FromBehind' = 1
        BY <4>1 DEF FromHeld, FromBehind
      <4>3. \A j \in 1..Len(buffered) : ~(j >= pos) /\ ~(j >= Len(buffered) + 1)
        BY <1>0, <4>1
      <4> QED
        BY <4>1, <4>2, <4>3 DEF HeldAt, TailAt, TextAt
    <3>2. CASE EndTail
      <4>1. /\ phase = "tail" /\ phase' = "done" /\ pos > Len(finishChunks)
            /\ UNCHANGED <<buffered, finishChunks>>
        BY <3>2 DEF EndTail
      <4>2. /\ FromHeld = Len(buffered) + 1 /\ FromHeld' = Len(buffered) + 1
            /\ FromBehind = pos /\ FromBehind' = Len(finishChunks) + 1
        BY <4>1 DEF FromHeld, FromBehind
      <4>3. \A j \in 1..Len(finishChunks) : ~(j >= pos) /\ ~(j >= Len(finishChunks) + 1)
        BY <1>0, <4>1
      <4> QED
        BY <4>1, <4>2, <4>3 DEF HeldAt, TailAt, TextAt
    <3>3. CASE ~EndBuffered /\ ~EndTail
      <4>1. FromHeld' = FromHeld /\ FromBehind' = FromBehind
        <5>1. CASE Stall \/ UpstreamEnds \/ (\E i \in Indices : JudgeCall(i)) \/ AllJudged
          <6>1. /\ phase \in {"collect", "judge", "emit"} /\ phase' \in {"collect", "judge", "emit"}
                /\ pos' = pos
            BY <5>1 DEF Stall, UpstreamEnds, JudgeCall, AllJudged
          <6> QED
            BY <6>1 DEF FromHeld, FromBehind
        <5>2. CASE UNCHANGED vars
          BY <5>2 DEF FromHeld, FromBehind, vars
        <5>3. CASE EmitFlush \/ EndFlush \/ ClientGone
          BY <1>2, <5>3 DEF EmitFlush, EndFlush, ClientGone, CourseInv, Delivered
        <5>4. CASE GuardError \/ UpstreamError \/ \E s \in Shapes : ChunkError(s)
          BY <1>2, <5>4, FailureIs DEF Delivered
        <5> QED
          BY <3>3, <5>1, <5>2, <5>3, <5>4, StepKinds DEF QuietStep
      <4> QED
        BY <2>1, <4>1 DEF HeldAt, TailAt, TextAt
    <3> QED
      BY <3>1, <3>2, <3>3
  <2>7. \A m : Placed(m) => Placed(m)'
    BY <2>3, <2>6 DEF Placed, One
  <2> QED
    BY <2>1, <2>2, <2>4, <2>5, <2>7 DEF TextInv
<1> QED
  BY <1>1, <1>2

(* Whatever was blocked: when a reply went through, each chunk with text   *)
(* is out exactly once, and no chunk of the guard's own carries such text. *)
THEOREM TextIsKept == Spec => []TextKept
<1>1. Init => BaseInv /\ TextInv
  BY InitBaseInv DEF Init, TextInv, Numbered
<1>2. BaseInv /\ TextInv /\ [Next]_vars => BaseInv' /\ TextInv'
  BY NextBaseInv, ReceiveText, EmitText, TailText, OtherText DEF BaseInv
<1>3. BaseInv /\ TextInv => TextKept
  <2> SUFFICES ASSUME BaseInv, TextInv, Delivered
               PROVE  /\ \A k \in 1..Len(received) : HasContent(received[k]) =>
                           Cardinality({j \in 1..Len(out) : out[j].n = k /\ out[j].text = "text"}) = 1
                      /\ \A j \in 1..Len(out) : out[j].text = "text" => out[j].n > 0
    BY DEF TextKept
  <2>1. ASSUME NEW k \in 1..Len(received), HasContent(received[k])
        PROVE  Cardinality({j \in 1..Len(out) : out[j].n = k /\ out[j].text = "text"}) = 1
    <3>1. Placed(k)
      BY <2>1 DEF TextInv
    <3>2. HeldAt(k) = {} /\ TailAt(k) = {}
      <4>1. Len(buffered) \in Nat /\ Len(finishChunks) \in Nat
        BY DEF BaseInv, Inv, TypeOK
      <4>2. phase = "done"
        BY DEF Delivered
      <4> QED
        BY <4>1, <4>2 DEF HeldAt, TailAt, TextAt, FromHeld, FromBehind
    <3>3. One(OutAt(k))
      BY <3>1, <3>2 DEF Placed, One
    <3>4. PICK j : OutAt(k) = {j}
      BY <3>3 DEF One
    <3>5. OutAt(k) = {j1 \in 1..Len(out) : out[j1].n = k /\ out[j1].text = "text"}
      BY DEF OutAt, TextAt
    <3> QED
      BY <3>4, <3>5, FS_Singleton
  <2> QED
    BY <2>1 DEF TextInv, Numbered
<1> QED
  BY <1>1, <1>2, <1>3, PTL DEF Spec
-----------------------------------------------------------------------------
(***************************************************************************)
(* The finish reasons.                                                     *)
(***************************************************************************)

(* The chunks are numbered as they come, and the one with its finish       *)
(* reason is the last of a choice.                                         *)
StreamInv ==
  /\ \A k \in 1..Len(received) : received[k].n = k
  /\ \A k, l \in 1..Len(received) :
       received[k].fin # "none" /\ received[l].ch = received[k].ch => l <= k

(* Both buffers are in the stream's order, and what is still to be yielded *)
(* of them is as it came; the first has every chunk with tool calls.       *)
Ordered(q) ==
  \A j \in 1..Len(q) :
    /\ q[j].n \in 1..Len(received)
    /\ \A l \in 1..Len(q) : l < j => q[l].n < q[j].n
Unread(q, from) == \A j \in 1..Len(q) : j >= from => q[j] = received[q[j].n]
QueueInv ==
  /\ Ordered(buffered) /\ Unread(buffered, FromHeld)
  /\ Ordered(finishChunks) /\ Unread(finishChunks, FromBehind)
  /\ \A j \in 1..Len(buffered) : HasTools(received[buffered[j].n])
  /\ \A j \in 1..Len(finishChunks) : ~HasTools(received[finishChunks[j].n])
  /\ \A m \in 1..Len(received) : HasTools(received[m]) => \E j \in 1..Len(buffered) : buffered[j].n = m

(* The replacements that are out are of the calls seen so far.             *)
SeenInv ==
  phase \in {"collect", "judge", "emit"} /\ Rewrites =>
    \A i \in Blocked :
      i \in emitted <=>
        \E j \in 1..Len(buffered) : j < pos /\ i \in DOMAIN received[buffered[j].n].tcs

(* A finish reason is held, or it went with its emptied chunk, or it is    *)
(* out and nothing of its choice is held any more.                         *)
Late == phase \in {"emit", "tail"} \/ Delivered
Turned(k) ==
  IF AllStripped /\ received[k].fin = "tool_calls" THEN "stop" ELSE received[k].fin
IsHeld(k)   == \E j \in 1..Len(buffered) : j >= FromHeld /\ buffered[j].n = k
IsBehind(k) == \E j \in 1..Len(finishChunks) : j >= FromBehind /\ finishChunks[j].n = k
IsOut(ch, k) ==
  /\ ~Emptied(k)
  /\ \E j \in 1..Len(out) : Ends(out, ch) = {j} /\ out[j].fin = Turned(k)
  /\ \A j \in 1..Len(buffered) : j >= FromHeld => buffered[j].ch # ch
  /\ \A j \in 1..Len(finishChunks) : j >= FromBehind => finishChunks[j].n # k
EndsAt(ch, k) ==
  \/ Ends(out, ch) = {} /\ (IsHeld(k) \/ IsBehind(k))
  \/ Late /\ Ends(out, ch) = {} /\ Emptied(k)
  \/ Late /\ IsOut(ch, k)
ToolsFirst(s, ch) == \A k \in Ends(s, ch) : \A j \in ToolPositions(s, ch) : j <= k
EndsInv ==
  \A ch \in ChoiceIds :
    /\ Ends(received, ch) = {} => Ends(out, ch) = {}
    /\ \A k \in Ends(received, ch) : EndsAt(ch, k)
    /\ ToolsFirst(out, ch)

Running == phase \in {"collect", "judge", "emit", "tail"} \/ Delivered
EndInv == Running =>
    StreamInv /\ QueueInv /\ SeenInv /\ EndsInv

(* One more chunk in a stream.                                             *)
LEMMA EndsAppend ==
  ASSUME NEW q \in Seq(Chunk), NEW c \in Chunk, NEW ch
  PROVE  /\ Ends(Append(q, c), ch) =
              Ends(q, ch) \cup (IF c.ch = ch /\ c.fin # "none" THEN {Len(q) + 1} ELSE {})
         /\ (c.ch = ch /\ HasTools(c) => Ends(q, ch) = {}) /\ ToolsFirst(q, ch)
              => ToolsFirst(Append(q, c), ch)
<1> DEFINE r == Append(q, c)
<1>1. /\ Len(q) \in Nat /\ Len(r) = Len(q) + 1 /\ r[Len(q) + 1] = c
      /\ \A k \in 1..Len(q) : r[k] = q[k]
      /\ 1..Len(r) = 1..Len(q) \cup {Len(q) + 1}
  OBVIOUS
<1> HIDE DEF r
<1>2. Ends(r, ch) = Ends(q, ch) \cup (IF c.ch = ch /\ c.fin # "none" THEN {Len(q) + 1} ELSE {})
  BY <1>1 DEF Ends
<1>3. ToolPositions(r, ch) =
        ToolPositions(q, ch) \cup (IF c.ch = ch /\ HasTools(c) THEN {Len(q) + 1} ELSE {})
  BY <1>1 DEF ToolPositions
<1>4. ASSUME c.ch = ch /\ HasTools(c) => Ends(q, ch) = {}, ToolsFirst(q, ch),
             NEW k \in Ends(r, ch), NEW j \in ToolPositions(r, ch)
      PROVE  j <= k
  <2>1. ToolPositions(q, ch) \subseteq 1..Len(q)
    BY DEF ToolPositions
  <2>2. CASE k = Len(q) + 1
    BY <1>1, <1>3, <2>1, <2>2
  <2>3. CASE k \in Ends(q, ch)
    BY <1>3, <1>4, <2>3 DEF ToolsFirst
  <2> QED
    BY <1>2, <1>4, <2>2, <2>3
<1>5. (c.ch = ch /\ HasTools(c) => Ends(q, ch) = {}) /\ ToolsFirst(q, ch) => ToolsFirst(r, ch)
  BY <1>4 DEF ToolsFirst
<1> QED
  BY <1>2, <1>5 DEF r

(* The stream grows by a chunk: a buffer stays in order, with the chunk at *)
(* its end or without it.                                                  *)
LEMMA OrderedGrows ==
  ASSUME NEW q \in Seq(Chunk), NEW r, NEW c \in Chunk, received \in Seq(Chunk),
         received' = Append(received, c), c.n = Len(received) + 1,
         Ordered(q), Unread(q, 1), r = q \/ r = Append(q, c)
  PROVE  /\ r \in Seq(Chunk)
         /\ \A j \in 1..Len(r) :
              /\ r[j].n \in 1..Len(received')
              /\ \A l \in 1..Len(r) : l < j => r[l].n < r[j].n
              /\ r[j] = received'[r[j].n]
              /\ (j \in 1..Len(q) /\ r[j] = q[j] /\ received'[r[j].n] = received[q[j].n])
                   \/ (j = Len(q) + 1 /\ r[j] = c)
<1>1. /\ Len(received) \in Nat /\ Len(received') = Len(received) + 1
      /\ received'[Len(received) + 1] = c
      /\ \A k \in 1..Len(received) : received'[k] = received[k]
  OBVIOUS
<1>2. \A j \in 1..Len(q) : /\ q[j].n \in 1..Len(received)
                           /\ \A l \in 1..Len(q) : l < j => q[l].n < q[j].n
                           /\ q[j] = received[q[j].n]
  BY DEF Ordered, Unread
<1>3. CASE r = q
  BY <1>1, <1>2, <1>3
<1>4. CASE r = Append(q, c)
  <2>1. /\ r \in Seq(Chunk) /\ Len(q) \in Nat /\ Len(r) = Len(q) + 1 /\ r[Len(q) + 1] = c
        /\ \A k \in 1..Len(q) : r[k] = q[k]
        /\ \A k \in 1..Len(r) : k \in 1..Len(q) \/ k = Len(q) + 1
    BY <1>4, AppendAt
  <2>2. ASSUME NEW j \in 1..Len(r), NEW l \in 1..Len(r), l < j
        PROVE  r[l].n < r[j].n
    <3>1. l \in 1..Len(q)
      BY <2>1, <2>2
    <3>2. CASE j \in 1..Len(q)
      BY <1>2, <2>1, <2>2, <3>1, <3>2
    <3>3. CASE j = Len(q) + 1
      BY <1>1, <1>2, <2>1, <3>1, <3>3
    <3> QED
      BY <2>1, <3>2, <3>3
  <2>3. ASSUME NEW j \in 1..Len(r)
        PROVE  /\ r[j].n \in 1..Len(received')
               /\ r[j] = received'[r[j].n]
               /\ (j \in 1..Len(q) /\ r[j] = q[j] /\ received'[r[j].n] = received[q[j].n])
                    \/ (j = Len(q) + 1 /\ r[j] = c)
    <3>1. CASE j \in 1..Len(q)
      BY <1>1, <1>2, <2>1, <3>1
    <3>2. CASE j = Len(q) + 1
      BY <1>1, <2>1, <3>2
    <3> QED
      BY <2>1, <3>1, <3>2
  <2> QED
    BY <2>1, <2>2, <2>3
<1> QED
  BY <1>3, <1>4

(* A chunk arrives: its finish reason, the only one of its choice, waits.  *)
LEMMA ReceiveEnd ==
  ASSUME Inv, CourseInv, EndInv, NEW s \in Shapes, Receive(s)
  PROVE  EndInv'
<1> DEFINE c == Arrived(s)
<1>0. /\ received \in Seq(Chunk) /\ buffered \in Seq(Chunk) /\ finishChunks \in Seq(Chunk)
      /\ out \in Seq(Chunk) /\ pos = 1 /\ pos' = 1 /\ phase = "collect" /\ phase' = "collect"
      /\ received' = Append(received, c) /\ emitted = {} /\ emitted' = {}
      /\ ~Finished(c.ch)
  BY DEF Inv, TypeOK, CourseInv, Receive, UpstreamMay, Arrived
<1>1. c \in Chunk /\ c.n = Len(received) + 1
  BY ArrivedChunk DEF Inv, Arrived
<1>2. \/ HasTools(c) /\ buffered' = Append(buffered, c) /\ finishChunks' = finishChunks /\ out' = out
      \/ ~HasTools(c) /\ finishChunks' = Append(finishChunks, c) /\ buffered' = buffered /\ out' = out
      \/ ~HasTools(c) /\ c.fin = "none" /\ out' = Append(out, c) /\ buffered' = buffered
         /\ finishChunks' = finishChunks
  BY DEF Receive
<1> HIDE DEF c
<1>3. /\ Len(received) \in Nat /\ Len(received') = Len(received) + 1
      /\ received'[Len(received) + 1] = c
      /\ \A k \in 1..Len(received) : received'[k] = received[k]
      /\ \A k \in 1..Len(received') : k \in 1..Len(received) \/ k = Len(received) + 1
  BY <1>0, <1>1
<1>4. FromHeld = 1 /\ FromHeld' = 1 /\ FromBehind = 1 /\ FromBehind' = 1
  BY <1>0 DEF FromHeld, FromBehind
<1>5. StreamInv /\ QueueInv /\ SeenInv /\ EndsInv
  BY <1>0 DEF EndInv, Running
<1>6. StreamInv'
  <2>1. \A k \in 1..Len(received') : received'[k].n = k
    BY <1>1, <1>3, <1>5 DEF StreamInv
  <2>2. ASSUME NEW k \in 1..Len(received'), NEW l \in 1..Len(received'),
               received'[k].fin # "none", received'[l].ch = received'[k].ch
        PROVE  l <= k
    <3>1. CASE k = Len(received) + 1
      BY <1>3, <3>1
    <3>2. CASE k \in 1..Len(received)
      <4>1. received[k].ch # c.ch
        BY <1>0, <1>3, <2>2, <3>2 DEF Finished
      <4>2. l \in 1..Len(received)
        BY <1>3, <2>2, <3>2, <4>1
      <4> QED
        BY <1>3, <1>5, <2>2, <3>2, <4>2 DEF StreamInv
    <3> QED
      BY <1>3, <3>1, <3>2
  <2> QED
    BY <2>1, <2>2 DEF StreamInv
<1>7. ASSUME NEW q \in Seq(Chunk), NEW r, Ordered(q), Unread(q, 1), r = q \/ r = Append(q, c)
      PROVE  /\ \A j \in 1..Len(r) :
                  /\ r[j].n \in 1..Len(received')
                  /\ \A l \in 1..Len(r) : l < j => r[l].n < r[j].n
                  /\ r[j] = received'[r[j].n]
                  /\ (j \in 1..Len(q) /\ r[j] = q[j] /\ received'[r[j].n] = received[q[j].n])
                       \/ (j = Len(q) + 1 /\ r[j] = c)
  BY <1>0, <1>1, <1>7, OrderedGrows
<1>8. /\ Ordered(buffered)' /\ Unread(buffered, FromHeld)'
      /\ \A j \in 1..Len(buffered') : HasTools(received'[buffered'[j].n])
  <2>1. Ordered(buffered) /\ Unread(buffered, 1)
        /\ \A j \in 1..Len(buffered) : HasTools(received[buffered[j].n])
    BY <1>4, <1>5 DEF QueueInv
  <2>2. buffered' = buffered \/ (buffered' = Append(buffered, c) /\ HasTools(c))
    BY <1>2
  <2>3. \A j \in 1..Len(buffered') :
          /\ buffered'[j].n \in 1..Len(received')
          /\ \A l \in 1..Len(buffered') : l < j => buffered'[l].n < buffered'[j].n
          /\ buffered'[j] = received'[buffered'[j].n]
          /\ (j \in 1..Len(buffered) /\ buffered'[j] = buffered[j]
                /\ received'[buffered'[j].n] = received[buffered[j].n])
               \/ (j = Len(buffered) + 1 /\ buffered'[j] = c)
    BY <1>0, <1>7, <2>1, <2>2
  <2>4. Len(buffered) + 1 \in 1..Len(buffered') => HasTools(c)
    BY <1>0, <2>2
  <2>5. \A j \in 1..Len(buffered') : HasTools(received'[buffered'[j].n])
    BY <2>1, <2>3, <2>4
  <2> QED
    BY <2>3, <2>5 DEF Ordered, Unread
<1>9. /\ Ordered(finishChunks)' /\ Unread(finishChunks, FromBehind)'
      /\ \A j \in 1..Len(finishChunks') : ~HasTools(received'[finishChunks'[j].n])
  <2>1. Ordered(finishChunks) /\ Unread(finishChunks, 1)
        /\ \A j \in 1..Len(finishChunks) : ~HasTools(received[finishChunks[j].n])
    BY <1>4, <1>5 DEF QueueInv
  <2>2. finishChunks' = finishChunks \/ (finishChunks' = Append(finishChunks, c) /\ ~HasTools(c))
    BY <1>2
  <2>3. \A j \in 1..Len(finishChunks') :
          /\ finishChunks'[j].n \in 1..Len(received')
          /\ \A l \in 1..Len(finishChunks') : l < j => finishChunks'[l].n < finishChunks'[j].n
          /\ finishChunks'[j] = received'[finishChunks'[j].n]
          /\ (j \in 1..Len(finishChunks) /\ finishChunks'[j] = finishChunks[j]
                /\ received'[finishChunks'[j].n] = received[finishChunks[j].n])
               \/ (j = Len(finishChunks) + 1 /\ finishChunks'[j] = c)
    BY <1>0, <1>7, <2>1, <2>2
  <2>4. Len(finishChunks) + 1 \in 1..Len(finishChunks') => ~HasTools(c)
    BY <1>0, <2>2
  <2>5. \A j \in 1..Len(finishChunks') : ~HasTools(received'[finishChunks'[j].n])
    BY <2>1, <2>3, <2>4
  <2> QED
    BY <2>3, <2>5 DEF Ordered, Unread
<1>10. /\ \A j \in 1..Len(buffered) : j \in 1..Len(buffered') /\ buffered'[j] = buffered[j]
       /\ \A j \in 1..Len(finishChunks) :
            j \in 1..Len(finishChunks') /\ finishChunks'[j] = finishChunks[j]
       /\ HasTools(c) => \E j \in 1..Len(buffered') : buffered'[j] = c
       /\ ~HasTools(c) /\ c.fin # "none" =>
            \E j \in 1..Len(finishChunks') : finishChunks'[j] = c
  <2>1. ASSUME NEW q \in Seq(Chunk), NEW r, r = q \/ r = Append(q, c)
        PROVE  /\ \A j \in 1..Len(q) : j \in 1..Len(r) /\ r[j] = q[j]
               /\ r = Append(q, c) => \E j \in 1..Len(r) : r[j] = c
    <3> DEFINE t == Append(q, c)
    <3>1. /\ \A j \in 1..Len(q) : j \in 1..Len(t) /\ t[j] = q[j]
          /\ Len(q) + 1 \in 1..Len(t) /\ t[Len(q) + 1] = c
      BY <1>1, <2>1
    <3> HIDE DEF t
    <3>2. \E j \in 1..Len(t) : t[j] = c
      BY <3>1
    <3> QED
      BY <2>1, <3>1, <3>2 DEF t
  <2>2. /\ buffered' = buffered \/ buffered' = Append(buffered, c)
        /\ HasTools(c) => buffered' = Append(buffered, c)
        /\ finishChunks' = finishChunks \/ finishChunks' = Append(finishChunks, c)
        /\ ~HasTools(c) /\ c.fin # "none" => finishChunks' = Append(finishChunks, c)
    BY <1>2
  <2>3. /\ \A j \in 1..Len(buffered) : j \in 1..Len(buffered') /\ buffered'[j] = buffered[j]
        /\ buffered' = Append(buffered, c) => \E j \in 1..Len(buffered') : buffered'[j] = c
    BY <1>0, <2>1, <2>2, Zenon
  <2>4. /\ \A j \in 1..Len(finishChunks) :
             j \in 1..Len(finishChunks') /\ finishChunks'[j] = finishChunks[j]
        /\ finishChunks' = Append(finishChunks, c) =>
             \E j \in 1..Len(finishChunks') : finishChunks'[j] = c
    BY <1>0, <2>1, <2>2, Zenon
  <2> QED
    BY <2>2, <2>3, <2>4
<1>11. ASSUME NEW m \in 1..Len(received'), HasTools(received'[m])
       PROVE  \E j \in 1..Len(buffered') : buffered'[j].n = m
  <2>1. CASE m = Len(received) + 1
    BY <1>1, <1>3, <1>10, <1>11, <2>1
  <2>2. CASE m \in 1..Len(received)
    BY <1>3, <1>5, <1>10, <1>11, <2>2 DEF QueueInv
  <2> QED
    BY <1>3, <2>1, <2>2
<1>12. QueueInv'
  BY <1>8, <1>9, <1>11 DEF QueueInv
<1>13. SeenInv'
  BY <1>0 DEF SeenInv
<1>14. ASSUME NEW ch \in ChoiceIds
       PROVE  /\ Ends(received', ch) = {} => Ends(out', ch) = {}
              /\ \A k \in Ends(received', ch) : EndsAt(ch, k)'
              /\ ToolsFirst(out', ch)
  <2>1. /\ Ends(received, ch) = {} => Ends(out, ch) = {}
        /\ \A k \in Ends(received, ch) : EndsAt(ch, k)
        /\ ToolsFirst(out, ch) /\ ~Late
    BY <1>0, <1>5 DEF EndsInv, Late, Delivered
  <2>2. Ends(received', ch) =
          Ends(received, ch) \cup (IF c.ch = ch /\ c.fin # "none" THEN {Len(received) + 1} ELSE {})
    BY <1>0, <1>1, EndsAppend
  <2>3. Ends(out, ch) = {}
    BY <2>1 DEF EndsAt
  <2>4. Ends(out', ch) = {} /\ ToolsFirst(out', ch)
    <3>1. CASE out' = out
      BY <2>1, <2>3, <3>1
    <3>2. CASE out' = Append(out, c) /\ c.fin = "none"
      <4>1. /\ Ends(Append(out, c), ch) =
                 Ends(out, ch) \cup (IF c.ch = ch /\ c.fin # "none" THEN {Len(out) + 1} ELSE {})
            /\ (c.ch = ch /\ HasTools(c) => Ends(out, ch) = {}) /\ ToolsFirst(out, ch)
                 => ToolsFirst(Append(out, c), ch)
        BY <1>0, <1>1, EndsAppend
      <4> QED
        BY <2>1, <2>3, <3>2, <4>1
    <3> QED
      BY <1>2, <3>1, <3>2
  <2>5. Ends(out, ch)' = {}
    BY <2>4 DEF Ends
  <2>6. \A k : IsHeld(k) => IsHeld(k)'
    BY <1>4, <1>10 DEF IsHeld
  <2>7. \A k : IsBehind(k) => IsBehind(k)'
    BY <1>4, <1>10 DEF IsBehind
  <2>8. \A k \in Ends(received, ch) : EndsAt(ch, k)'
    BY <2>1, <2>5, <2>6, <2>7 DEF EndsAt
  <2>9. ASSUME c.ch = ch, c.fin # "none", NEW k, k = Len(received) + 1
        PROVE  EndsAt(ch, k)'
    <3>1. \/ \E j \in 1..Len(buffered') : buffered'[j].n = k
          \/ \E j \in 1..Len(finishChunks') : finishChunks'[j].n = k
      BY <1>1, <1>10, <2>9
    <3>2. \/ \E j \in 1..Len(buffered') : j >= FromHeld' /\ buffered'[j].n = k
          \/ \E j \in 1..Len(finishChunks') : j >= FromBehind' /\ finishChunks'[j].n = k
      BY <1>4, <3>1
    <3> QED
      BY <2>5, <3>2 DEF EndsAt, IsHeld, IsBehind
  <2> QED
    BY <2>2, <2>4, <2>8, <2>9
<1>15. EndsInv'
  BY <1>14 DEF EndsInv, Ends, ToolsFirst, ToolPositions
<1> QED
  BY <1>6, <1>12, <1>13, <1>15 DEF EndInv

(* A held chunk is worth sending unless it is emptied: its calls are all   *)
(* stripped, or rewritten where they were seen before.                     *)
LEMMA KeptIs ==
  ASSUME Inv, EndInv, EmitBuffered
  PROVE  LET b == buffered[pos] IN
         /\ b.n \in 1..Len(received) /\ b = received[b.n]
         /\ Emptied(b.n) => out' = out
         /\ ~Emptied(b.n) => out' = Append(out, Screen(b))
<1> DEFINE b == buffered[pos]
           c == Screen(b)
           m == b.n
<1>0. /\ phase = "emit" /\ pos \in 1..Len(buffered) /\ buffered \in Seq(Chunk)
      /\ Len(buffered) \in Nat
      /\ out' = IF Blocked = {} \/ Keeps(c) THEN Append(out, c) ELSE out
  BY DEF EmitBuffered, Inv, TypeOK
<1>1. QueueInv /\ SeenInv /\ FromHeld = pos
  BY <1>0 DEF EndInv, Running, FromHeld
<1>2. m \in 1..Len(received) /\ b = received[m]
  BY <1>0, <1>1 DEF QueueInv, Ordered, Unread
<1>3. HasTools(b)
  BY <1>0, <1>1, <1>2 DEF QueueInv
<1>4. /\ c.text = b.text
      /\ DOMAIN c.tcs = {i \in DOMAIN b.tcs : i \notin Blocked \/ (Rewrites /\ i \notin emitted)}
  BY EmitIs
<1> HIDE DEF b, c, m
<1>5. ASSUME NEW i \in Blocked, Rewrites
      PROVE  i \in emitted <=> \E l \in 1..(m - 1) : i \in DOMAIN received[l].tcs
  <2>1. i \in emitted <=>
          \E j \in 1..Len(buffered) : j < pos /\ i \in DOMAIN received[buffered[j].n].tcs
    BY <1>0, <1>1, <1>5 DEF SeenInv
  <2>2. m = buffered[pos].n
    BY DEF m, b
  <2>3. ASSUME NEW j \in 1..Len(buffered), j < pos, i \in DOMAIN received[buffered[j].n].tcs
        PROVE  \E l \in 1..(m - 1) : i \in DOMAIN received[l].tcs
    <3>1. buffered[j].n \in 1..Len(received) /\ buffered[j].n < m
      BY <1>0, <1>1, <2>2, <2>3 DEF QueueInv, Ordered
    <3>2. buffered[j].n \in 1..(m - 1)
      BY <1>2, <3>1
    <3> QED
      BY <2>3, <3>2
  <2>4. ASSUME NEW l \in 1..(m - 1), i \in DOMAIN received[l].tcs
        PROVE  \E j \in 1..Len(buffered) : j < pos /\ i \in DOMAIN received[buffered[j].n].tcs
    <3>1. l \in 1..Len(received) /\ HasTools(received[l]) /\ l < m
      BY <1>2, <2>4 DEF HasTools
    <3>2. PICK j \in 1..Len(buffered) : buffered[j].n = l
      BY <1>1, <3>1 DEF QueueInv
    <3>3. ~(pos < j) /\ j # pos
      <4>1. pos < j => m < l
        BY <1>0, <1>1, <2>2, <3>2 DEF QueueInv, Ordered
      <4> QED
        BY <1>2, <2>2, <3>1, <3>2, <4>1
    <3> QED
      BY <1>0, <2>4, <3>2, <3>3
  <2> QED
    BY <2>1, <2>3, <2>4
<1>6. Emptied(m) <=>
        /\ ~HasContent(b)
        /\ \A i \in DOMAIN b.tcs :
             i \in Blocked /\ (Rewrites => \E l \in 1..(m - 1) : i \in DOMAIN received[l].tcs)
  BY <1>2, <1>3 DEF Emptied
<1>7. Emptied(m) <=>
        ~HasContent(b) /\ \A i \in DOMAIN b.tcs : i \in Blocked /\ (Rewrites => i \in emitted)
  BY <1>5, <1>6
<1>8. Emptied(m) => Blocked # {}
  BY <1>3, <1>7 DEF HasTools
<1>9. HasTools(c) <=> \E i \in DOMAIN b.tcs : i \notin Blocked \/ (Rewrites /\ i \notin emitted)
  BY <1>4 DEF HasTools
<1>10. HasContent(c) <=> HasContent(b)
  BY <1>4 DEF HasContent
<1>11. Emptied(m) <=> Blocked # {} /\ ~Keeps(c)
  BY <1>7, <1>8, <1>9, <1>10 DEF Keeps
<1> QED
  BY <1>0, <1>2, <1>11 DEF m, c, b

(* The finish reason on a held chunk goes out with it as it is: were it    *)
(* tool_calls on a chunk of which all calls are stripped, the chunk would  *)
(* be emptied, unless it had text as well.                                 *)
LEMMA EmitEnd ==
  ASSUME FinishApart, TurnInv, EndInv, EmitBuffered
  PROVE  EndInv'
<1> DEFINE b == buffered[pos]
           c == Screen(b)
           m == b.n
<1>0. /\ Inv /\ received \in Seq(Chunk) /\ buffered \in Seq(Chunk) /\ finishChunks \in Seq(Chunk)
      /\ out \in Seq(Chunk) /\ Len(buffered) \in Nat /\ Len(received) \in Nat
  BY DEF TurnInv, BaseInv, Inv, TypeOK
<1>1. /\ phase = "emit" /\ pos \in 1..Len(buffered) /\ c \in Chunk /\ b \in Chunk
      /\ Len(buffered') = Len(buffered) /\ buffered' \in Seq(Chunk)
      /\ \A k \in 1..Len(buffered) : buffered'[k] = IF k = pos THEN c ELSE buffered[k]
      /\ pos' = pos + 1 /\ UNCHANGED <<conf, phase, received, finishChunks, verdicts, cause>>
      /\ emitted' = emitted \cup (IF Rewrites THEN Blocked \cap DOMAIN b.tcs ELSE {})
      /\ c.ch = b.ch /\ c.fin = b.fin /\ c.n = b.n
      /\ DOMAIN c.tcs = {i \in DOMAIN b.tcs : i \notin Blocked \/ (Rewrites /\ i \notin emitted)}
  BY <1>0, EmitIs
<1>2. /\ m \in 1..Len(received) /\ b = received[m]
      /\ Emptied(m) => out' = out
      /\ ~Emptied(m) => out' = Append(out, c)
  BY <1>0, KeptIs
<1>3. StreamInv /\ QueueInv /\ SeenInv /\ EndsInv /\ FromHeld = pos /\ FromHeld' = pos + 1
      /\ FromBehind = 1 /\ FromBehind' = 1
  BY <1>1 DEF EndInv, Running, FromHeld, FromBehind
<1>4. HasTools(b) /\ b = buffered[pos] /\ m = b.n
  BY <1>1, <1>2, <1>3 DEF QueueInv
<1>5. ~Emptied(m) => b.fin = Turned(m)
  <2>1. ASSUME ~Emptied(m), AllStripped, b.fin = "tool_calls"
        PROVE  FALSE
    <3>1. ~Rewrites /\ Blocked = DOMAIN verdicts /\ DOMAIN verdicts = DOMAIN calls
      BY <1>0, <1>1, <2>1 DEF AllStripped, Strips, Inv, VerdictsInv
    <3>2. DOMAIN b.tcs \subseteq DOMAIN calls
      BY <1>0, <1>1, <1>4 DEF Inv, BuffersInv
    <3>3. HasContent(b)
      BY <1>2, <1>4, <2>1, <3>1, <3>2 DEF Emptied
    <3>4. pos \in pos..Len(buffered)
      BY <1>1
    <3> QED
      BY <1>1, <1>4, <2>1, <3>3, <3>4 DEF TurnInv, FinishInv
  <2> QED
    BY <1>2, <2>1 DEF Turned
<1> HIDE DEF b, c, m
<1>6. \A k \in 1..Len(buffered) : buffered'[k].n = buffered[k].n
  BY <1>1, <1>4
<1>7. QueueInv'
  <2>1. Ordered(buffered)'
    BY <1>1, <1>3, <1>6 DEF QueueInv, Ordered
  <2>2. Unread(buffered, FromHeld)'
    <3>1. \A j \in 1..Len(buffered) : j >= pos + 1 => j >= pos /\ j # pos
      BY <1>1
    <3>2. \A j \in 1..Len(buffered) : j >= pos + 1 => buffered'[j] = received'[buffered'[j].n]
      BY <1>1, <1>3, <3>1 DEF QueueInv, Unread
    <3> QED
      BY <1>1, <1>3, <3>2 DEF Unread
  <2>3. /\ Ordered(finishChunks)' /\ Unread(finishChunks, FromBehind)'
    BY <1>1, <1>3 DEF QueueInv, Ordered, Unread
  <2> QED
    BY <1>1, <1>3, <1>6, <2>1, <2>2, <2>3 DEF QueueInv
<1>8. SeenInv'
  <2> SUFFICES ASSUME Rewrites, NEW i \in Blocked
               PROVE  i \in emitted' <=> \E j \in 1..Len(buffered') :
                        j < pos' /\ i \in DOMAIN received'[buffered'[j].n].tcs
    BY <1>1 DEF SeenInv, Rewrites, Blocked
  <2>1. i \in emitted <=>
          \E j \in 1..Len(buffered) : j < pos /\ i \in DOMAIN received[buffered[j].n].tcs
    BY <1>1, <1>3 DEF SeenInv
  <2>2. i \in emitted' <=> i \in emitted \/ i \in DOMAIN b.tcs
    BY <1>1
  <2>3. \A j \in 1..Len(buffered) : j < pos + 1 <=> j < pos \/ j = pos
    BY <1>1
  <2>4. DOMAIN received[buffered[pos].n].tcs = DOMAIN b.tcs
    BY <1>2, <1>4
  <2>5. i \in DOMAIN b.tcs <=>
          \E j \in 1..Len(buffered) : j = pos /\ i \in DOMAIN received[buffered[j].n].tcs
    BY <1>1, <2>4
  <2>6. i \in emitted' <=> \E j \in 1..Len(buffered) :
          j < pos + 1 /\ i \in DOMAIN received[buffered[j].n].tcs
    BY <2>1, <2>2, <2>3, <2>5
  <2> QED
    BY <1>1, <1>6, <2>6
<1>9. /\ \A k : Emptied(k)' <=> Emptied(k)
      /\ \A k : Turned(k)' = Turned(k)
      /\ Late /\ Late'
  BY <1>1 DEF Emptied, Turned, AllStripped, Strips, Rewrites, Blocked, Late
<1>10. ASSUME NEW ch \in ChoiceIds
       PROVE  /\ Ends(received, ch)' = {} => Ends(out, ch)' = {}
              /\ \A k \in Ends(received, ch)' : EndsAt(ch, k)'
              /\ ToolsFirst(out, ch)'
  <2>1. /\ Ends(received, ch) = {} => Ends(out, ch) = {}
        /\ \A k \in Ends(received, ch) : EndsAt(ch, k)
        /\ ToolsFirst(out, ch)
    BY <1>3 DEF EndsInv
  <2>2. Ends(received, ch)' = Ends(received, ch)
    BY <1>1 DEF Ends
  <2>3. /\ Ends(Append(out, c), ch) =
             Ends(out, ch) \cup (IF c.ch = ch /\ c.fin # "none" THEN {Len(out) + 1} ELSE {})
        /\ (c.ch = ch /\ HasTools(c) => Ends(out, ch) = {}) /\ ToolsFirst(out, ch)
             => ToolsFirst(Append(out, c), ch)
    BY <1>0, <1>1, EndsAppend
  <2>4. b.ch = ch => Ends(out, ch) = {}
    <3>1. ASSUME b.ch = ch, NEW k \in Ends(received, ch), IsOut(ch, k)
          PROVE  FALSE
      <4>1. pos >= FromHeld
        BY <1>1, <1>3
      <4> QED
        BY <1>1, <1>4, <3>1, <4>1 DEF IsOut
    <3> QED
      BY <2>1, <3>1 DEF EndsAt
  <2>5. ToolsFirst(out, ch)'
    <3>1. ToolsFirst(out', ch)
      BY <1>1, <1>2, <2>1, <2>3, <2>4
    <3> QED
      BY <3>1 DEF ToolsFirst, Ends, ToolPositions
  <2>6. CASE b.ch = ch /\ b.fin # "none"
    <3>1. m \in Ends(received, ch)
      BY <1>2, <2>6 DEF Ends
    <3>2. ASSUME NEW k \in Ends(received, ch)
          PROVE  k = m
      <4>1. k \in 1..Len(received) /\ m <= k /\ k <= m
        BY <1>2, <1>3, <2>6, <3>1, <3>2 DEF Ends, StreamInv
      <4> QED
        BY <1>2, <4>1
    <3>3. CASE Emptied(m)
      <4>1. Ends(out, ch)' = {}
        BY <1>2, <2>4, <2>6, <3>3 DEF Ends
      <4>2. ASSUME NEW k, k = m
            PROVE  EndsAt(ch, k)'
        BY <1>9, <3>3, <4>1, <4>2 DEF EndsAt
      <4> QED
        BY <2>2, <2>5, <3>2, <4>1, <4>2
    <3>4. CASE ~Emptied(m)
      <4>1. /\ Len(out) \in Nat /\ Len(out') = Len(out) + 1 /\ out'[Len(out) + 1] = c
            /\ out' = Append(out, c)
        BY <1>0, <1>1, <1>2, <3>4
      <4>2. Ends(out', ch) = {Len(out) + 1}
        BY <1>1, <2>3, <2>4, <2>6, <4>1
      <4>3. \A j \in 1..Len(buffered') : j >= FromHeld' => buffered'[j].ch # ch
        <5>1. ASSUME NEW j \in 1..Len(buffered), j >= pos + 1, buffered[j].ch = ch
              PROVE  FALSE
          <6>1. /\ buffered[j].n \in 1..Len(received) /\ m < buffered[j].n
                /\ buffered[j] = received[buffered[j].n]
            BY <1>1, <1>3, <1>4, <5>1 DEF QueueInv, Ordered, Unread
          <6>2. buffered[j].n <= m
            BY <1>2, <1>3, <2>6, <5>1, <6>1 DEF StreamInv
          <6> QED
            BY <1>2, <6>1, <6>2
        <5>2. \A j \in 1..Len(buffered) : j >= pos + 1 => buffered'[j] = buffered[j]
          BY <1>1
        <5> QED
          BY <1>1, <1>3, <5>1, <5>2
      <4>4. \A j \in 1..Len(finishChunks') : finishChunks'[j].n # m
        BY <1>1, <1>2, <1>3, <1>4 DEF QueueInv
      <4>5. ASSUME NEW k, k = m
            PROVE  IsOut(ch, k)'
        <5>1. ~Emptied(k)' /\ out'[Len(out) + 1].fin = Turned(k)'
          BY <1>1, <1>5, <1>9, <3>4, <4>1, <4>5
        <5>2. \E j \in 1..Len(out') : Ends(out', ch) = {j} /\ out'[j].fin = Turned(k)'
          BY <4>1, <4>2, <5>1
        <5> QED
          BY <4>3, <4>4, <4>5, <5>1, <5>2 DEF IsOut, Ends
      <4>6. ASSUME NEW k, k = m
            PROVE  EndsAt(ch, k)'
        BY <1>9, <4>5, <4>6 DEF EndsAt
      <4> QED
        BY <2>2, <2>5, <3>1, <3>2, <4>6
    <3> QED
      BY <3>3, <3>4
  <2>7. CASE ~(b.ch = ch /\ b.fin # "none")
    <3>1. Ends(out', ch) = Ends(out, ch)
      BY <1>1, <1>2, <2>3, <2>7
    <3>2. Ends(out, ch)' = Ends(out, ch)
      BY <3>1 DEF Ends
    <3>3. ASSUME NEW k \in Ends(received, ch)
          PROVE  /\ IsHeld(k) => IsHeld(k)'
                 /\ IsBehind(k) => IsBehind(k)'
                 /\ IsOut(ch, k) => IsOut(ch, k)'
      <4>1. m # k
        BY <1>2, <2>7, <3>3 DEF Ends
      <4>2. ASSUME NEW j \in 1..Len(buffered), j >= pos, buffered[j].n = k
            PROVE  j >= pos + 1
        BY <1>1, <1>4, <4>1, <4>2
      <4>3. IsHeld(k) => IsHeld(k)'
        BY <1>1, <1>3, <1>6, <4>2 DEF IsHeld
      <4>4. IsBehind(k) => IsBehind(k)'
        BY <1>1, <1>3 DEF IsBehind
      <4>5. ASSUME IsOut(ch, k)
            PROVE  IsOut(ch, k)'
        <5>1. PICK j \in 1..Len(out) : Ends(out, ch) = {j} /\ out[j].fin = Turned(k)
          BY <4>5 DEF IsOut
        <5>2. j \in 1..Len(out') /\ out'[j] = out[j]
          BY <1>0, <1>1, <1>2, <5>1
        <5>3. \A l \in 1..Len(buffered) : l >= pos + 1 => buffered'[l] = buffered[l] /\ l >= pos
          BY <1>1
        <5>4. \A l \in 1..Len(buffered') : l >= FromHeld' => buffered'[l].ch # ch
          BY <1>1, <1>3, <4>5, <5>3 DEF IsOut
        <5>5. \E l \in 1..Len(out') : Ends(out, ch)' = {l} /\ out'[l].fin = Turned(k)'
          BY <1>9, <3>2, <5>1, <5>2
        <5> QED
          BY <1>1, <1>3, <1>9, <4>5, <5>4, <5>5 DEF IsOut
      <4> QED
        BY <4>3, <4>4, <4>5
    <3>4. \A k \in Ends(received, ch) : EndsAt(ch, k)'
      BY <1>9, <2>1, <3>2, <3>3 DEF EndsAt
    <3> QED
      BY <2>1, <2>2, <2>5, <3>2, <3>4
  <2> QED
    BY <2>6, <2>7
<1>11. EndsInv'
  BY <1>10 DEF EndsInv
<1>12. StreamInv'
  BY <1>1, <1>3 DEF StreamInv
<1> QED
  BY <1>7, <1>8, <1>11, <1>12 DEF EndInv

(* Finish reasons of what the guard makes of a chunk.                      *)
LEMMA MadeEnds ==
  ASSUME NEW c \in Chunk
  PROVE  /\ Keepalive(c) \in Chunk /\ Note(c) \in Chunk /\ EndTurn(c) \in Chunk
         /\ Keepalive(c).fin = "none" /\ ~HasTools(Keepalive(c))
         /\ Note(c).fin = "none" /\ ~HasTools(Note(c))
         /\ EndTurn(c).ch = c.ch /\ EndTurn(c).n = c.n /\ EndTurn(c).tcs = c.tcs
         /\ EndTurn(c).fin = IF c.fin = "tool_calls" THEN "stop" ELSE c.fin
<1> DEFINE a == Keepalive(c)
           t == IF c.ch = NoChoice THEN "" ELSE "note"
<1>1. /\ a \in Chunk /\ Note(c) \in Chunk /\ EndTurn(c) \in Chunk
      /\ ~HasTools(a) /\ ~HasTools(Note(c))
  BY MadeChunks DEF HasTools
<1>2. a.fin = "none"
  BY DEF Keepalive, Chunk
<1>3. /\ EndTurn(c).ch = c.ch /\ EndTurn(c).n = c.n /\ EndTurn(c).tcs = c.tcs
      /\ EndTurn(c).fin = IF c.fin = "tool_calls" THEN "stop" ELSE c.fin
  BY DEF EndTurn, Chunk
<1>4. Note(c) = [a EXCEPT !.text = t]
  BY DEF Note
<1> HIDE DEF a, t
<1>5. Note(c).fin = "none"
  BY <1>1, <1>2, <1>4 DEF Chunk
<1> QED
  BY <1>1, <1>2, <1>3, <1>5 DEF a

(* The finish reason of a chunk held behind the tool chunks goes out, as   *)
(* stop if it was tool_calls and every call was stripped.                  *)
LEMMA TailEnd ==
  ASSUME Inv, EndInv, EmitTail
  PROVE  EndInv'
<1> DEFINE f == finishChunks[pos]
           c == IF AllStripped THEN EndTurn(f) ELSE f
           m == f.n
<1>0. /\ received \in Seq(Chunk) /\ buffered \in Seq(Chunk) /\ finishChunks \in Seq(Chunk)
      /\ out \in Seq(Chunk) /\ pos \in Nat \ {0} /\ Len(finishChunks) \in Nat
      /\ Len(buffered) \in Nat /\ Len(received) \in Nat
  BY DEF Inv, TypeOK
<1>1. /\ phase = "tail" /\ pos \in 1..Len(finishChunks)
      /\ finishChunks' = [finishChunks EXCEPT ![pos] = c]
      /\ out' = Append(out, c)
      /\ pos' = pos + 1 /\ UNCHANGED <<conf, phase, received, buffered, verdicts, cause>>
  BY <1>0 DEF EmitTail
<1>2. f \in Chunk /\ f = finishChunks[pos] /\ m = f.n
  BY <1>0, <1>1
<1>3. /\ c \in Chunk /\ c.ch = f.ch /\ c.n = f.n /\ c.tcs = f.tcs
      /\ c.fin = IF AllStripped /\ f.fin = "tool_calls" THEN "stop" ELSE f.fin
  BY <1>2, MadeEnds
<1> HIDE DEF f, c, m
<1>4. /\ Len(finishChunks') = Len(finishChunks) /\ finishChunks' \in Seq(Chunk)
      /\ \A k \in 1..Len(finishChunks) : finishChunks'[k] = IF k = pos THEN c ELSE finishChunks[k]
  BY <1>0, <1>1, <1>3
<1>5. StreamInv /\ QueueInv /\ EndsInv /\ FromBehind = pos /\ FromBehind' = pos + 1
      /\ FromHeld = Len(buffered) + 1 /\ FromHeld' = Len(buffered) + 1
  BY <1>1 DEF EndInv, Running, FromHeld, FromBehind
<1>6. m \in 1..Len(received) /\ f = received[m] /\ ~HasTools(f)
  <2>1. pos >= FromBehind
    BY <1>0, <1>5
  <2> QED
    BY <1>1, <1>2, <1>5, <2>1 DEF QueueInv, Ordered, Unread
<1>7. ~Emptied(m) /\ c.fin = Turned(m) /\ ~HasTools(c)
  BY <1>3, <1>6 DEF Emptied, Turned, HasTools
<1>8. \A k \in 1..Len(finishChunks) : finishChunks'[k].n = finishChunks[k].n
  BY <1>2, <1>3, <1>4
<1>9. QueueInv'
  <2>1. Ordered(finishChunks)'
    BY <1>1, <1>4, <1>5, <1>8 DEF QueueInv, Ordered
  <2>2. Unread(finishChunks, FromBehind)'
    <3>1. \A j \in 1..Len(finishChunks) : j >= pos + 1 => j >= pos /\ j # pos
      BY <1>0
    <3>2. \A j \in 1..Len(finishChunks) : j >= pos + 1 =>
            finishChunks'[j] = received'[finishChunks'[j].n]
      BY <1>1, <1>4, <1>5, <3>1 DEF QueueInv, Unread
    <3> QED
      BY <1>4, <1>5, <3>2 DEF Unread
  <2>3. /\ Ordered(buffered)' /\ Unread(buffered, FromHeld)'
    BY <1>1, <1>5 DEF QueueInv, Ordered, Unread
  <2> QED
    BY <1>1, <1>4, <1>5, <1>8, <2>1, <2>2, <2>3 DEF QueueInv
<1>10. /\ \A k : Emptied(k)' <=> Emptied(k)
       /\ \A k : Turned(k)' = Turned(k)
       /\ Late /\ Late'
  BY <1>1 DEF Emptied, Turned, AllStripped, Strips, Rewrites, Blocked, Late
<1>11. ASSUME NEW ch \in ChoiceIds
       PROVE  /\ Ends(received, ch)' = {} => Ends(out, ch)' = {}
              /\ \A k \in Ends(received, ch)' : EndsAt(ch, k)'
              /\ ToolsFirst(out, ch)'
  <2>1. /\ Ends(received, ch) = {} => Ends(out, ch) = {}
        /\ \A k \in Ends(received, ch) : EndsAt(ch, k)
        /\ ToolsFirst(out, ch)
    BY <1>5 DEF EndsInv
  <2>2. Ends(received, ch)' = Ends(received, ch)
    BY <1>1 DEF Ends
  <2>3. /\ Ends(Append(out, c), ch) =
             Ends(out, ch) \cup (IF c.ch = ch /\ c.fin # "none" THEN {Len(out) + 1} ELSE {})
        /\ (c.ch = ch /\ HasTools(c) => Ends(out, ch) = {}) /\ ToolsFirst(out, ch)
             => ToolsFirst(Append(out, c), ch)
    BY <1>0, <1>3, EndsAppend
  <2>4. ToolsFirst(out, ch)'
    <3>1. ToolsFirst(out', ch)
      BY <1>1, <1>7, <2>1, <2>3
    <3> QED
      BY <3>1 DEF ToolsFirst, Ends, ToolPositions
  <2>5. c.fin # "none" <=> f.fin # "none"
    BY <1>3
  <2>6. CASE f.ch = ch /\ f.fin # "none"
    <3>1. m \in Ends(received, ch)
      BY <1>6, <2>6 DEF Ends
    <3>2. ASSUME NEW k \in Ends(received, ch)
          PROVE  k = m
      <4>1. k \in 1..Len(received) /\ m <= k /\ k <= m
        BY <1>5, <1>6, <2>6, <3>1, <3>2 DEF Ends, StreamInv
      <4> QED
        BY <1>6, <4>1
    <3>3. Ends(out, ch) = {}
      <4>1. ~IsOut(ch, m)
        <5>1. pos >= FromBehind
          BY <1>0, <1>5
        <5> QED
          BY <1>1, <1>2, <5>1 DEF IsOut
      <4> QED
        BY <2>1, <3>1, <4>1 DEF EndsAt
    <3>4. /\ Len(out) \in Nat /\ Len(out') = Len(out) + 1 /\ out'[Len(out) + 1] = c
      BY <1>0, <1>1, <1>3
    <3>5. Ends(out', ch) = {Len(out) + 1}
      BY <1>1, <1>3, <2>3, <2>5, <2>6, <3>3
    <3>6. \A j \in 1..Len(finishChunks') : j >= FromBehind' => finishChunks'[j].n # m
      <4>1. \A j \in 1..Len(finishChunks) : j >= pos + 1 => pos < j
        BY <1>0
      <4>2. \A j \in 1..Len(finishChunks) : pos < j => m < finishChunks[j].n
        BY <1>1, <1>2, <1>5 DEF QueueInv, Ordered
      <4> QED
        BY <1>4, <1>5, <1>6, <1>8, <4>1, <4>2
    <3>7. \A j \in 1..Len(buffered') : ~(j >= FromHeld')
      BY <1>0, <1>1, <1>5
    <3>8. ASSUME NEW k, k = m
          PROVE  IsOut(ch, k)'
      <4>1. ~Emptied(k)' /\ out'[Len(out) + 1].fin = Turned(k)'
        BY <1>7, <1>10, <3>4, <3>8
      <4>2. \E j \in 1..Len(out') : Ends(out', ch) = {j} /\ out'[j].fin = Turned(k)'
        BY <3>4, <3>5, <4>1
      <4> QED
        BY <3>6, <3>7, <3>8, <4>1, <4>2 DEF IsOut, Ends
    <3>9. ASSUME NEW k, k = m
          PROVE  EndsAt(ch, k)'
      BY <1>10, <3>8, <3>9 DEF EndsAt
    <3> QED
      BY <2>2, <2>4, <3>1, <3>2, <3>9
  <2>7. CASE ~(f.ch = ch /\ f.fin # "none")
    <3>1. Ends(out', ch) = Ends(out, ch)
      BY <1>1, <1>3, <2>3, <2>5, <2>7
    <3>2. Ends(out, ch)' = Ends(out, ch)
      BY <3>1 DEF Ends
    <3>3. ASSUME NEW k \in Ends(received, ch)
          PROVE  /\ ~IsHeld(k)
                 /\ IsBehind(k) => IsBehind(k)'
                 /\ IsOut(ch, k) => IsOut(ch, k)'
      <4>1. m # k
        BY <1>6, <2>7, <3>3 DEF Ends
      <4>2. ~IsHeld(k)
        BY <1>0, <1>5 DEF IsHeld
      <4>3. ASSUME NEW j \in 1..Len(finishChunks), j >= pos, finishChunks[j].n = k
            PROVE  j >= pos + 1
        BY <1>0, <1>2, <4>1, <4>3
      <4>4. IsBehind(k) => IsBehind(k)'
        BY <1>4, <1>5, <1>8, <4>3 DEF IsBehind
      <4>5. ASSUME IsOut(ch, k)
            PROVE  IsOut(ch, k)'
        <5>1. PICK j \in 1..Len(out) : Ends(out, ch) = {j} /\ out[j].fin = Turned(k)
          BY <4>5 DEF IsOut
        <5>2. j \in 1..Len(out') /\ out'[j] = out[j]
          BY <1>0, <1>1, <1>3, <5>1
        <5>3. \A l \in 1..Len(finishChunks) : l >= pos + 1 => l >= pos
          BY <1>0
        <5>4. \A l \in 1..Len(finishChunks') : l >= FromBehind' => finishChunks'[l].n # k
          BY <1>4, <1>5, <1>8, <4>5, <5>3 DEF IsOut
        <5>5. \E l \in 1..Len(out') : Ends(out, ch)' = {l} /\ out'[l].fin = Turned(k)'
          BY <1>10, <3>2, <5>1, <5>2
        <5>6. \A l \in 1..Len(buffered') : ~(l >= FromHeld')
          BY <1>0, <1>1, <1>5
        <5> QED
          BY <1>10, <4>5, <5>4, <5>5, <5>6 DEF IsOut
      <4> QED
        BY <4>2, <4>4, <4>5
    <3>4. \A k \in Ends(received, ch) : EndsAt(ch, k)'
      BY <1>10, <2>1, <3>2, <3>3 DEF EndsAt
    <3> QED
      BY <2>1, <2>2, <2>4, <3>2, <3>4
  <2> QED
    BY <2>6, <2>7
<1>12. EndsInv'
  BY <1>11 DEF EndsInv
<1>13. StreamInv' /\ SeenInv'
  BY <1>1, <1>5 DEF StreamInv, SeenInv
<1> QED
  BY <1>9, <1>12, <1>13 DEF EndInv

(* The other steps yield no finish reason and no call.                     *)
LEMMA OtherEnd ==
  ASSUME Inv, CourseInv, EndInv, [Next]_vars,
         ~ \E s \in Shapes : Receive(s), ~EmitBuffered, ~EmitTail
  PROVE  EndInv'
<1> SUFFICES ASSUME Running' PROVE EndInv'
  BY DEF EndInv
<1>0. /\ received \in Seq(Chunk) /\ buffered \in Seq(Chunk) /\ finishChunks \in Seq(Chunk)
      /\ out \in Seq(Chunk) /\ pos \in Nat \ {0} /\ Len(finishChunks) \in Nat
      /\ Len(buffered) \in Nat
  BY DEF Inv, TypeOK
<1>1. ASSUME NEW c \in Chunk, out' = Append(out, c), c.fin = "none", ~HasTools(c), NEW ch
      PROVE  Ends(out', ch) = Ends(out, ch) /\ (ToolsFirst(out, ch) => ToolsFirst(out', ch))
  <2>1. /\ Ends(Append(out, c), ch) =
             Ends(out, ch) \cup (IF c.ch = ch /\ c.fin # "none" THEN {Len(out) + 1} ELSE {})
        /\ (c.ch = ch /\ HasTools(c) => Ends(out, ch) = {}) /\ ToolsFirst(out, ch)
             => ToolsFirst(Append(out, c), ch)
    BY <1>0, <1>1, EndsAppend
  <2> QED
    BY <1>1, <2>1
<1>2. /\ UNCHANGED <<conf, received, buffered, finishChunks, emitted>>
      /\ Running
      /\ out' = out \/ \E c \in Chunk : out' = Append(out, c) /\ c.fin = "none" /\ ~HasTools(c)
      /\ \/ phase = "judge" /\ phase' = "judge" /\ pos' = pos
         \/ /\ verdicts' = verdicts
            /\ \/ phase' = phase /\ pos' = pos
               \/ phase = "collect" /\ phase' = "judge" /\ pos' = pos
               \/ phase = "judge" /\ phase' = "emit" /\ pos' = pos
               \/ phase = "emit" /\ phase' = "tail" /\ pos > Len(buffered) /\ pos' = 1
               \/ phase = "tail" /\ phase' = "done" /\ pos > Len(finishChunks)
  <2>1. CASE Stall
    <3>1. received # <<>> /\ phase = "collect"
      BY <2>1 DEF Stall, Inv, TakenInv
    <3> DEFINE c == Keepalive(Last(received))
    <3>2. c \in Chunk /\ c.fin = "none" /\ ~HasTools(c)
      BY <3>1, LastReceived, MadeEnds
    <3>3. out' = Append(out, c)
          /\ UNCHANGED <<conf, phase, received, buffered, finishChunks, emitted, verdicts, pos>>
      BY <2>1 DEF Stall
    <3> HIDE DEF c
    <3> QED
      BY <3>1, <3>2, <3>3 DEF Running
  <2>2. CASE EndBuffered
    <3>1. phase = "emit" /\ phase' = "tail" /\ pos > Len(buffered) /\ pos' = 1
          /\ UNCHANGED <<conf, received, buffered, finishChunks, emitted, verdicts>>
          /\ (out' = out \/ (Strips /\ out' = Append(out, Note(Last(received)))))
      BY <2>2 DEF EndBuffered
    <3>2. ASSUME Strips
          PROVE  /\ Note(Last(received)) \in Chunk /\ Note(Last(received)).fin = "none"
                 /\ ~HasTools(Note(Last(received)))
      <4>1. received # <<>>
        BY <3>2 DEF Strips, Blocked, Inv, TypeOK, TakenInv
      <4> QED
        BY <4>1, LastReceived, MadeEnds
    <3> QED
      BY <3>1, <3>2 DEF Running
  <2>3. CASE GuardError \/ UpstreamError \/ \E s \in Shapes : ChunkError(s)
    BY <2>3, FailureIs DEF Running, Delivered
  <2>4. CASE EmitFlush \/ EndFlush
    BY <2>4 DEF EmitFlush, EndFlush, CourseInv, Running, Delivered
  <2>5. CASE UpstreamEnds \/ (\E i \in Indices : JudgeCall(i)) \/ AllJudged
    BY <2>5 DEF UpstreamEnds, JudgeCall, AllJudged, Running
  <2>6. CASE EndTail \/ ClientGone \/ UNCHANGED vars
    BY <2>6 DEF EndTail, ClientGone, vars, Running, Delivered
  <2> QED
    BY <2>1, <2>2, <2>3, <2>4, <2>5, <2>6, StepKinds DEF QuietStep
<1>3. StreamInv /\ QueueInv /\ SeenInv /\ EndsInv
  BY <1>2 DEF EndInv
<1>4. StreamInv'
  BY <1>2, <1>3 DEF StreamInv
<1>5. /\ \A j \in 1..Len(buffered) : j >= FromHeld' <=> j >= FromHeld
      /\ \A j \in 1..Len(finishChunks) : j >= FromBehind' <=> j >= FromBehind
  BY <1>0, <1>2 DEF FromHeld, FromBehind
<1>6. QueueInv'
  BY <1>2, <1>3, <1>5 DEF QueueInv, Ordered, Unread
<1>7. SeenInv'
  <2>1. CASE verdicts' = verdicts
    BY <1>2, <1>3, <2>1 DEF SeenInv, Rewrites, Blocked
  <2>2. CASE phase' = "judge"
    <3>1. pos' = 1 /\ emitted' = {}
      BY <1>2, <2>2 DEF CourseInv
    <3> QED
      BY <1>0, <1>2, <3>1 DEF SeenInv
  <2> QED
    BY <1>2, <2>1, <2>2
<1>8. ASSUME NEW ch \in ChoiceIds
      PROVE  /\ Ends(received, ch)' = {} => Ends(out, ch)' = {}
             /\ \A k \in Ends(received, ch)' : EndsAt(ch, k)'
             /\ ToolsFirst(out, ch)'
  <2>1. /\ Ends(received, ch) = {} => Ends(out, ch) = {}
        /\ \A k \in Ends(received, ch) : EndsAt(ch, k)
        /\ ToolsFirst(out, ch)
    BY <1>3 DEF EndsInv
  <2>2. Ends(received, ch)' = Ends(received, ch)
    BY <1>2 DEF Ends
  <2>3. Ends(out', ch) = Ends(out, ch) /\ ToolsFirst(out', ch)
    BY <1>1, <1>2, <2>1
  <2>4. Ends(out, ch)' = Ends(out, ch) /\ ToolsFirst(out, ch)'
    BY <2>3 DEF Ends, ToolsFirst, ToolPositions
  <2>5. ASSUME NEW k \in Ends(received, ch)
        PROVE  EndsAt(ch, k)'
    <3>1. (IsHeld(k) => IsHeld(k)') /\ (IsBehind(k) => IsBehind(k)')
      BY <1>2, <1>5 DEF IsHeld, IsBehind
    <3>2. ASSUME Late
          PROVE  /\ Late' /\ (Emptied(k)' <=> Emptied(k))
                 /\ IsOut(ch, k) => IsOut(ch, k)'
      <4>1. verdicts' = verdicts /\ Late'
        BY <1>2, <3>2 DEF Late, Delivered, Running
      <4>2. Emptied(k)' <=> Emptied(k)
        BY <1>2, <4>1 DEF Emptied, Rewrites, Blocked
      <4>3. Turned(k)' = Turned(k)
        BY <1>2, <4>1 DEF Turned, AllStripped, Strips, Rewrites, Blocked
      <4>4. ASSUME IsOut(ch, k)
            PROVE  IsOut(ch, k)'
        <5>1. PICK j \in 1..Len(out) : Ends(out, ch) = {j} /\ out[j].fin = Turned(k)
          BY <4>4 DEF IsOut
        <5>2. j \in 1..Len(out') /\ out'[j] = out[j]
          BY <1>0, <1>2, <5>1, AppendAt
        <5>3. \E l \in 1..Len(out') : Ends(out, ch)' = {l} /\ out'[l].fin = Turned(k)'
          BY <2>4, <4>3, <5>1, <5>2
        <5> QED
          BY <1>2, <1>5, <4>2, <4>4, <5>3 DEF IsOut
      <4> QED
        BY <4>1, <4>2, <4>4
    <3> QED
      BY <2>1, <2>4, <3>1, <3>2 DEF EndsAt
  <2> QED
    BY <2>1, <2>2, <2>4, <2>5
<1>9. EndsInv'
  BY <1>8 DEF EndsInv
<1> QED
  BY <1>4, <1>6, <1>7, <1>9 DEF EndInv

(* The calls of which none is left to the client are those of the verdicts.*)
LEMMA NoneLeftIs ==
  ASSUME SpelledInv, Delivered
  PROVE  NoneLeft <=> AllStripped
<1> DEFINE made == {c \in ChoiceIds \X Indices : Called(received, c[1], c[2])}
<1>1. Inv /\ Assembles /\ DOMAIN verdicts = DOMAIN calls /\ DOMAIN calls \subseteq Indices
  BY DEF SpelledInv, BaseInv, CourseInv, Inv, TypeOK, AssembledInv, Delivered
<1>2. ASSUME NEW ch \in ChoiceIds, NEW i \in Indices, Called(received, ch, i)
      PROVE  i \in DOMAIN calls /\ calls[i].args = Spelled(received, ch, i)
  <2>1. Owns(ch, i)
    BY <1>2 DEF Called, SpelledInv, OwnedInv, Owned
  <2>2. i \in DOMAIN calls
    BY <1>1, <1>2, <2>1 DEF Assembles
  <2>3. SlotOf(i).args = Spelled(received, ch, i)
    BY <1>1, <2>1 DEF Assembles
  <2> QED
    BY <2>2, <2>3 DEF SlotOf
<1>3. \A i \in DOMAIN calls : \E ch \in ChoiceIds : Called(received, ch, i)
  BY DEF SpelledInv, BaseInv, SentInv
<1>4. \A i \in DOMAIN calls : i \in Blocked <=> Evaluate(calls[i].args) = "block"
  BY <1>1 DEF Inv, VerdictsInv, Blocked
<1>5. NoneLeft <=>
        /\ ~Rewrites
        /\ \E ch \in ChoiceIds, i \in Indices : Called(received, ch, i)
        /\ \A ch \in ChoiceIds, i \in Indices :
             Called(received, ch, i) => Evaluate(Spelled(received, ch, i)) = "block"
  <2>1. \A c \in made : c[1] \in ChoiceIds /\ c[2] \in Indices /\ Called(received, c[1], c[2])
    OBVIOUS
  <2>2. \A ch \in ChoiceIds, i \in Indices : Called(received, ch, i) => <<ch, i>> \in made
    OBVIOUS
  <2>3. NoneLeft <=> ~Rewrites /\ made # {}
                     /\ \A c \in made : Evaluate(Spelled(received, c[1], c[2])) = "block"
    BY DEF NoneLeft
  <2> HIDE DEF made
  <2>4. \A ch, i : <<ch, i>>[1] = ch /\ <<ch, i>>[2] = i
    OBVIOUS
  <2>5. made # {} <=> \E ch \in ChoiceIds, i \in Indices : Called(received, ch, i)
    BY <2>1, <2>2
  <2>6. ASSUME \A c \in made : Evaluate(Spelled(received, c[1], c[2])) = "block",
               NEW ch \in ChoiceIds, NEW i \in Indices, Called(received, ch, i)
        PROVE  Evaluate(Spelled(received, ch, i)) = "block"
    <3>1. <<ch, i>> \in made
      BY <2>2, <2>6
    <3>2. Evaluate(Spelled(received, <<ch, i>>[1], <<ch, i>>[2])) = "block"
      BY <2>6, <3>1
    <3> QED
      BY <2>4, <3>2
  <2> QED
    BY <2>1, <2>3, <2>5, <2>6
<1>6. (\E ch \in ChoiceIds, i \in Indices : Called(received, ch, i)) <=> DOMAIN calls # {}
  BY <1>1, <1>2, <1>3
<1>7. (\A ch \in ChoiceIds, i \in Indices :
         Called(received, ch, i) => Evaluate(Spelled(received, ch, i)) = "block")
      <=> DOMAIN calls \subseteq Blocked
  <2>1. ASSUME DOMAIN calls \subseteq Blocked, NEW ch \in ChoiceIds, NEW i \in Indices,
               Called(received, ch, i)
        PROVE  Evaluate(Spelled(received, ch, i)) = "block"
    <3>1. i \in DOMAIN calls /\ calls[i].args = Spelled(received, ch, i)
      BY <1>2, <2>1
    <3>2. Evaluate(calls[i].args) = "block"
      BY <1>4, <2>1, <3>1
    <3> QED
      BY <3>1, <3>2
  <2>2. ASSUME \A ch \in ChoiceIds, i \in Indices :
                 Called(received, ch, i) => Evaluate(Spelled(received, ch, i)) = "block",
               NEW i \in DOMAIN calls
        PROVE  i \in Blocked
    <3>1. PICK ch \in ChoiceIds : Called(received, ch, i)
      BY <1>3, <2>2
    <3>2. i \in Indices /\ calls[i].args = Spelled(received, ch, i)
      BY <1>1, <1>2, <2>2, <3>1
    <3>3. Evaluate(Spelled(received, ch, i)) = "block"
      BY <2>2, <3>1, <3>2
    <3>4. Evaluate(calls[i].args) = "block"
      BY <3>2, <3>3
    <3> QED
      BY <1>4, <2>2, <3>4
  <2> QED
    BY <2>1, <2>2
<1>8. Blocked \subseteq DOMAIN calls
  BY <1>1 DEF Blocked
<1> QED
  BY <1>1, <1>5, <1>6, <1>7, <1>8 DEF AllStripped, Strips

(* However the calls are cut into deltas, whatever is blocked and where    *)
(* the finish reason comes: when a reply went through, each choice ends    *)
(* with the finish reason the upstream gave it, behind its last delta, as  *)
(* stop instead of tool_calls exactly when every call was stripped.        *)
THEOREM EachChoiceFinishes ==
  ASSUME OwnIndices, FinishApart
  PROVE  Spec => []FinishDelivered
<1> DEFINE All == SpelledInv /\ TurnInv /\ EndInv
<1>1. Init => All
  <2> SUFFICES ASSUME Init PROVE EndInv
    BY InitSpelledInv, InitTurnInv
  <2>1. /\ received = <<>> /\ buffered = <<>> /\ finishChunks = <<>> /\ out = <<>>
        /\ DOMAIN verdicts = {} /\ phase = "collect"
    BY DEF Init
  <2>2. StreamInv /\ QueueInv
    BY <2>1 DEF StreamInv, QueueInv, Ordered, Unread
  <2>3. SeenInv /\ EndsInv
    BY <2>1 DEF SeenInv, Blocked, EndsInv, Ends, ToolsFirst
  <2> QED
    BY <2>2, <2>3 DEF EndInv
<1>2. All /\ [Next]_vars => All'
  BY NextBaseInv, OwnedStep, AssembledStep, NextTurnInv, ReceiveEnd, EmitEnd, TailEnd, OtherEnd
     DEF SpelledInv, TurnInv, BaseInv
<1>3. All => FinishDelivered
  <2> SUFFICES ASSUME All, Delivered, NEW ch \in ChoiceIds
               PROVE  /\ Ends(received, ch) = {} => Ends(out, ch) = {}
                      /\ \A k \in Ends(received, ch) :
                           IF Emptied(k) THEN Ends(out, ch) = {}
                           ELSE \E j \in 1..Len(out) :
                                  /\ Ends(out, ch) = {j}
                                  /\ out[j].fin = IF NoneLeft /\ received[k].fin = "tool_calls"
                                                  THEN "stop" ELSE received[k].fin
                      /\ \A k \in Ends(out, ch) : \A j \in ToolPositions(out, ch) : j <= k
    BY DEF FinishDelivered
  <2>1. /\ Ends(received, ch) = {} => Ends(out, ch) = {}
        /\ \A k \in Ends(received, ch) : EndsAt(ch, k)
        /\ ToolsFirst(out, ch)
    BY DEF EndInv, Running, EndsInv
  <2>2. NoneLeft <=> AllStripped
    BY NoneLeftIs
  <2>3. \A k : ~IsHeld(k) /\ ~IsBehind(k)
    <3>1. Len(buffered) \in Nat /\ Len(finishChunks) \in Nat
      BY DEF SpelledInv, BaseInv, Inv, TypeOK
    <3>2. FromHeld = Len(buffered) + 1 /\ FromBehind = Len(finishChunks) + 1
      BY DEF Delivered, FromHeld, FromBehind
    <3> QED
      BY <3>1, <3>2 DEF IsHeld, IsBehind
  <2>4. ASSUME NEW k \in Ends(received, ch)
        PROVE  IF Emptied(k) THEN Ends(out, ch) = {}
               ELSE \E j \in 1..Len(out) :
                      /\ Ends(out, ch) = {j}
                      /\ out[j].fin = IF NoneLeft /\ received[k].fin = "tool_calls"
                                      THEN "stop" ELSE received[k].fin
    BY <2>1, <2>2, <2>3 DEF EndsAt, IsOut, Turned
  <2> QED
    BY <2>1, <2>4 DEF ToolsFirst
<1> QED
  BY <1>1, <1>2, <1>3, PTL DEF Spec
=============================================================================
