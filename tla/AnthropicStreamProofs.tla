----------------------- MODULE AnthropicStreamProofs -----------------------
(***************************************************************************)
(* Theorems about AnthropicStream, for any events, patterns and bounds.    *)
(***************************************************************************)
EXTENDS AnthropicStream, SequenceLemmas, FiniteSetTheorems

Starts == {"text_start", "tool_start"}

(* Blocks are numbered as they start, so a block that starts is new.       *)
IndexInv ==
  /\ open # NoBlock => open < Started
  /\ \A i \in DOMAIN verdicts : i < Started

(* What is held is the upstream's.  A start of another tool block can be   *)
(* among it if the stop of the open one straddled two chunks, but then the *)
(* open one is never judged.                                               *)
HeldEvents ==
  /\ \A k \in 1..Len(held) :
       /\ held[k].n > 0
       /\ held[k].type = "tool_start" => held[k].ix < Started /\ open <= held[k].ix
  /\ phase \in {"judge", "build", "release"} =>
       \A k \in 1..Len(held) : held[k].type = "tool_start" => held[k].ix = open

(* What is about to be released of a block is its original or replacement, *)
(* as its verdict says; what is flushed is flushed in open mode.           *)
QueueInv ==
  /\ phase = "release" =>
       \A k \in 1..Len(queue) :
         /\ queue[k].n = 0 /\ queue[k].type \in Starts =>
              queue[k].ix = open /\ verdicts[open] = "block"
         /\ queue[k].n > 0 /\ queue[k].type = "tool_start" =>
              queue[k].ix = open /\ verdicts[open] # "block"
  /\ phase = "flush" /\ queue # <<>> => Opened
  /\ cause = "none" \/ phase \in {"flush"} \cup Terminal

AInv == Inv /\ IndexInv /\ HeldEvents /\ QueueInv
-----------------------------------------------------------------------------
LEMMA ArrivedEvent ==
  ASSUME TypeOK, NEW s \in Events, NEW whole \in BOOLEAN
  PROVE  /\ Arrived(s, whole) \in Event
         /\ Arrived(s, whole).n > 0
         /\ Arrived(s, whole).whole = whole
         /\ Arrived(s, whole).type = s.type /\ Arrived(s, whole).ix = s.ix
         /\ Fragment(Arrived(s, whole)) \in Seq(Pieces)
         /\ s.ix \in Indices
<1>1. s \in Shape /\ Len(received) \in Nat
  BY EventsAssumption DEF TypeOK
<1>2. Arrived(s, whole) \in Event
  BY <1>1 DEF Arrived, Event, Shape
<1>3. Fragment(Arrived(s, whole)) \in Seq(Pieces)
  BY <1>1 DEF Arrived, Fragment, Shape
<1> QED
  BY <1>1, <1>2, <1>3 DEF Arrived, Shape

LEMMA HeldTyped ==
  ASSUME TypeOK, NEW k \in 1..Len(held)
  PROVE  held[k].ix \in Nat /\ held[k].n \in Nat
<1>1. held[k] \in Event
  BY DEF TypeOK
<1> QED
  BY <1>1 DEF Event, Indices

(* How many events of some types there are, after one more.                *)
LEMMA CountGrows ==
  ASSUME NEW q \in Seq(Event), NEW e \in Event, NEW types
  PROVE  /\ Cardinality(Of(q, types)) \in Nat
         /\ Cardinality(Of(Append(q, e), types)) =
              IF e.type \in types THEN Cardinality(Of(q, types)) + 1 ELSE Cardinality(Of(q, types))
<1> DEFINE n == Len(q)
           r == Append(q, e)
           old == Of(q, types)
<1>1. n \in Nat /\ Len(r) = n + 1 /\ r[n + 1] = e /\ \A k \in 1..n : r[k] = q[k]
  OBVIOUS
<1>2. old \subseteq 1..n /\ n + 1 \notin old
  BY <1>1 DEF Of
<1>3. IsFiniteSet(old)
  <2>1. IsFiniteSet(1..n)
    BY <1>1, FS_Interval
  <2> HIDE DEF n, old
  <2> QED
    BY <1>2, <2>1, FS_Subset
<1> HIDE DEF r
<1>4. Of(r, types) = IF e.type \in types THEN old \cup {n + 1} ELSE old
  BY <1>1 DEF Of
<1>5. Cardinality(old) \in Nat
  BY <1>3, FS_CardinalityType
<1>6. Cardinality(old \cup {n + 1}) = Cardinality(old) + 1
  BY <1>2, <1>3, FS_AddElement
<1> HIDE DEF old
<1> QED
  BY <1>4, <1>5, <1>6 DEF old, r

(* The blocks that have started, after one more event.                     *)
LEMMA OneMoreEvent ==
  ASSUME TypeOK, NEW e \in Event, received' = Append(received, e)
  PROVE  /\ Started \in Nat
         /\ Started' = IF e.type \in Starts THEN Started + 1 ELSE Started
         /\ received' \in Seq(Event)
<1>1. received \in Seq(Event)
  BY DEF TypeOK
<1>2. /\ Cardinality(Of(received, Starts)) \in Nat
      /\ Cardinality(Of(Append(received, e), Starts)) =
           IF e.type \in Starts THEN Cardinality(Of(received, Starts)) + 1
                                ELSE Cardinality(Of(received, Starts))
  BY <1>1, CountGrows
<1>3. /\ Started = Cardinality(Of(received, Starts))
      /\ Started' = Cardinality(Of(received', Starts))
  BY DEF Started, Starts
<1> QED
  BY <1>1, <1>2, <1>3

(* The blocks the client holds, after one more event.                      *)
LEMMA OutGrows ==
  ASSUME TypeOK, NEW e \in Event, out' = Append(out, e)
  PROVE  /\ out' \in Seq(Event)
         /\ Passed \subseteq Passed' /\ Replaced \subseteq Replaced'
         /\ \A i \in Passed' \ Passed :
              e.n > 0 /\ e.whole /\ e.type = "tool_start" /\ e.ix = i
         /\ \A i \in Replaced' \ Replaced :
              e.n = 0 /\ e.whole /\ e.type \in Starts /\ e.ix = i
<1> DEFINE n == Len(out)
<1>1. out \in Seq(Event) /\ n \in Nat
  BY DEF TypeOK
<1>2. /\ out' \in Seq(Event) /\ Len(out') = n + 1 /\ out'[n + 1] = e
      /\ \A k \in 1..n : out'[k] = out[k]
  BY <1>1
<1>3. \A k \in 1..Len(out') : k \in 1..n \/ k = n + 1
  BY <1>1, <1>2
<1>4. \A k \in 1..n : k \in 1..Len(out')
  BY <1>1, <1>2
<1>5. e.n \in Nat
  BY DEF Event
<1>6. Passed \subseteq Passed' /\ Replaced \subseteq Replaced'
  BY <1>2, <1>4 DEF Passed, Original, Replaced, WholeAt, Of
<1>7. \A i \in Passed' \ Passed : e.n > 0 /\ e.whole /\ e.type = "tool_start" /\ e.ix = i
  BY <1>2, <1>3 DEF Passed, Original, WholeAt, Of
<1>8. \A i \in Replaced' \ Replaced : e.n = 0 /\ e.whole /\ e.type \in Starts /\ e.ix = i
  BY <1>2, <1>3 DEF Replaced, WholeAt, Of, Starts
<1> QED
  BY <1>2, <1>6, <1>7, <1>8

LEMMA SameOut ==
  ASSUME UNCHANGED out
  PROVE  UNCHANGED <<Passed, Replaced>>
BY DEF Passed, Original, Replaced, WholeAt, Of

LEMMA SameReceived ==
  ASSUME UNCHANGED received
  PROVE  UNCHANGED Started
BY DEF Started, Of

LEMMA EmptyHasNoStart == Cardinality(Of(<<>>, Starts)) = 0
<1>1. Of(<<>>, Starts) = {}
  BY DEF Of
<1> QED
  BY <1>1, FS_EmptySet

LEMMA InitAInv == Init => AInv
<1> SUFFICES ASSUME Init PROVE AInv
  OBVIOUS
<1>1. TypeOK
  <2>1. calls \in [Indices -> Seq(Pieces)]
    BY DEF Init
  <2>2. DOMAIN verdicts = {} /\ verdicts \in [DOMAIN verdicts -> Verdicts]
    BY DEF Init
  <2>3. conf \in Conf /\ open = NoBlock /\ held = <<>> /\ queue = <<>> /\ rows = <<>>
    BY DEF Init
  <2>4. DOMAIN verdicts \subseteq Indices
    BY <2>2
  <2>5. phase = "collect" /\ cause = "none" /\ kept \in BOOLEAN /\ stripped \in BOOLEAN /\ pings \in Nat
    BY DEF Init
  <2>6. received = <<>> /\ out = <<>>
    BY DEF Init
  <2> QED
    BY <2>1, <2>2, <2>3, <2>4, <2>5, <2>6 DEF TypeOK
<1>2. Passed = {} /\ Replaced = {}
  BY DEF Init, Passed, Original, Replaced, WholeAt, Of
<1>3. Inv
  BY <1>1, <1>2 DEF Init, Inv, HeldInv, ReleasedOnVerdict
<1> QED
  BY <1>3 DEF Init, AInv, IndexInv, HeldEvents, QueueInv
-----------------------------------------------------------------------------
(* A block that starts is new; one that is held grows until its stop.      *)
LEMMA ReceiveAInv ==
  ASSUME AInv, NEW s \in Events, Receive(s)
  PROVE  AInv'
<1> DEFINE e == Arrived(s, TRUE)
<1>1. TypeOK /\ HeldInv /\ ReleasedOnVerdict /\ IndexInv /\ HeldEvents /\ QueueInv
  BY DEF AInv, Inv
<1>2. /\ e \in Event /\ e.n > 0 /\ e.type = s.type /\ e.ix = s.ix /\ s.ix \in Indices
      /\ Fragment(e) \in Seq(Pieces)
  BY <1>1, ArrivedEvent
<1>3. /\ phase = "collect" /\ UpstreamMay(s) /\ cause = "none"
      /\ received' = Append(received, e)
      /\ UNCHANGED <<conf, kept, stripped, queue, cause, pings, verdicts, rows>>
  BY <1>1 DEF Receive, verdictVars, QueueInv, Terminal
<1>4. /\ Started \in Nat /\ received' \in Seq(Event)
      /\ Started' = IF e.type \in Starts THEN Started + 1 ELSE Started
  BY <1>1, <1>2, <1>3, OneMoreEvent
<1>5. /\ e.type \in Starts => e.ix = Started
      /\ e.type = "stop" => e.ix = Started - 1
  BY <1>2, <1>3 DEF UpstreamMay, Starts
<1>6. CASE open = NoBlock /\ e.type = "tool_start"
  <2>1. /\ open' = e.ix /\ held' = <<e>> /\ phase' = "collect"
        /\ calls' = [calls EXCEPT ![e.ix] = Fragment(e)] /\ UNCHANGED out
    BY <1>3, <1>6 DEF Receive
  <2>2. e.ix \notin DOMAIN verdicts /\ e.ix # NoBlock /\ Started' = e.ix + 1
    <3>1. e.ix = Started /\ e.type \in Starts
      BY <1>5, <1>6 DEF Starts
    <3>2. \A i \in DOMAIN verdicts : i # Started
      BY <1>1, <1>4 DEF IndexInv
    <3>3. Started # NoBlock
      BY <1>4, MarkersAssumption
    <3> HIDE DEF e
    <3> QED
      BY <1>4, <3>1, <3>2, <3>3
  <2> HIDE DEF e
  <2>3. TypeOK'
    BY <1>1, <1>2, <1>3, <1>4, <2>1 DEF TypeOK
  <2>4. ReleasedOnVerdict'
    <3>1. \A i \in DOMAIN verdicts : calls'[i] = calls[i]
      BY <1>1, <2>1, <2>2 DEF TypeOK
    <3> QED
      BY <1>1, <1>3, <2>1, <3>1, SameOut DEF ReleasedOnVerdict, Opened, Evaluate
  <2>5. HeldInv' /\ IndexInv' /\ QueueInv'
    BY <1>1, <1>2, <1>3, <1>4, <2>1, <2>2 DEF HeldInv, IndexInv, QueueInv, TypeOK, Indices
  <2>6. HeldEvents'
    BY <1>2, <2>1, <2>2 DEF HeldEvents, Indices
  <2> QED
    BY <2>3, <2>4, <2>5, <2>6 DEF AInv, Inv
<1>7. CASE open = NoBlock /\ e.type # "tool_start"
  <2>1. out' = Append(out, EndTurn(e)) /\ UNCHANGED <<phase, open, held, calls>>
    BY <1>3, <1>7 DEF Receive
  <2>2. EndTurn(e) \in Event /\ EndTurn(e).n > 0 /\ EndTurn(e).type # "tool_start"
    BY <1>2, <1>7 DEF EndTurn, Event, Reasons
  <2> HIDE DEF e
  <2>3. out' \in Seq(Event) /\ Passed' = Passed /\ Replaced' = Replaced
    <3> DEFINE f == EndTurn(e)
    <3> HIDE DEF f
    <3>1. f \in Event /\ ~(f.n = 0) /\ f.type # "tool_start" /\ out' = Append(out, f)
      BY <2>1, <2>2 DEF f
    <3> QED
      BY <1>1, <3>1, OutGrows
  <2>4. TypeOK'
    BY <1>1, <1>3, <1>4, <2>1, <2>3 DEF TypeOK
  <2>5. ReleasedOnVerdict'
    BY <1>1, <1>3, <2>1, <2>3 DEF ReleasedOnVerdict, Opened, Evaluate
  <2>6. HeldInv' /\ IndexInv' /\ QueueInv' /\ HeldEvents'
    BY <1>1, <1>3, <1>4, <1>7, <2>1 DEF HeldInv, IndexInv, QueueInv, HeldEvents, TypeOK, Indices
  <2> QED
    BY <2>4, <2>5, <2>6 DEF AInv, Inv
<1>8. CASE open # NoBlock
  <2>1. /\ held' = Append(held, e) /\ UNCHANGED <<open, out>>
        /\ calls' = IF Own(e) THEN [calls EXCEPT ![open] = calls[open] \o Fragment(e)] ELSE calls
        /\ phase' = IF e.type = "stop" /\ e.ix = open THEN "judge" ELSE "collect"
    BY <1>3, <1>8 DEF Receive
  <2>2. open \in Indices /\ open \in Nat /\ open < Started /\ open \notin DOMAIN verdicts
    BY <1>1, <1>3, <1>8 DEF TypeOK, Indices, IndexInv, HeldInv
  <2> HIDE DEF e
  <2>3. calls' \in [Indices -> Seq(Pieces)] /\ \A i \in DOMAIN verdicts : calls'[i] = calls[i]
    <3>1. calls \in [Indices -> Seq(Pieces)] /\ DOMAIN verdicts \subseteq Indices
      BY <1>1 DEF TypeOK
    <3>2. calls[open] \o Fragment(e) \in Seq(Pieces)
      BY <1>2, <2>2, <3>1
    <3> QED
      BY <2>1, <2>2, <3>1, <3>2
  <2>4. /\ held' \in Seq(Event) /\ Len(held') = Len(held) + 1 /\ held'[Len(held) + 1] = e
        /\ \A k \in 1..Len(held) : held'[k] = held[k]
        /\ Len(held) \in Nat
    BY <1>1, <1>2, <2>1 DEF TypeOK
  <2>5. TypeOK'
    BY <1>1, <1>3, <1>4, <2>1, <2>3, <2>4 DEF TypeOK
  <2>6. ReleasedOnVerdict'
    BY <1>1, <1>3, <2>1, <2>3, SameOut DEF ReleasedOnVerdict, Opened, Evaluate
  <2>7. HeldEvents'
    <3>1. \A k \in 1..Len(held') : k \in 1..Len(held) \/ k = Len(held) + 1
      BY <2>4
    <3>2. \A k \in 1..Len(held) : held[k].ix \in Nat
      BY <1>1, HeldTyped
    <3>3. \A k \in 1..Len(held') :
            /\ held'[k].n > 0
            /\ held'[k].type = "tool_start" => held'[k].ix < Started' /\ open <= held'[k].ix
      BY <1>1, <1>2, <1>4, <1>5, <2>2, <2>4, <3>1, <3>2 DEF HeldEvents, Starts
    <3>4. phase' = "judge" => \A k \in 1..Len(held') : held'[k].type = "tool_start" => held'[k].ix = open
      <4> SUFFICES ASSUME phase' = "judge", NEW k \in 1..Len(held'), held'[k].type = "tool_start"
                   PROVE  held'[k].ix = open
        OBVIOUS
      <4>1. e.type = "stop" /\ e.ix = open /\ open = Started - 1
        BY <1>5, <2>1
      <4>2. k \in 1..Len(held)
        BY <2>4, <3>1, <4>1
      <4> QED
        BY <1>1, <1>4, <2>2, <2>4, <3>2, <4>1, <4>2 DEF HeldEvents
    <3> QED
      BY <2>1, <3>3, <3>4 DEF HeldEvents
  <2>8. HeldInv' /\ IndexInv' /\ QueueInv'
    <3>1. held' # <<>>
      BY <2>4
    <3> QED
      BY <1>1, <1>3, <1>4, <1>8, <2>1, <2>2, <3>1 DEF HeldInv, IndexInv, QueueInv, TypeOK, Indices
  <2> QED
    BY <2>5, <2>6, <2>7, <2>8 DEF AInv, Inv
<1> QED
  BY <1>6, <1>7, <1>8

(* A start that straddles is counted, but neither held nor parsed.         *)
LEMMA StraddleAInv ==
  ASSUME AInv, NEW s \in Events, Straddle(s)
  PROVE  AInv'
<1> DEFINE e == Arrived(s, FALSE)
<1>1. TypeOK /\ HeldInv /\ ReleasedOnVerdict /\ IndexInv /\ HeldEvents /\ QueueInv
  BY DEF AInv, Inv
<1>2. e \in Event /\ ~e.whole
  BY <1>1, ArrivedEvent
<1>3. /\ received' = Append(received, e) /\ out' = Append(out, e) /\ phase = "collect"
      /\ UNCHANGED <<conf, phase, open, held, kept, stripped, queue, cause, pings, calls, verdicts, rows>>
  BY DEF Straddle, heldVars, verdictVars
<1> HIDE DEF e
<1>4. Started \in Nat /\ received' \in Seq(Event) /\ Started' \in {Started, Started + 1}
  BY <1>1, <1>2, <1>3, OneMoreEvent
<1>5. out' \in Seq(Event) /\ Passed' = Passed /\ Replaced' = Replaced
  BY <1>1, <1>2, <1>3, OutGrows
<1>6. TypeOK'
  BY <1>1, <1>3, <1>4, <1>5 DEF TypeOK
<1>7. ReleasedOnVerdict'
  BY <1>1, <1>3, <1>5 DEF ReleasedOnVerdict, Opened, Evaluate
<1>8. HeldInv' /\ QueueInv'
  BY <1>1, <1>3 DEF HeldInv, QueueInv
<1>9. IndexInv' /\ HeldEvents'
  <2>1. \A k \in 1..Len(held) : held[k].ix \in Nat
    BY <1>1, HeldTyped
  <2>2. open # NoBlock => open \in Nat
    BY <1>1 DEF TypeOK, Indices
  <2>3. DOMAIN verdicts \subseteq Nat
    BY <1>1 DEF TypeOK, Indices
  <2> QED
    BY <1>1, <1>3, <1>4, <2>1, <2>2, <2>3 DEF IndexInv, HeldEvents
<1> QED
  BY <1>6, <1>7, <1>8, <1>9 DEF AInv, Inv

LEMMA StallAInv ==
  ASSUME AInv, Stall
  PROVE  AInv'
<1>1. TypeOK /\ HeldInv /\ ReleasedOnVerdict /\ IndexInv /\ HeldEvents /\ QueueInv
  BY DEF AInv, Inv
<1>2. Ping \in Event /\ Ping.type = "ping"
  BY BoundsAssumption DEF Ping, Made, Event, Types, Indices, Reasons
<1>3. /\ out' = Append(out, Ping) /\ pings' = pings + 1
      /\ UNCHANGED <<conf, phase, open, held, kept, stripped, queue, cause, received, calls, verdicts, rows>>
  BY DEF Stall, heldVars, verdictVars
<1>4. out' \in Seq(Event) /\ Passed' = Passed /\ Replaced' = Replaced
  BY <1>1, <1>2, <1>3, OutGrows DEF Starts
<1>5. TypeOK'
  BY <1>1, <1>3, <1>4 DEF TypeOK
<1> QED
  BY <1>1, <1>3, <1>4, <1>5, SameReceived
     DEF AInv, Inv, HeldInv, ReleasedOnVerdict, Opened, Evaluate, IndexInv, HeldEvents, QueueInv

(* The verdict is on everything that was assembled of the block.           *)
LEMMA JudgeAInv ==
  ASSUME AInv, Judge
  PROVE  AInv'
<1> DEFINE v == Evaluate(calls[open])
<1>1. TypeOK /\ HeldInv /\ ReleasedOnVerdict /\ IndexInv /\ HeldEvents /\ QueueInv
  BY DEF AInv, Inv
<1>2. /\ phase = "judge" /\ phase' = "build"
      /\ verdicts' = [i \in DOMAIN verdicts \cup {open} |-> IF i = open THEN v ELSE verdicts[i]]
      /\ rows' = Append(rows, [index |-> open, args |-> calls[open], verdict |-> v])
      /\ UNCHANGED <<conf, open, held, kept, stripped, queue, cause, pings, received, out, calls>>
  BY DEF Judge, heldVars
<1>3. v \in Verdicts
  BY DEF Evaluate, Verdicts
<1>4. open \in Indices /\ open # NoBlock /\ open \notin DOMAIN verdicts
  BY <1>1, <1>2 DEF TypeOK, HeldInv
<1>5. Evaluate(calls[open])' = v
  BY <1>2 DEF Evaluate
<1> HIDE DEF v
<1>6. TypeOK'
  <2>1. rows' \in Seq([index : Indices, args : Seq(Pieces), verdict : Verdicts])
    BY <1>1, <1>2, <1>3, <1>4 DEF TypeOK
  <2>2. DOMAIN verdicts' \subseteq Indices /\ verdicts' \in [DOMAIN verdicts' -> Verdicts]
    BY <1>1, <1>2, <1>3, <1>4 DEF TypeOK
  <2> QED
    BY <1>1, <1>2, <2>1, <2>2 DEF TypeOK
<1>7. ReleasedOnVerdict'
  <2>1. \A i \in DOMAIN verdicts : i \in DOMAIN verdicts' /\ verdicts'[i] = verdicts[i]
    BY <1>2, <1>4
  <2>2. \A i \in DOMAIN verdicts' : i \in DOMAIN verdicts \/ i = open
    BY <1>2
  <2>3. \A i \in DOMAIN verdicts : Evaluate(calls[i])' = Evaluate(calls[i])
    BY <1>2 DEF Evaluate
  <2>4. verdicts'[open] = Evaluate(calls[open])'
    BY <1>2, <1>5
  <2>5. \A i \in DOMAIN verdicts' : verdicts'[i] = Evaluate(calls[i])'
    BY <1>1, <1>2, <2>1, <2>2, <2>3, <2>4 DEF ReleasedOnVerdict
  <2> QED
    BY <1>1, <1>2, <2>1, <2>5, SameOut DEF ReleasedOnVerdict, Opened
<1>8. IndexInv'
  BY <1>1, <1>2, <1>4, SameReceived DEF IndexInv
<1> QED
  BY <1>1, <1>2, <1>6, <1>7, <1>8, SameReceived DEF AInv, Inv, HeldInv, HeldEvents, QueueInv, Terminal

(* What is queued is the block as it came, or its replacement.             *)
LEMMA BuildAInv ==
  ASSUME AInv, Build
  PROVE  AInv'
<1>1. TypeOK /\ HeldInv /\ ReleasedOnVerdict /\ IndexInv /\ HeldEvents /\ QueueInv
  BY DEF AInv, Inv
<1>2. /\ phase = "build" /\ phase' = "release"
      /\ queue' = IF verdicts[open] = "block" THEN Replacement(open) ELSE held
      /\ kept' \in BOOLEAN /\ stripped' \in BOOLEAN
      /\ UNCHANGED <<conf, open, held, cause, pings, received, out, calls, verdicts, rows>>
  BY <1>1 DEF Build, verdictVars, TypeOK
<1>3. open \in Indices
  BY <1>1, <1>2 DEF TypeOK, HeldInv
<1>4. /\ Replacement(open) \in Seq(Event)
      /\ \A k \in 1..Len(Replacement(open)) :
           Replacement(open)[k].n = 0 /\ Replacement(open)[k].ix = open
  <2> DEFINE a == Made(IF Rewrites THEN "tool_start" ELSE "text_start", open, NoArg)
             b == Made("delta", open, Echo)
             c == Made("stop", open, NoArg)
  <2>1. a \in Event /\ b \in Event /\ c \in Event
    BY <1>3 DEF Made, Event, Types, Reasons
  <2>2. a.n = 0 /\ b.n = 0 /\ c.n = 0 /\ a.ix = open /\ b.ix = open /\ c.ix = open
    BY DEF Made
  <2>3. Replacement(open) = <<a, b, c>>
    BY DEF Replacement
  <2> HIDE DEF a, b, c
  <2> QED
    BY <2>1, <2>2, <2>3
<1>5. TypeOK'
  BY <1>1, <1>2, <1>4 DEF TypeOK
<1>6. QueueInv'
  BY <1>1, <1>2, <1>4 DEF QueueInv, HeldEvents, Terminal
<1> QED
  BY <1>1, <1>2, <1>5, <1>6, SameOut, SameReceived
     DEF AInv, Inv, HeldInv, ReleasedOnVerdict, Opened, Evaluate, IndexInv, HeldEvents

(* What is yielded is as the verdict says, or flushed in open mode.        *)
LEMMA YieldAInv ==
  ASSUME AInv, Yield
  PROVE  AInv'
<1> DEFINE e == Head(queue)
<1>1. TypeOK /\ HeldInv /\ ReleasedOnVerdict /\ IndexInv /\ HeldEvents /\ QueueInv
  BY DEF AInv, Inv
<1>2. /\ phase \in {"release", "flush"} /\ queue # <<>>
      /\ out' = Append(out, e) /\ queue' = Tail(queue)
      /\ UNCHANGED <<conf, phase, open, held, kept, stripped, cause, pings, received, calls, verdicts, rows>>
  BY DEF Yield, heldVars, verdictVars
<1>3. /\ queue \in Seq(Event) /\ Len(queue) \in Nat \ {0} /\ e = queue[1] /\ e \in Event
      /\ queue' \in Seq(Event) /\ Len(queue') = Len(queue) - 1
      /\ \A k \in 1..Len(queue') : queue'[k] = queue[k + 1] /\ k + 1 \in 1..Len(queue)
  BY <1>1, <1>2 DEF TypeOK
<1> HIDE DEF e
<1>4. /\ out' \in Seq(Event)
      /\ Passed \subseteq Passed' /\ Replaced \subseteq Replaced'
      /\ \A i \in Passed' \ Passed : e.n > 0 /\ e.type = "tool_start" /\ e.ix = i
      /\ \A i \in Replaced' \ Replaced : e.n = 0 /\ e.type \in Starts /\ e.ix = i
  BY <1>1, <1>2, <1>3, OutGrows
<1>5. TypeOK'
  BY <1>1, <1>2, <1>3, <1>4 DEF TypeOK
<1>6. ReleasedOnVerdict'
  <2>1. CASE phase = "flush"
    BY <1>1, <1>2, <2>1 DEF QueueInv, ReleasedOnVerdict, Opened, Evaluate
  <2>2. CASE phase = "release"
    <3>1. 1 \in 1..Len(queue) /\ open \in DOMAIN verdicts
      BY <1>1, <1>3, <2>2 DEF HeldInv
    <3>2. /\ e.n = 0 /\ e.type \in Starts => e.ix = open /\ verdicts[open] = "block"
          /\ e.n > 0 /\ e.type = "tool_start" => e.ix = open /\ verdicts[open] # "block"
      BY <1>1, <1>3, <2>2, <3>1 DEF QueueInv
    <3>3. /\ \A i \in Passed' \ Passed : i \in DOMAIN verdicts /\ verdicts[i] # "block"
          /\ \A i \in Replaced' \ Replaced : i \in DOMAIN verdicts /\ verdicts[i] = "block"
      BY <1>4, <3>1, <3>2
    <3> QED
      BY <1>1, <1>2, <1>4, <3>3 DEF ReleasedOnVerdict, Opened, Evaluate
  <2> QED
    BY <1>2, <2>1, <2>2
<1>7. QueueInv'
  <2>1. queue' # <<>> => queue # <<>>
    BY <1>2
  <2> QED
    BY <1>1, <1>2, <1>3, <2>1 DEF QueueInv, Opened
<1> QED
  BY <1>1, <1>2, <1>5, <1>6, <1>7, SameReceived DEF AInv, Inv, HeldInv, IndexInv, HeldEvents

(* The other steps of the handler release nothing and judge nothing.       *)
LEMMA QuietAInv ==
  ASSUME AInv, EndRelease \/ UpstreamEnds \/ EndFlush \/ ClientGone \/ UNCHANGED vars
  PROVE  AInv'
<1>1. TypeOK /\ HeldInv /\ ReleasedOnVerdict /\ IndexInv /\ HeldEvents /\ QueueInv
  BY DEF AInv, Inv
<1>2. UNCHANGED <<conf, kept, stripped, pings, received, out, calls, verdicts, rows>>
  BY DEF EndRelease, UpstreamEnds, EndFlush, ClientGone, vars, heldVars, verdictVars
<1>3. CASE EndRelease
  <2>1. /\ open' = NoBlock /\ held' = <<>> /\ phase = "release" /\ phase' = "collect" /\ queue = <<>>
        /\ UNCHANGED <<queue, cause>>
    BY <1>3 DEF EndRelease
  <2>2. NoBlock \notin DOMAIN verdicts
    BY <1>1, MarkersAssumption DEF TypeOK, Indices
  <2>3. TypeOK'
    BY <1>1, <1>2, <2>1 DEF TypeOK
  <2> QED
    BY <1>1, <1>2, <2>1, <2>2, <2>3, SameOut, SameReceived
       DEF AInv, Inv, HeldInv, ReleasedOnVerdict, Opened, Evaluate, IndexInv, HeldEvents, QueueInv, Terminal
<1>4. CASE UpstreamEnds
  <2>1. /\ phase = "collect" /\ phase' = "flush" /\ cause = "none" /\ UNCHANGED <<open, held>>
        /\ cause' = IF held # <<>> THEN "cut" ELSE "none"
        /\ queue' = IF conf.fail = "closed" THEN <<>> ELSE held
    BY <1>1, <1>4 DEF UpstreamEnds, heldVars, Unscreened, QueueInv, Terminal
  <2>2. conf.fail \in {"closed", "open"}
    BY <1>1 DEF TypeOK, Conf
  <2>3. TypeOK'
    BY <1>1, <1>2, <2>1 DEF TypeOK
  <2> QED
    BY <1>1, <1>2, <2>1, <2>2, <2>3, SameOut, SameReceived
       DEF AInv, Inv, HeldInv, ReleasedOnVerdict, Opened, Evaluate, IndexInv, HeldEvents, QueueInv
<1>5. CASE EndFlush \/ ClientGone
  <2>1. phase' \in {"done", "gone"} /\ UNCHANGED <<open, held, queue, cause>>
    BY <1>5 DEF EndFlush, ClientGone, heldVars
  <2>2. TypeOK'
    BY <1>1, <1>2, <2>1 DEF TypeOK, Terminal
  <2> QED
    BY <1>1, <1>2, <2>1, <2>2, SameOut, SameReceived
       DEF AInv, Inv, HeldInv, ReleasedOnVerdict, Opened, Evaluate, IndexInv, HeldEvents, QueueInv, Terminal
<1>6. CASE UNCHANGED vars
  <2>1. UNCHANGED <<phase, open, held, queue, cause>>
    BY <1>6 DEF vars, heldVars
  <2>2. TypeOK'
    BY <1>1, <1>2, <2>1 DEF TypeOK
  <2> QED
    BY <1>1, <1>2, <2>1, <2>2, SameOut, SameReceived
       DEF AInv, Inv, HeldInv, ReleasedOnVerdict, Opened, Evaluate, IndexInv, HeldEvents, QueueInv
<1> QED
  BY <1>3, <1>4, <1>5, <1>6

(* A failure queues what is held in open mode, and nothing in closed mode. *)
LEMMA FailureAInv ==
  ASSUME AInv, GuardError \/ UpstreamError \/ \E s \in Events : EventError(s)
  PROVE  AInv'
<1>1. TypeOK /\ HeldInv /\ ReleasedOnVerdict /\ IndexInv /\ HeldEvents /\ QueueInv
  BY DEF AInv, Inv
<1>2. /\ phase \in {"collect", "judge", "build"} /\ cause = "none"
      /\ cause' \in {"guard", "upstream"}
      /\ UNCHANGED <<conf, open, kept, stripped, pings, out, calls, verdicts, rows>>
  BY <1>1 DEF GuardError, UpstreamError, EventError, Fail, heldVars, verdictVars, QueueInv, Terminal
<1>3. conf.fail \in {"closed", "open"}
  BY <1>1 DEF TypeOK, Conf
<1>4. ReleasedOnVerdict'
  BY <1>1, <1>2, SameOut DEF ReleasedOnVerdict, Opened, Evaluate
<1>5. CASE UNCHANGED <<held, received>>
  <2>1. \/ phase' = "flush" /\ queue' = IF conf.fail = "closed" THEN <<>> ELSE held
        \/ phase' = "raised" /\ UNCHANGED queue
    <3>1. CASE GuardError
      BY <3>1 DEF GuardError, Fail, Unscreened
    <3>2. CASE UpstreamError
      BY <3>2 DEF UpstreamError, Fail, Unscreened
    <3>3. ~\E s \in Events : EventError(s)
      <4> SUFFICES ASSUME NEW s \in Events, EventError(s) PROVE FALSE
        OBVIOUS
      <4>1. Len(received') = Len(received) + 1 /\ Len(received) \in Nat
        BY <1>1, ArrivedEvent DEF EventError, TypeOK
      <4> QED
        BY <1>5, <4>1
    <3> QED
      BY <3>1, <3>2, <3>3
  <2>2. TypeOK'
    <3>1. queue \in Seq(Event) /\ held \in Seq(Event) /\ <<>> \in Seq(Event)
      BY <1>1 DEF TypeOK
    <3>2. queue' \in {<<>>, held, queue}
      BY <2>1
    <3>3. queue' \in Seq(Event) /\ phase' \in {"flush", "raised"}
      BY <2>1, <3>1, <3>2
    <3> QED
      BY <1>1, <1>2, <1>5, <3>3 DEF TypeOK, Terminal
  <2> QED
    BY <1>1, <1>2, <1>3, <1>4, <1>5, <2>1, <2>2, SameReceived
       DEF AInv, Inv, HeldInv, Opened, IndexInv, HeldEvents, QueueInv, Terminal
<1>6. ASSUME NEW s \in Events, EventError(s) PROVE AInv'
  <2> DEFINE e == Arrived(s, TRUE)
  <2>1. e \in Event /\ e.n > 0 /\ e.type = s.type /\ e.ix = s.ix
    BY <1>1, ArrivedEvent
  <2>2. /\ phase = "collect" /\ phase' = "flush" /\ UpstreamMay(s)
        /\ received' = Append(received, e)
        /\ held' = held \/ (open # NoBlock /\ held' = Append(held, e))
        /\ queue' = IF conf.fail = "closed" THEN <<>> ELSE held'
    BY <1>6 DEF EventError, Fail
  <2>3. e.type = "tool_start" => e.ix = Started /\ e.type \in Starts
    BY <2>1, <2>2 DEF UpstreamMay, Starts
  <2> HIDE DEF e
  <2>4. /\ Started \in Nat /\ received' \in Seq(Event)
        /\ Started' = IF e.type \in Starts THEN Started + 1 ELSE Started
    BY <1>1, <2>1, <2>2, OneMoreEvent
  <2>5. held' \in Seq(Event) /\ (held' = <<>> <=> open = NoBlock)
    <3>1. held \in Seq(Event) /\ (held = <<>> <=> open = NoBlock)
      BY <1>1 DEF TypeOK, HeldInv
    <3>2. Append(held, e) \in Seq(Event) /\ Append(held, e) # <<>>
      <4>1. Len(Append(held, e)) = Len(held) + 1 /\ Len(held) \in Nat
        BY <2>1, <3>1
      <4> QED
        BY <2>1, <3>1, <4>1
    <3> QED
      BY <2>2, <3>1, <3>2
  <2>6. \A k \in 1..Len(held') :
         (held'[k] = e /\ open # NoBlock) \/ (k \in 1..Len(held) /\ held'[k] = held[k])
    BY <1>1, <2>1, <2>2 DEF TypeOK
  <2>7. (open # NoBlock => open \in Nat) /\ DOMAIN verdicts \subseteq Nat
    BY <1>1 DEF TypeOK, Indices
  <2>8. IndexInv'
    BY <1>1, <1>2, <2>4, <2>7 DEF IndexInv
  <2>9. HeldEvents'
    <3>1. \A k \in 1..Len(held) : held[k].ix \in Nat
      BY <1>1, HeldTyped
    <3>2. \A k \in 1..Len(held) : held[k].type = "tool_start" => held[k].ix < Started' /\ open <= held[k].ix
      BY <1>1, <2>4, <3>1 DEF HeldEvents
    <3>3. open # NoBlock /\ e.type = "tool_start" => e.ix < Started' /\ open <= e.ix
      BY <1>1, <2>3, <2>4, <2>7 DEF IndexInv
    <3> QED
      BY <1>1, <1>2, <2>1, <2>2, <2>6, <3>2, <3>3 DEF HeldEvents
  <2>10. TypeOK'
    BY <1>1, <1>2, <2>2, <2>4, <2>5 DEF TypeOK
  <2> QED
    BY <1>1, <1>2, <1>3, <1>4, <2>2, <2>5, <2>8, <2>9, <2>10 DEF AInv, Inv, HeldInv, QueueInv, Opened
<1> QED
  BY <1>5, <1>6 DEF GuardError, UpstreamError, heldVars

LEMMA NextAInv ==
  ASSUME AInv, [Next]_vars
  PROVE  AInv'
BY ReceiveAInv, StraddleAInv, StallAInv, JudgeAInv, BuildAInv, YieldAInv, QuietAInv, FailureAInv
   DEF Next, GuardStep, Over

(* The handler's invariant holds for any events, patterns and bounds.      *)
THEOREM Invariance == Spec => []Inv
<1>1. Init => AInv
  BY InitAInv
<1>2. AInv /\ [Next]_vars => AInv'
  BY NextAInv
<1>3. AInv => Inv
  BY DEF AInv
<1> QED
  BY <1>1, <1>2, <1>3, PTL DEF Spec

(* The original of a call starts, as far as the client can parse it, only  *)
(* after a verdict on all that was assembled of it lets it through, and    *)
(* its replacement only after one that blocks it, unless the guard failed  *)
(* open; wherever events straddle chunks.                                  *)
THEOREM JudgedBeforeReleased == Spec => []ReleasedOnVerdict
<1>1. Inv => ReleasedOnVerdict
  BY DEF Inv
<1> QED
  BY <1>1, Invariance, PTL
-----------------------------------------------------------------------------
(***************************************************************************)
(* AnthropicStream implements ToolGate.                                    *)
(***************************************************************************)

LEMMA InitMaps == Init => Gate!Init
<1> SUFFICES ASSUME Init PROVE Gate!Init
  OBVIOUS
<1>1. conf.mode \in {"block", "flag"}
  BY DEF Init, Conf
<1>2. calls = [i \in Indices |-> <<>>] /\ Opened = FALSE
  BY DEF Init, Opened
<1>3. Verdict = [i \in Indices |-> "none"]
  BY DEF Init, Verdict
<1>4. Passed = {} /\ Replaced = {}
  BY DEF Init, Passed, Original, Replaced, WholeAt, Of
<1> QED
  BY <1>1, <1>2, <1>3, <1>4 DEF Gate!Init

(* A fragment arrives: the block that is open is not judged yet.           *)
LEMMA GrowMaps ==
  ASSUME AInv, AInv', UNCHANGED <<conf, out, cause, verdicts>>,
         \A i \in DOMAIN verdicts : calls'[i] = calls[i]
  PROVE  Gate!Receive
<1>1. calls' \in [Indices -> Seq(Pieces)]
  BY DEF AInv, Inv, TypeOK
<1>2. UNCHANGED <<conf.mode, Verdict, Passed, Replaced, Opened>>
  BY SameOut DEF Verdict, Opened
<1>3. \A i \in Indices : calls'[i] # calls[i] => Verdict[i] = "none"
  BY DEF Verdict
<1> QED
  BY <1>1, <1>2, <1>3 DEF Gate!Receive

(* An event goes out: the invariant says that what it releases was judged. *)
LEMMA ReleaseMaps ==
  ASSUME AInv, AInv', UNCHANGED <<conf, calls, cause, verdicts>>,
         NEW e \in Event, out' = Append(out, e)
  PROVE  [Gate!Next]_(Gate!gateVars)
<1>1. Passed \subseteq Passed' /\ Replaced \subseteq Replaced'
  BY OutGrows DEF AInv, Inv
<1>2. UNCHANGED <<conf.mode, calls, Verdict, Opened>>
  BY DEF Verdict, Opened
<1>3. Passed' \subseteq Indices /\ Replaced' \subseteq Indices
  BY DEF Passed, Replaced
<1>4. CASE Opened
  BY <1>1, <1>2, <1>3, <1>4 DEF Gate!FlushOpen, Gate!Next
<1>5. CASE ~Opened
  <2>1. /\ \A i \in Passed' : i \in DOMAIN verdicts /\ verdicts[i] # "block"
        /\ \A i \in Replaced' : i \in DOMAIN verdicts /\ verdicts[i] = "block"
    BY <1>2, <1>5 DEF AInv, Inv, ReleasedOnVerdict
  <2>2. \A i \in DOMAIN verdicts : verdicts[i] \in {"allow", "flag", "block"}
    BY DEF AInv, Inv, TypeOK, Verdicts
  <2>3. /\ \A i \in Passed' : Verdict[i] \in {"allow", "flag"}
        /\ \A i \in Replaced' : Verdict[i] = "block"
    BY <1>3, <2>1, <2>2 DEF Verdict
  <2> QED
    BY <1>1, <1>2, <1>3, <2>3 DEF Gate!Release, Gate!Next
<1> QED
  BY <1>4, <1>5

LEMMA ReceiveMaps ==
  ASSUME AInv, AInv', NEW s \in Events, Receive(s)
  PROVE  [Gate!Next]_(Gate!gateVars)
<1> DEFINE e == Arrived(s, TRUE)
<1>1. UNCHANGED <<conf, cause, verdicts>>
  BY DEF Receive, verdictVars
<1>2. CASE open = NoBlock /\ e.type # "tool_start"
  <2>1. out' = Append(out, EndTurn(e)) /\ UNCHANGED calls
    BY <1>2 DEF Receive
  <2>2. e \in Event
    BY ArrivedEvent DEF AInv, Inv
  <2>3. EndTurn(e) \in Event
    BY <2>2 DEF EndTurn, Event, Reasons
  <2> QED
    BY <1>1, <2>1, <2>3, ReleaseMaps
<1>3. CASE ~(open = NoBlock /\ e.type # "tool_start")
  <2> DEFINE f == Fragment(e)
  <2>1. e \in Event
    BY ArrivedEvent DEF AInv, Inv
  <2>2. e.ix \in Indices
    BY <2>1 DEF Event
  <2>3. calls \in [Indices -> Seq(Pieces)]
    BY DEF AInv, Inv, TypeOK
  <2>4. \/ /\ open = NoBlock
           /\ open' = e.ix
           /\ calls' = [calls EXCEPT ![e.ix] = f]
           /\ UNCHANGED out
        \/ /\ open # NoBlock
           /\ \/ calls' = [calls EXCEPT ![open] = @ \o f]
              \/ calls' = calls
           /\ UNCHANGED <<open, out>>
    BY <1>3 DEF Receive
  <2> HIDE DEF e, f
  <2>5. UNCHANGED out /\ open' # NoBlock
    BY <2>2, <2>4, MarkersAssumption DEF Indices
  <2>6. \A i \in Indices : i # open' => calls'[i] = calls[i]
    BY <2>3, <2>4
  <2>7. open \notin DOMAIN verdicts /\ open' \notin DOMAIN verdicts
    <3>1. phase = "collect" /\ phase' \in {"collect", "judge"}
      BY <1>3 DEF Receive
    <3> QED
      BY <1>1, <3>1 DEF AInv, Inv, HeldInv
  <2>8. DOMAIN verdicts \subseteq Indices
    BY DEF AInv, Inv, TypeOK
  <2>9. \A i \in DOMAIN verdicts : calls'[i] = calls[i]
    BY <2>6, <2>7, <2>8
  <2> QED
    BY <1>1, <2>5, <2>9, GrowMaps DEF Gate!Next
<1> QED
  BY <1>2, <1>3

LEMMA JudgeMaps ==
  ASSUME AInv, Judge
  PROVE  Gate!Judge(open) /\ open \in Indices
<1> DEFINE v == Evaluate(calls[open])
<1>1. /\ open \in Indices /\ open \notin DOMAIN verdicts
      /\ verdicts' = [i \in DOMAIN verdicts \cup {open} |-> IF i = open THEN v ELSE verdicts[i]]
      /\ UNCHANGED <<conf, calls, out, cause>>
  BY DEF Judge, AInv, Inv, HeldInv, TypeOK
<1>2. Gate!Judgement(calls[open]) = v
  BY DEF Gate!Judgement, Evaluate
<1> HIDE DEF v
<1>3. Verdict[open] = "none" /\ Verdict' = [Verdict EXCEPT ![open] = v]
  BY <1>1 DEF Verdict
<1>4. UNCHANGED <<conf.mode, calls, Passed, Replaced, Opened>>
  BY <1>1, SameOut DEF Opened
<1> QED
  BY <1>1, <1>2, <1>3, <1>4 DEF Gate!Judge

(* A failure in open mode is the gate's FailOpen; the rest is nothing to it.*)
LEMMA QuietMaps ==
  ASSUME UNCHANGED <<conf, calls, verdicts, out>>, cause' = cause \/ cause = "none"
  PROVE  [Gate!Next]_(Gate!gateVars)
<1>1. UNCHANGED <<conf.mode, calls, Verdict, Passed, Replaced>>
  BY SameOut DEF Verdict
<1>2. Opened' = TRUE \/ Opened' = Opened
  BY DEF Opened
<1>3. CASE Opened' = TRUE
  BY <1>1, <1>3 DEF Gate!FailOpen, Gate!Next
<1>4. CASE Opened' = Opened
  BY <1>1, <1>4 DEF Gate!gateVars
<1> QED
  BY <1>2, <1>3, <1>4

LEMMA NextMaps ==
  ASSUME AInv, AInv', [Next]_vars
  PROVE  [Gate!Next]_(Gate!gateVars)
<1>1. CASE \E s \in Events : Receive(s)
  BY <1>1, ReceiveMaps
<1>2. ASSUME NEW s \in Events, Straddle(s) PROVE [Gate!Next]_(Gate!gateVars)
  <2>1. Arrived(s, FALSE) \in Event
    BY ArrivedEvent DEF AInv, Inv
  <2>2. UNCHANGED <<conf, calls, cause, verdicts>> /\ out' = Append(out, Arrived(s, FALSE))
    BY <1>2 DEF Straddle, verdictVars
  <2> QED
    BY <2>1, <2>2, ReleaseMaps
<1>3. CASE Stall
  <2>1. Ping \in Event
    BY BoundsAssumption DEF Ping, Made, Event, Types, Indices, Reasons
  <2>2. UNCHANGED <<conf, calls, cause, verdicts>> /\ out' = Append(out, Ping)
    BY <1>3 DEF Stall, verdictVars
  <2> QED
    BY <2>1, <2>2, ReleaseMaps
<1>4. CASE Yield
  <2>1. queue \in Seq(Event) /\ queue # <<>>
    BY <1>4 DEF Yield, AInv, Inv, TypeOK
  <2>2. Head(queue) \in Event
    BY <2>1
  <2>3. UNCHANGED <<conf, calls, cause, verdicts>> /\ out' = Append(out, Head(queue))
    BY <1>4 DEF Yield, verdictVars
  <2> QED
    BY <2>2, <2>3, ReleaseMaps
<1>5. CASE Judge
  BY <1>5, JudgeMaps DEF Gate!Next
<1>6. CASE Build \/ EndRelease \/ UpstreamEnds \/ EndFlush \/ ClientGone \/ UNCHANGED vars
  <2>1. UNCHANGED <<conf, calls, verdicts, out>>
    BY <1>6 DEF Build, EndRelease, UpstreamEnds, EndFlush, ClientGone, verdictVars, vars
  <2>2. cause' = cause \/ cause = "none"
    BY <1>6 DEF Build, EndRelease, UpstreamEnds, EndFlush, ClientGone, vars, AInv, QueueInv, Terminal
  <2> QED
    BY <2>1, <2>2, QuietMaps
<1>7. CASE GuardError \/ UpstreamError \/ \E s \in Events : EventError(s)
  <2>1. UNCHANGED <<conf, calls, verdicts, out>> /\ phase \in {"collect", "judge", "build"}
    BY <1>7 DEF GuardError, UpstreamError, EventError, Fail, verdictVars
  <2>2. cause = "none"
    BY <2>1 DEF AInv, QueueInv, Terminal
  <2> QED
    BY <2>1, <2>2, QuietMaps
<1> QED
  BY <1>1, <1>2, <1>3, <1>4, <1>5, <1>6, <1>7 DEF Next, GuardStep, Over

(* The Messages handler keeps the promise of the gate: whatever straddles, *)
(* is cut or fails, each step is one that ToolGate allows.                 *)
THEOREM ImplementsToolGate == Spec => GateSpec
<1>1. Init => Gate!Init
  BY InitMaps
<1>2. Init => AInv
  BY InitAInv
<1>3. AInv /\ [Next]_vars => AInv'
  BY NextAInv
<1>4. AInv /\ AInv' /\ [Next]_vars => [Gate!Next]_(Gate!gateVars)
  BY NextMaps
<1> QED
  BY <1>1, <1>2, <1>3, <1>4, PTL DEF Spec, GateSpec, Gate!Spec
-----------------------------------------------------------------------------
(***************************************************************************)
(* What the client and the upstream spell out, wherever events straddle.   *)
(***************************************************************************)

(* The upstream's blocks come one after the other, and one that was judged *)
(* is over.                                                                *)
Stops == Cardinality(Of(received, {"stop"}))
BlockInv ==
  /\ Started <= Stops + 1 /\ Stops <= Started
  /\ \A i \in DOMAIN verdicts : i < Stops
  /\ phase \in {"judge", "build", "release"} => open < Stops /\ Started = open + 1
  /\ \A k \in 1..Len(received) : received[k].type \in {"tool_start", "delta"} =>
       received[k].ix < Started

(* What the handler assembled of a block is what the upstream spells.      *)
SpellInv ==
  /\ \A i \in DOMAIN verdicts : calls[i] = Spelled(received, i)
  /\ cause = "none" /\ open # NoBlock => calls[open] = Spelled(received, open)

(* A judged call as the client should hold it, and one it holds nothing of.*)
Settled(q, i) ==
  LET blocked == verdicts[i] = "block"
  IN  /\ Called(q, i) <=> (~blocked \/ Rewrites)
      /\ WholeAt(q, {"text_start"}, i) = {} <=> Called(q, i)
      /\ Spelled(q, i) = IF blocked THEN <<Echo>> ELSE calls[i]
Touches(q, i) == WholeAt(q, {"text_start", "tool_start", "delta"}, i) # {}

SettledInv ==
  cause = "none" /\ phase # "gone" =>
    /\ phase \in {"flush", "done"} => open = NoBlock
    /\ open # NoBlock /\ phase # "release" =>
         /\ ~Touches(out, open)
         /\ Called(held, open) /\ WholeAt(held, {"text_start"}, open) = {}
         /\ Spelled(held, open) = calls[open]
    /\ phase = "release" => Settled(out \o queue, open)
    /\ \A i \in DOMAIN verdicts : i # open => Settled(out, i)
    /\ \A i \in Indices \ DOMAIN verdicts : Called(received, i) => open # NoBlock /\ open <= i
    /\ \A k \in 1..Len(out) : out[k].type \in {"text_start", "tool_start", "delta"} =>
         out[k].ix < Started

(* What one event adds to the call of block i.                             *)
EventPart(e, i) ==
  IF e.whole /\ e.type \in {"tool_start", "delta"} /\ e.ix = i THEN Fragment(e) ELSE <<>>

LEMMA EventPartTyped ==
  ASSUME NEW e \in Event, NEW i
  PROVE  EventPart(e, i) \in Seq(Pieces \cup {Echo})
<1>1. CASE e.arg = NoArg
  BY <1>1 DEF EventPart, Fragment
<1>2. CASE e.arg # NoArg
  <2>1. e.arg \in Pieces \cup {Echo} /\ Fragment(e) = <<e.arg>>
    BY <1>2 DEF Event, Fragment
  <2>2. Fragment(e) \in Seq(Pieces \cup {Echo}) /\ <<>> \in Seq(Pieces \cup {Echo})
    BY <2>1
  <2> QED
    BY <2>2, Zenon DEF EventPart
<1> QED
  BY <1>1, <1>2

(* A stream of events as the parts of block i.                             *)
LEMMA SpelledParts ==
  ASSUME NEW q \in Seq(Event), NEW i
  PROVE  /\ Spelled(q, i) = FlattenSeq([k \in 1..Len(q) |-> EventPart(q[k], i)])
         /\ [k \in 1..Len(q) |-> EventPart(q[k], i)] \in Seq(Seq(Pieces \cup {Echo}))
         /\ Spelled(q, i) \in Seq(Pieces \cup {Echo})
<1> DEFINE parts == [k \in 1..Len(q) |-> EventPart(q[k], i)]
<1>1. \A k \in 1..Len(q) : EventPart(q[k], i) \in Seq(Pieces \cup {Echo})
  BY EventPartTyped
<1>2. parts \in Seq(Seq(Pieces \cup {Echo}))
  BY <1>1
<1>3. \A k \in 1..Len(q) :
        (IF k \in WholeAt(q, {"tool_start", "delta"}, i) THEN Fragment(q[k]) ELSE <<>>)
          = EventPart(q[k], i)
  BY DEF WholeAt, Of, EventPart
<1>4. Spelled(q, i) = FlattenSeq(parts)
  <2>1. [k \in 1..Len(q) |->
           IF k \in WholeAt(q, {"tool_start", "delta"}, i) THEN Fragment(q[k]) ELSE <<>>] = parts
    BY <1>3
  <2> QED
    BY <2>1 DEF Spelled
<1>5. FlattenSeq(parts) \in Seq(Pieces \cup {Echo})
  <2> HIDE DEF parts
  <2> QED
    BY <1>2, FlattenTyped
<1> QED
  BY <1>2, <1>4, <1>5

LEMMA SpelledAppend ==
  ASSUME NEW q \in Seq(Event), NEW e \in Event, NEW i
  PROVE  /\ Append(q, e) \in Seq(Event)
         /\ Spelled(Append(q, e), i) = Spelled(q, i) \o EventPart(e, i)
         /\ Spelled(q, i) \in Seq(Pieces \cup {Echo})
<1> DEFINE parts(s) == [k \in 1..Len(s) |-> EventPart(s[k], i)]
           r == Append(q, e)
<1>1. /\ r \in Seq(Event) /\ Len(r) = Len(q) + 1 /\ r[Len(r)] = e
      /\ Len(q) \in Nat /\ \A k \in 1..Len(q) : k \in 1..Len(r) /\ r[k] = q[k]
      /\ \A k \in 1..Len(r) : k \in 1..Len(q) \/ k = Len(r)
  OBVIOUS
<1>2. parts(r) = Append(parts(q), EventPart(e, i))
  <2>1. \A k \in 1..Len(r) : EventPart(r[k], i) = Append(parts(q), EventPart(e, i))[k]
    BY <1>1
  <2> QED
    BY <1>1, <2>1
<1>3. /\ Spelled(r, i) = FlattenSeq(parts(r)) /\ Spelled(q, i) = FlattenSeq(parts(q))
      /\ parts(q) \in Seq(Seq(Pieces \cup {Echo})) /\ Spelled(q, i) \in Seq(Pieces \cup {Echo})
  BY <1>1, SpelledParts
<1>4. EventPart(e, i) \in Seq(Pieces \cup {Echo})
  BY EventPartTyped
<1>5. FlattenSeq(Append(parts(q), EventPart(e, i))) = FlattenSeq(parts(q)) \o EventPart(e, i)
  <2> HIDE DEF parts
  <2> QED
    BY <1>3, <1>4, FlattenAppend
<1> HIDE DEF parts, r
<1>6. Spelled(r, i) = Spelled(q, i) \o EventPart(e, i)
  BY <1>2, <1>3, <1>5
<1> QED
  BY <1>1, <1>3, <1>6 DEF r

LEMMA SpelledConcat ==
  ASSUME NEW q \in Seq(Event), NEW r \in Seq(Event), NEW i
  PROVE  Spelled(q \o r, i) = Spelled(q, i) \o Spelled(r, i)
<1> DEFINE parts(s) == [k \in 1..Len(s) |-> EventPart(s[k], i)]
           c == q \o r
<1>1. /\ c \in Seq(Event) /\ Len(c) = Len(q) + Len(r) /\ Len(q) \in Nat /\ Len(r) \in Nat
      /\ \A k \in 1..Len(c) : c[k] = IF k <= Len(q) THEN q[k] ELSE r[k - Len(q)]
  OBVIOUS
<1>2. /\ Spelled(c, i) = FlattenSeq(parts(c)) /\ parts(c) \in Seq(Seq(Pieces \cup {Echo}))
      /\ Spelled(q, i) = FlattenSeq(parts(q)) /\ parts(q) \in Seq(Seq(Pieces \cup {Echo}))
      /\ Spelled(r, i) = FlattenSeq(parts(r)) /\ parts(r) \in Seq(Seq(Pieces \cup {Echo}))
  BY <1>1, SpelledParts
<1>3. parts(c) = parts(q) \o parts(r)
  <2>1. Len(parts(c)) = Len(c) /\ Len(parts(q)) = Len(q) /\ Len(parts(r)) = Len(r)
    BY <1>1
  <2>2. \A k \in 1..Len(c) :
          parts(c)[k] = IF k <= Len(q) THEN parts(q)[k] ELSE parts(r)[k - Len(q)]
    <3> HIDE DEF c
    <3> QED
      BY <1>1
  <2> HIDE DEF c, parts
  <2>3. /\ parts(q) \o parts(r) \in Seq(Seq(Pieces \cup {Echo}))
        /\ Len(parts(q) \o parts(r)) = Len(parts(c))
        /\ \A k \in 1..(Len(q) + Len(r)) :
             (parts(q) \o parts(r))[k] = IF k <= Len(q) THEN parts(q)[k] ELSE parts(r)[k - Len(q)]
    <3>1. parts(q) \in Seq(Seq(Pieces \cup {Echo})) /\ parts(r) \in Seq(Seq(Pieces \cup {Echo}))
      BY <1>2
    <3>2. /\ parts(q) \o parts(r) \in Seq(Seq(Pieces \cup {Echo}))
          /\ Len(parts(q) \o parts(r)) = Len(parts(q)) + Len(parts(r))
          /\ \A k \in 1..(Len(parts(q)) + Len(parts(r))) : (parts(q) \o parts(r))[k] =
               IF k <= Len(parts(q)) THEN parts(q)[k] ELSE parts(r)[k - Len(parts(q))]
      BY <3>1, ConcatProperties
    <3> QED
      BY <1>1, <2>1, <3>2
  <2>4. \A k \in 1..Len(parts(c)) : parts(c)[k] = (parts(q) \o parts(r))[k]
    BY <1>1, <2>1, <2>2, <2>3
  <2> QED
    BY <1>2, <2>3, <2>4, SeqEqual
<1> HIDE DEF parts
<1>4. FlattenSeq(parts(q) \o parts(r)) = FlattenSeq(parts(q)) \o FlattenSeq(parts(r))
  BY <1>2, FlattenConcat
<1> QED
  BY <1>2, <1>3, <1>4

(* Which blocks a stream starts and touches, with one more event and with  *)
(* more of them.                                                           *)
LEMMA WholeAppend ==
  ASSUME NEW q \in Seq(Event), NEW e \in Event, NEW types, NEW i
  PROVE  WholeAt(Append(q, e), types, i) = {} <=>
           WholeAt(q, types, i) = {} /\ ~(e.whole /\ e.type \in types /\ e.ix = i)
<1> DEFINE r == Append(q, e)
<1>1. /\ Len(q) \in Nat /\ Len(r) \in 1..Len(r) /\ r[Len(r)] = e
      /\ \A k \in 1..Len(q) : k \in 1..Len(r) /\ r[k] = q[k]
      /\ \A k \in 1..Len(r) : (k \in 1..Len(q) /\ r[k] = q[k]) \/ r[k] = e
  OBVIOUS
<1> HIDE DEF r
<1>2. WholeAt(r, types, i) = {} <=>
        WholeAt(q, types, i) = {} /\ ~(e.whole /\ e.type \in types /\ e.ix = i)
  BY <1>1 DEF WholeAt, Of
<1> QED
  BY <1>2 DEF r

LEMMA WholeConcat ==
  ASSUME NEW q \in Seq(Event), NEW r \in Seq(Event), NEW types, NEW i
  PROVE  WholeAt(q \o r, types, i) = {} <=> WholeAt(q, types, i) = {} /\ WholeAt(r, types, i) = {}
<1> DEFINE c == q \o r
<1>1. /\ Len(c) = Len(q) + Len(r) /\ Len(q) \in Nat /\ Len(r) \in Nat
      /\ \A k \in 1..Len(c) : c[k] = IF k <= Len(q) THEN q[k] ELSE r[k - Len(q)]
  OBVIOUS
<1> HIDE DEF c
<1>2. /\ \A k \in 1..Len(q) : k \in 1..Len(c) /\ c[k] = q[k]
      /\ \A k \in 1..Len(r) : Len(q) + k \in 1..Len(c) /\ c[Len(q) + k] = r[k]
      /\ \A k \in 1..Len(c) : \/ k \in 1..Len(q) /\ c[k] = q[k]
                              \/ k - Len(q) \in 1..Len(r) /\ c[k] = r[k - Len(q)]
  BY <1>1
<1>3. \A k \in WholeAt(q, types, i) : k \in WholeAt(c, types, i)
  BY <1>2 DEF WholeAt, Of
<1>4. \A k \in WholeAt(r, types, i) : Len(q) + k \in WholeAt(c, types, i)
  BY <1>2 DEF WholeAt, Of
<1>5. \A k \in WholeAt(c, types, i) :
        k \in WholeAt(q, types, i) \/ k - Len(q) \in WholeAt(r, types, i)
  BY <1>2 DEF WholeAt, Of
<1>6. WholeAt(c, types, i) = {} <=> WholeAt(q, types, i) = {} /\ WholeAt(r, types, i) = {}
  BY <1>3, <1>4, <1>5
<1> QED
  BY <1>6 DEF c

(* A stream that does not touch a block spells nothing of it.              *)
LEMMA SpelledNothing ==
  ASSUME NEW q \in Seq(Event), NEW i, WholeAt(q, {"tool_start", "delta"}, i) = {}
  PROVE  Spelled(q, i) = <<>>
<1> DEFINE p == [k \in 1..Len(q) |-> EventPart(q[k], i)]
<1>1. \A k \in 1..Len(q) : p[k] = <<>>
  BY DEF EventPart, WholeAt, Of
<1>2. Len(p) = Len(q) /\ Len(p) \in Nat /\ p = [k \in 1..Len(p) |-> p[k]]
  OBVIOUS
<1>3. Spelled(q, i) = FlattenSeq(p)
  BY SpelledParts
<1> HIDE DEF p
<1>4. FlattenSeq(p) = <<>>
  BY <1>1, <1>2, FlattenNothing
<1> QED
  BY <1>3, <1>4
-----------------------------------------------------------------------------
LEMMA CountIsNat ==
  ASSUME NEW q \in Seq(Event), NEW types
  PROVE  Cardinality(Of(q, types)) \in Nat
<1>1. Len(q) \in Nat /\ Of(q, types) \subseteq 1..Len(q)
  BY DEF Of
<1>2. IsFiniteSet(1..Len(q))
  BY <1>1, FS_Interval
<1> QED
  BY <1>1, <1>2, FS_Subset, FS_CardinalityType

(* What the protocol says of an event that arrives, and what it adds.      *)
LEMMA Arrival ==
  ASSUME TypeOK, BlockInv, NEW s \in Events, NEW w \in BOOLEAN,
         UpstreamMay(s), received' = Append(received, Arrived(s, w))
  PROVE  LET e == Arrived(s, w) IN
         /\ e \in Event /\ e.n = Len(received) + 1 /\ e.n > 0 /\ (e.whole <=> w)
         /\ e.type = s.type /\ e.ix = s.ix /\ e.ix \in Indices /\ e.ix \in Nat
         /\ Started \in Nat /\ Stops \in Nat
         /\ Started' = (IF e.type \in Starts THEN Started + 1 ELSE Started)
         /\ Stops' = (IF e.type = "stop" THEN Stops + 1 ELSE Stops)
         /\ e.type \in Starts => e.ix = Started /\ Started = Stops
         /\ e.type \in {"delta", "stop"} => e.ix = Started - 1 /\ Started = Stops + 1
         /\ e.type = "message_delta" => Started = Stops
         /\ \A i : Spelled(received', i) = Spelled(received, i) \o EventPart(e, i)
         /\ \A i : Spelled(received, i) \in Seq(Pieces \cup {Echo})
         /\ \A k \in 1..Len(received') :
              (k \in 1..Len(received) /\ received'[k] = received[k]) \/ received'[k] = e
<1> DEFINE e == Arrived(s, w)
<1>1. /\ e \in Event /\ e.n > 0 /\ e.whole = w /\ e.type = s.type /\ e.ix = s.ix /\ s.ix \in Indices
      /\ received \in Seq(Event) /\ e.n = Len(received) + 1
  <2>1. e.n = Len(received) + 1
    BY DEF Arrived
  <2> QED
    BY <2>1, ArrivedEvent DEF TypeOK
<1>2. /\ Started \in Nat /\ Started' = (IF e.type \in Starts THEN Started + 1 ELSE Started)
  <2>1. e \in Event
    BY <1>1
  <2> HIDE DEF e
  <2> QED
    BY <2>1, OneMoreEvent DEF e
<1>3. Stops \in Nat /\ Stops' = (IF e.type = "stop" THEN Stops + 1 ELSE Stops)
  <2>1. /\ Cardinality(Of(received, {"stop"})) \in Nat
        /\ Cardinality(Of(Append(received, e), {"stop"})) =
             IF e.type \in {"stop"} THEN Cardinality(Of(received, {"stop"})) + 1
                                    ELSE Cardinality(Of(received, {"stop"}))
    BY <1>1, CountGrows
  <2> QED
    BY <2>1 DEF Stops
<1>4. InBlock <=> Started > Stops
  BY DEF InBlock, Stops
<1>5. /\ s.type \in Starts => ~InBlock /\ s.ix = Started
      /\ s.type \in {"delta", "stop"} => InBlock /\ s.ix = Started - 1
      /\ s.type = "message_delta" => ~InBlock
  BY DEF UpstreamMay, Starts
<1>6. Started <= Stops + 1 /\ Stops <= Started
  BY DEF BlockInv
<1>7. \A i : /\ Spelled(received', i) = Spelled(received, i) \o EventPart(e, i)
             /\ Spelled(received, i) \in Seq(Pieces \cup {Echo})
  <2> TAKE i
  <2>1. received \in Seq(Event) /\ e \in Event
    BY <1>1
  <2> HIDE DEF e
  <2>2. /\ Spelled(Append(received, e), i) = Spelled(received, i) \o EventPart(e, i)
        /\ Spelled(received, i) \in Seq(Pieces \cup {Echo})
    BY <2>1, SpelledAppend
  <2> QED
    BY <2>2 DEF e
<1>8. \A k \in 1..Len(received') :
        (k \in 1..Len(received) /\ received'[k] = received[k]) \/ received'[k] = e
  <2>1. received \in Seq(Event) /\ e \in Event /\ received' = Append(received, e)
    BY <1>1
  <2> HIDE DEF e
  <2>2. \A k \in 1..Len(Append(received, e)) :
          (k \in 1..Len(received) /\ Append(received, e)[k] = received[k]) \/ Append(received, e)[k] = e
    BY <2>1
  <2> QED
    BY <2>1, <2>2
<1>9. /\ e.type \in Starts => e.ix = Started /\ Started = Stops
      /\ e.type \in {"delta", "stop"} => e.ix = Started - 1 /\ Started = Stops + 1
      /\ e.type = "message_delta" => Started = Stops
  BY <1>1, <1>2, <1>3, <1>4, <1>5, <1>6
<1>10. e.ix \in Indices /\ e.ix \in Nat
  BY <1>1 DEF Indices
<1> HIDE DEF e
<1>11. /\ e \in Event /\ e.n = Len(received) + 1 /\ e.n > 0 /\ (e.whole <=> w)
       /\ e.type = s.type /\ e.ix = s.ix /\ e.ix \in Indices /\ e.ix \in Nat
  BY <1>1, <1>10
<1> QED
  BY <1>2, <1>3, <1>7, <1>8, <1>9, <1>11 DEF e

(* An event that arrives touches no block that was judged.                 *)
LEMMA ArrivalBlocks ==
  ASSUME AInv, BlockInv, NEW s \in Events, NEW w \in BOOLEAN, phase = "collect",
         UpstreamMay(s), received' = Append(received, Arrived(s, w)),
         UNCHANGED verdicts,
         \/ phase' \notin {"judge", "build", "release"}
         \/ s.type = "stop" /\ s.ix = open /\ open' = open
  PROVE  BlockInv'
<1> DEFINE e == Arrived(s, w)
<1>1. /\ e \in Event /\ e.type = s.type /\ e.ix = s.ix
      /\ Started \in Nat /\ Stops \in Nat
      /\ Started' = (IF e.type \in Starts THEN Started + 1 ELSE Started)
      /\ Stops' = (IF e.type = "stop" THEN Stops + 1 ELSE Stops)
      /\ e.type \in Starts => e.ix = Started /\ Started = Stops
      /\ e.type \in {"delta", "stop"} => e.ix = Started - 1 /\ Started = Stops + 1
      /\ \A k \in 1..Len(received') :
           (k \in 1..Len(received) /\ received'[k] = received[k]) \/ received'[k] = e
  BY Arrival DEF AInv, Inv
<1> HIDE DEF e
<1>2. Started' <= Stops' + 1 /\ Stops' <= Started'
  BY <1>1 DEF BlockInv, Starts
<1>3. \A i \in DOMAIN verdicts' : i < Stops'
  <2>1. DOMAIN verdicts \subseteq Nat
    BY DEF AInv, Inv, TypeOK, Indices
  <2> QED
    BY <1>1, <2>1 DEF BlockInv
<1>4. phase' \in {"judge", "build", "release"} => open' < Stops' /\ Started' = open' + 1
  BY <1>1 DEF Starts
<1>5. \A k \in 1..Len(received') : received'[k].type \in {"tool_start", "delta"} =>
        received'[k].ix < Started'
  <2>1. \A k \in 1..Len(received) : received[k].ix \in Nat
    <3>1. \A k \in 1..Len(received) : received[k] \in Event
      BY DEF AInv, Inv, TypeOK
    <3> QED
      BY <3>1 DEF Event, Indices
  <2> QED
    BY <1>1, <2>1 DEF BlockInv, Starts
<1> QED
  BY <1>2, <1>3, <1>4, <1>5 DEF BlockInv

LEMMA BlockStep ==
  ASSUME AInv, BlockInv, [Next]_vars
  PROVE  BlockInv'
<1>1. CASE UNCHANGED received /\ UNCHANGED verdicts
           /\ (phase' \in {"judge", "build", "release"} => UNCHANGED open /\ phase \in {"judge", "build", "release"})
  BY <1>1, SameReceived DEF BlockInv, Stops, Of
<1>2. ASSUME NEW s \in Events, Receive(s) PROVE BlockInv'
  <2>1. Arrived(s, TRUE).type = s.type /\ Arrived(s, TRUE).ix = s.ix
    BY DEF Arrived
  <2>2. /\ phase = "collect" /\ UpstreamMay(s) /\ received' = Append(received, Arrived(s, TRUE))
        /\ UNCHANGED verdicts
        /\ \/ phase' = "collect"
           \/ phase' = "judge" /\ s.type = "stop" /\ s.ix = open /\ open' = open
    BY <1>2, <2>1 DEF Receive, verdictVars
  <2> QED
    BY <2>2, ArrivalBlocks
<1>3. ASSUME NEW s \in Events, Straddle(s) PROVE BlockInv'
  <2>1. /\ phase = "collect" /\ UpstreamMay(s) /\ received' = Append(received, Arrived(s, FALSE))
        /\ UNCHANGED <<verdicts, phase>>
    BY <1>3 DEF Straddle, verdictVars
  <2> QED
    BY <2>1, ArrivalBlocks
<1>4. ASSUME NEW s \in Events, EventError(s) PROVE BlockInv'
  <2>1. /\ phase = "collect" /\ UpstreamMay(s) /\ received' = Append(received, Arrived(s, TRUE))
        /\ UNCHANGED verdicts /\ phase' = "flush"
    BY <1>4 DEF EventError, Fail, verdictVars
  <2> QED
    BY <2>1, ArrivalBlocks
<1>5. CASE Judge
  <2>1. /\ phase = "judge" /\ phase' = "build" /\ UNCHANGED <<received, open>>
        /\ DOMAIN verdicts' = DOMAIN verdicts \cup {open}
    BY <1>5 DEF Judge, heldVars
  <2> QED
    BY <2>1, SameReceived DEF BlockInv, Stops, Of
<1>6. CASE Stall \/ Build \/ Yield \/ EndRelease \/ EndFlush \/ UpstreamEnds \/ UpstreamError
           \/ GuardError \/ ClientGone \/ UNCHANGED vars
  <2>1. UNCHANGED received /\ UNCHANGED verdicts
    BY <1>6 DEF Stall, Build, Yield, EndRelease, EndFlush, UpstreamEnds, UpstreamError, GuardError,
       Fail, ClientGone, vars, heldVars, verdictVars
  <2>2. phase' \in {"judge", "build", "release"} =>
          UNCHANGED open /\ phase \in {"judge", "build", "release"}
    BY <1>6 DEF Stall, Build, Yield, EndRelease, EndFlush, UpstreamEnds, UpstreamError, GuardError,
       Fail, ClientGone, vars, heldVars
  <2> QED
    BY <1>1, <2>1, <2>2
<1> QED
  BY <1>2, <1>3, <1>4, <1>5, <1>6 DEF Next, GuardStep, Over

(* A judged block is over: nothing more of it comes.                       *)
LEMMA JudgedIsOver ==
  ASSUME AInv, BlockInv, NEW s \in Events, NEW w \in BOOLEAN,
         UpstreamMay(s), received' = Append(received, Arrived(s, w)),
         NEW i \in DOMAIN verdicts
  PROVE  /\ EventPart(Arrived(s, w), i) = <<>>
         /\ s.type \in {"text_start", "tool_start", "delta"} => s.ix # i
         /\ Spelled(received', i) = Spelled(received, i)
<1> DEFINE e == Arrived(s, w)
<1>1. /\ e.type = s.type /\ e.ix = s.ix /\ Started \in Nat /\ Stops \in Nat
      /\ e.type \in Starts => e.ix = Started /\ Started = Stops
      /\ e.type \in {"delta", "stop"} => e.ix = Started - 1 /\ Started = Stops + 1
      /\ Spelled(received', i) = Spelled(received, i) \o EventPart(e, i)
      /\ Spelled(received, i) \in Seq(Pieces \cup {Echo})
  BY Arrival DEF AInv, Inv
<1> HIDE DEF e
<1>2. i < Stops /\ i \in Nat
  BY DEF BlockInv, AInv, Inv, TypeOK, Indices
<1>3. e.type \in {"text_start", "tool_start", "delta"} => e.ix # i
  BY <1>1, <1>2 DEF Starts
<1>4. EventPart(e, i) = <<>>
  BY <1>3 DEF EventPart
<1>5. Spelled(received, i) \o <<>> = Spelled(received, i)
  BY <1>1
<1> QED
  BY <1>1, <1>3, <1>4, <1>5 DEF e

LEMMA SpellStep ==
  ASSUME AInv, BlockInv, SpellInv, [Next]_vars
  PROVE  SpellInv'
<1>0. TypeOK /\ HeldInv /\ IndexInv /\ QueueInv
  BY DEF AInv, Inv
<1>1. ASSUME NEW s \in Events, Receive(s) PROVE SpellInv'
  <2> DEFINE e == Arrived(s, TRUE)
  <2>1. /\ phase = "collect" /\ UpstreamMay(s) /\ received' = Append(received, e)
        /\ UNCHANGED <<verdicts, cause>>
        /\ \/ /\ open = NoBlock /\ e.type = "tool_start" /\ open' = e.ix
              /\ calls' = [calls EXCEPT ![e.ix] = Fragment(e)]
           \/ /\ open = NoBlock /\ open' = open /\ calls' = calls
           \/ /\ open # NoBlock /\ open' = open
              /\ calls' = IF Own(e) THEN [calls EXCEPT ![open] = calls[open] \o Fragment(e)] ELSE calls
    BY <1>1 DEF Receive, verdictVars
  <2>2. /\ e \in Event /\ e.whole = TRUE /\ e.type = s.type /\ e.ix = s.ix /\ e.ix \in Indices
        /\ Started \in Nat /\ Stops \in Nat
        /\ e.type \in Starts => e.ix = Started /\ Started = Stops
        /\ e.type \in {"delta", "stop"} => e.ix = Started - 1 /\ Started = Stops + 1
        /\ \A i : Spelled(received', i) = Spelled(received, i) \o EventPart(e, i)
        /\ \A i : Spelled(received, i) \in Seq(Pieces \cup {Echo})
    BY <1>0, <2>1, Arrival
  <2>3. \A i \in DOMAIN verdicts :
          /\ s.type \in {"text_start", "tool_start", "delta"} => s.ix # i
          /\ Spelled(received', i) = Spelled(received, i)
    BY <2>1, JudgedIsOver
  <2>4. Fragment(e) \in Seq(Pieces)
    BY <1>0, ArrivedEvent
  <2> HIDE DEF e
  <2>5. calls \in [Indices -> Seq(Pieces)] /\ DOMAIN verdicts \subseteq Indices
    BY <1>0 DEF TypeOK
  <2>6. open \notin DOMAIN verdicts
    BY <1>0, <2>1 DEF HeldInv
  <2>7. \A i \in DOMAIN verdicts : calls'[i] = calls[i]
    <3>1. CASE open = NoBlock /\ e.type = "tool_start" /\ open' = e.ix
               /\ calls' = [calls EXCEPT ![e.ix] = Fragment(e)]
      <4>1. \A i \in DOMAIN verdicts : i # e.ix
        BY <2>2, <2>3, <3>1
      <4> QED
        BY <2>5, <3>1, <4>1
    <3>2. CASE calls' = calls
      BY <3>2
    <3>3. CASE calls' = [calls EXCEPT ![open] = calls[open] \o Fragment(e)]
      BY <2>5, <2>6, <3>3
    <3> QED
      BY <2>1, <3>1, <3>2, <3>3
  <2>8. ASSUME cause' = "none", open' # NoBlock
        PROVE  calls'[open'] = Spelled(received', open')
    <3>1. CASE open = NoBlock /\ e.type = "tool_start" /\ open' = e.ix
               /\ calls' = [calls EXCEPT ![e.ix] = Fragment(e)]
      <4>1. calls'[open'] = Fragment(e)
        BY <2>2, <2>5, <3>1
      <4>2. EventPart(e, open') = Fragment(e)
        BY <2>2, <3>1 DEF EventPart
      <4>3. Spelled(received, open') = <<>>
        <5>1. received \in Seq(Event) /\ open' = Started
          BY <1>0, <2>2, <3>1 DEF TypeOK, Starts
        <5>2. WholeAt(received, {"tool_start", "delta"}, open') = {}
          <6>1. \A k \in 1..Len(received) : received[k].type \in {"tool_start", "delta"} =>
                  received[k].ix # Started
            BY <2>2 DEF BlockInv
          <6> QED
            BY <5>1, <6>1 DEF WholeAt, Of
        <5> QED
          BY <5>1, <5>2, SpelledNothing
      <4>4. <<>> \o Fragment(e) = Fragment(e)
        BY <2>4
      <4>5. Spelled(received', open') = Spelled(received, open') \o EventPart(e, open')
        BY <2>2
      <4> QED
        BY <4>1, <4>2, <4>3, <4>4, <4>5
    <3>2. CASE /\ open # NoBlock /\ open' = open
               /\ calls' = IF Own(e) THEN [calls EXCEPT ![open] = calls[open] \o Fragment(e)] ELSE calls
      <4>1. calls[open] = Spelled(received, open) /\ open \in Indices
        BY <1>0, <2>1, <2>8, <3>2 DEF SpellInv, TypeOK
      <4>2. Spelled(received', open) = calls[open] \o EventPart(e, open)
        BY <2>2, <4>1
      <4>3. CASE Own(e)
        <5>1. EventPart(e, open) = Fragment(e)
          BY <2>2, <4>3 DEF Own, EventPart
        <5>2. calls'[open] = calls[open] \o Fragment(e)
          BY <2>5, <3>2, <4>1, <4>3
        <5> QED
          BY <3>2, <4>2, <5>1, <5>2
      <4>4. CASE ~Own(e)
        <5>1. ~(e.type = "tool_start" /\ e.ix = open)
          BY <1>0, <2>2, <3>2 DEF IndexInv, Starts
        <5>2. EventPart(e, open) = <<>>
          BY <4>4, <5>1 DEF Own, EventPart
        <5>3. calls[open] \o <<>> = calls[open]
          BY <2>5, <4>1
        <5> QED
          BY <3>2, <4>2, <4>4, <5>2, <5>3
      <4> QED
        BY <4>3, <4>4
    <3> QED
      BY <2>1, <2>8, <3>1, <3>2
  <2> QED
    BY <2>1, <2>3, <2>7, <2>8 DEF SpellInv
<1>2. ASSUME NEW s \in Events, Straddle(s) PROVE SpellInv'
  <2> DEFINE e == Arrived(s, FALSE)
  <2>1. /\ phase = "collect" /\ UpstreamMay(s) /\ received' = Append(received, e)
        /\ UNCHANGED <<verdicts, cause, open, calls>>
    BY <1>2 DEF Straddle, verdictVars, heldVars
  <2>2. /\ e \in Event /\ ~e.whole
        /\ \A i : Spelled(received', i) = Spelled(received, i) \o EventPart(e, i)
        /\ \A i : Spelled(received, i) \in Seq(Pieces \cup {Echo})
    BY <1>0, <2>1, Arrival
  <2> HIDE DEF e
  <2>3. \A i : Spelled(received', i) = Spelled(received, i)
    <3> TAKE i
    <3>1. EventPart(e, i) = <<>>
      BY <2>2 DEF EventPart
    <3>2. Spelled(received, i) \o <<>> = Spelled(received, i)
      BY <2>2
    <3> QED
      BY <2>2, <3>1, <3>2
  <2> QED
    BY <2>1, <2>3 DEF SpellInv
<1>3. ASSUME NEW s \in Events, EventError(s) PROVE SpellInv'
  <2>1. /\ phase = "collect" /\ UpstreamMay(s) /\ received' = Append(received, Arrived(s, TRUE))
        /\ UNCHANGED <<verdicts, calls>> /\ cause' = "guard"
    BY <1>3 DEF EventError, Fail, verdictVars
  <2>2. \A i \in DOMAIN verdicts : Spelled(received', i) = Spelled(received, i)
    BY <2>1, JudgedIsOver
  <2> QED
    BY <2>1, <2>2 DEF SpellInv
<1>4. CASE Judge
  <2>1. /\ phase = "judge" /\ UNCHANGED <<received, open, calls, cause>>
        /\ DOMAIN verdicts' = DOMAIN verdicts \cup {open}
    BY <1>4 DEF Judge, heldVars
  <2>2. cause = "none" /\ open # NoBlock
    BY <1>0, <2>1 DEF QueueInv, HeldInv, Terminal
  <2> QED
    BY <2>1, <2>2 DEF SpellInv
<1>5. CASE Stall \/ Build \/ Yield \/ EndRelease \/ EndFlush \/ UpstreamEnds \/ UpstreamError
           \/ GuardError \/ ClientGone \/ UNCHANGED vars
  <2>1. /\ UNCHANGED <<received, calls>> /\ UNCHANGED verdicts
        /\ open' = open \/ open' = NoBlock
        /\ cause' = "none" => cause = "none"
    BY <1>0, <1>5 DEF Stall, Build, Yield, EndRelease, EndFlush, UpstreamEnds, UpstreamError, GuardError,
       Fail, ClientGone, vars, heldVars, verdictVars, QueueInv, Terminal
  <2> QED
    BY <2>1 DEF SpellInv
<1> QED
  BY <1>1, <1>2, <1>3, <1>4, <1>5 DEF Next, GuardStep, Over

SpelledInv == AInv /\ BlockInv /\ SpellInv

LEMMA InitSpelledInv == Init => SpelledInv
<1> SUFFICES ASSUME Init PROVE SpelledInv
  OBVIOUS
<1>1. AInv
  BY InitAInv
<1>2. Started = 0 /\ Stops = 0
  <2>1. received = <<>>
    BY DEF Init
  <2>2. Of(received, {"stop"}) = {}
    BY <2>1 DEF Of
  <2> QED
    BY <2>1, <2>2, EmptyHasNoStart, FS_EmptySet DEF Started, Stops, Starts
<1>3. BlockInv /\ SpellInv
  BY <1>2 DEF Init, BlockInv, SpellInv
<1> QED
  BY <1>1, <1>3 DEF SpelledInv

(* The call as the upstream spelled it over the whole stream, wherever its *)
(* events straddle chunks: the client holds the start of a block only if   *)
(* that call matches no block rule, unless the guard failed open.          *)
THEOREM BlockedCallsStay == Spec => []NoBlockedCallDelivered
<1>1. Init => SpelledInv
  BY InitSpelledInv
<1>2. SpelledInv /\ [Next]_vars => SpelledInv'
  BY NextAInv, BlockStep, SpellStep DEF SpelledInv
<1>3. SpelledInv => NoBlockedCallDelivered
  <2> SUFFICES ASSUME SpelledInv, NEW i \in Passed, ~Opened
               PROVE  Evaluate(Spelled(received, i)) # "block"
    BY DEF NoBlockedCallDelivered
  <2>1. i \in DOMAIN verdicts /\ verdicts[i] # "block" /\ verdicts[i] = Evaluate(calls[i])
    BY DEF SpelledInv, AInv, Inv, ReleasedOnVerdict
  <2>2. calls[i] = Spelled(received, i)
    BY <2>1 DEF SpelledInv, SpellInv
  <2> QED
    BY <2>1, <2>2
<1> QED
  BY <1>1, <1>2, <1>3, PTL DEF Spec

(* What is held of the open block and came within it belongs to no earlier *)
(* block.                                                                  *)
Touching == {"text_start", "tool_start", "delta"}
WithinOpen(q) ==
  \A k \in 1..Len(q) : q[k].type \in Touching => open <= q[k].ix /\ q[k].ix < Started
RangeInv == WithinOpen(held) /\ (phase = "release" => WithinOpen(queue))

LEMMA ReplacementParts ==
  ASSUME TypeOK, open \in Indices
  PROVE  /\ Replacement(open) \in Seq(Event)
         /\ \A k \in 1..Len(Replacement(open)) : Replacement(open)[k].ix = open
         /\ Spelled(Replacement(open), open) = <<Echo>>
         /\ WholeAt(Replacement(open), {"tool_start"}, open) = {} <=> ~Rewrites
         /\ WholeAt(Replacement(open), {"text_start"}, open) = {} <=> Rewrites
<1> DEFINE a == Made(IF Rewrites THEN "tool_start" ELSE "text_start", open, NoArg)
           b == Made("delta", open, Echo)
           c == Made("stop", open, NoArg)
<1>1. a \in Event /\ b \in Event /\ c \in Event
  BY DEF Made, Event, Types, Reasons
<1>2. /\ a.ix = open /\ b.ix = open /\ c.ix = open /\ a.whole /\ b.whole /\ c.whole
      /\ a.type = (IF Rewrites THEN "tool_start" ELSE "text_start")
      /\ b.type = "delta" /\ c.type = "stop" /\ a.arg = NoArg /\ b.arg = Echo
  BY DEF Made
<1>3. Replacement(open) = <<a, b, c>>
  BY DEF Replacement
<1>4. EventPart(a, open) = <<>> /\ EventPart(b, open) = <<Echo>> /\ EventPart(c, open) = <<>>
  BY <1>2, MarkersAssumption DEF EventPart, Fragment
<1> HIDE DEF a, b, c
<1>5. Spelled(<<a, b, c>>, open) = <<Echo>>
  <2> DEFINE p == Append(<<>>, a)
             q == Append(p, b)
             r == Append(q, c)
  <2>1. Spelled(<<>>, open) = <<>> /\ <<>> \in Seq(Event)
    <3>1. WholeAt(<<>>, {"tool_start", "delta"}, open) = {}
      BY DEF WholeAt, Of
    <3>2. <<>> \in Seq(Event)
      OBVIOUS
    <3> QED
      BY <3>1, <3>2, SpelledNothing
  <2>2. p \in Seq(Event) /\ Spelled(p, open) = <<>>
    <3>1. <<>> \in Seq(Event) /\ a \in Event
      BY <1>1, <2>1
    <3> DEFINE z == <<>>
    <3> HIDE DEF z
    <3>2. /\ Append(z, a) \in Seq(Event)
          /\ Spelled(Append(z, a), open) = Spelled(z, open) \o EventPart(a, open)
      BY <3>1, SpelledAppend DEF z
    <3>3. <<>> \o <<>> = <<>>
      OBVIOUS
    <3> QED
      BY <1>4, <2>1, <3>2, <3>3 DEF z
  <2> HIDE DEF p
  <2>3. q \in Seq(Event) /\ Spelled(q, open) = <<Echo>>
    <3>1. q \in Seq(Event) /\ Spelled(q, open) = <<>> \o <<Echo>>
      BY <1>1, <1>4, <2>2, SpelledAppend
    <3> QED
      BY <3>1
  <2> HIDE DEF q
  <2>4. Spelled(r, open) = <<Echo>>
    <3>1. Spelled(r, open) = <<Echo>> \o <<>>
      BY <1>1, <1>4, <2>3, SpelledAppend
    <3> QED
      BY <3>1
  <2>5. r = <<a, b, c>>
    BY <1>1, ThreeAppended DEF p, q
  <2> QED
    BY <2>4, <2>5
<1>6. /\ WholeAt(<<a, b, c>>, {"tool_start"}, open) = {} <=> ~Rewrites
      /\ WholeAt(<<a, b, c>>, {"text_start"}, open) = {} <=> Rewrites
  <2>1. Len(<<a, b, c>>) = 3 /\ 1 \in 1..3
    OBVIOUS
  <2>2. <<a, b, c>>[1] = a /\ <<a, b, c>>[2] = b /\ <<a, b, c>>[3] = c
    OBVIOUS
  <2>3. \A k \in 1..3 : k = 1 \/ k = 2 \/ k = 3
    OBVIOUS
  <2> DEFINE r == <<a, b, c>>
  <2> HIDE DEF r
  <2>4. /\ WholeAt(r, {"tool_start"}, open) = {} <=> ~Rewrites
        /\ WholeAt(r, {"text_start"}, open) = {} <=> Rewrites
    BY <1>2, <2>1, <2>2, <2>3 DEF WholeAt, Of, r
  <2> QED
    BY <2>4 DEF r
<1>7. /\ <<a, b, c>> \in Seq(Event)
      /\ \A k \in 1..Len(<<a, b, c>>) : <<a, b, c>>[k].ix = open
  BY <1>1, <1>2
<1> QED
  BY <1>3, <1>5, <1>6, <1>7

LEMMA RangeStep ==
  ASSUME AInv, BlockInv, RangeInv, [Next]_vars
  PROVE  RangeInv'
<1>0. /\ TypeOK /\ HeldInv /\ IndexInv /\ QueueInv
      /\ held \in Seq(Event) /\ queue \in Seq(Event)
      /\ \A k \in 1..Len(held) : held[k].ix \in Nat
      /\ \A k \in 1..Len(queue) : queue[k].ix \in Nat
      /\ open # NoBlock => open \in Nat
      /\ open # NoBlock => open < Started
  <2>1. TypeOK
    BY DEF AInv, Inv
  <2>2. \A k \in 1..Len(queue) : queue[k] \in Event
    BY <2>1 DEF TypeOK
  <2> QED
    BY <2>1, <2>2, HeldTyped DEF AInv, Inv, TypeOK, Event, Indices, IndexInv
<1>1. ASSUME NEW s \in Events, Receive(s) \/ EventError(s) PROVE RangeInv'
  <2> DEFINE e == Arrived(s, TRUE)
  <2>1. /\ phase = "collect" /\ UpstreamMay(s) /\ received' = Append(received, e)
        /\ phase' # "release"
        /\ \/ open = NoBlock /\ open' = e.ix /\ held' = <<e>> /\ e.type = "tool_start"
           \/ open' = open /\ held' = held
           \/ open # NoBlock /\ open' = open /\ held' = Append(held, e)
    BY <1>1 DEF Receive, EventError, Fail
  <2>2. /\ e \in Event /\ e.ix \in Nat /\ Started \in Nat /\ Stops \in Nat
        /\ Started' = (IF e.type \in Starts THEN Started + 1 ELSE Started)
        /\ e.type \in Starts => e.ix = Started
        /\ e.type \in {"delta", "stop"} => e.ix = Started - 1
    BY <1>0, <2>1, Arrival
  <2> HIDE DEF e
  <2>3. \A k \in 1..Len(held) : held[k].type \in Touching => open <= held[k].ix /\ held[k].ix < Started'
    BY <1>0, <2>2 DEF RangeInv, WithinOpen
  <2>4. e.type \in Touching => e.ix < Started' /\ (open # NoBlock => open <= e.ix)
    BY <1>0, <2>2 DEF Touching, Starts
  <2>5. \A k \in 1..Len(held') : held'[k].type \in Touching => open' <= held'[k].ix /\ held'[k].ix < Started'
    <3>1. CASE open = NoBlock /\ open' = e.ix /\ held' = <<e>> /\ e.type = "tool_start"
      <4>1. \A k \in 1..Len(held') : held'[k] = e
        BY <3>1
      <4> QED
        BY <2>2, <2>4, <3>1, <4>1
    <3>2. CASE open' = open /\ held' = held
      BY <2>3, <3>2
    <3>3. CASE open # NoBlock /\ open' = open /\ held' = Append(held, e)
      <4>1. \A k \in 1..Len(Append(held, e)) :
              (k \in 1..Len(held) /\ Append(held, e)[k] = held[k]) \/ Append(held, e)[k] = e
        <5>1. held \in Seq(Event) /\ e \in Event
          BY <1>0, <2>2
        <5> QED
          BY <5>1
      <4> QED
        BY <2>3, <2>4, <3>3, <4>1
    <3> QED
      BY <2>1, <3>1, <3>2, <3>3
  <2> QED
    BY <2>1, <2>5 DEF RangeInv, WithinOpen
<1>2. ASSUME NEW s \in Events, Straddle(s) PROVE RangeInv'
  <2>1. /\ phase = "collect" /\ UpstreamMay(s) /\ received' = Append(received, Arrived(s, FALSE))
        /\ UNCHANGED <<phase, open, held>>
    BY <1>2 DEF Straddle, heldVars
  <2>2. Started \in Nat /\ Started' \in {Started, Started + 1}
    BY <1>0, <2>1, Arrival
  <2> QED
    BY <1>0, <2>1, <2>2 DEF RangeInv, WithinOpen
<1>3. CASE Build
  <2>1. /\ phase = "build" /\ UNCHANGED <<open, held, received>>
        /\ queue' = Replacement(open) \/ queue' = held
    BY <1>3 DEF Build
  <2>2. open \in Indices /\ open \in Nat /\ open < Started
    BY <1>0, <2>1 DEF HeldInv, TypeOK, Indices
  <2>3. \A k \in 1..Len(queue') : queue'[k].type \in Touching => open <= queue'[k].ix /\ queue'[k].ix < Started
    <3>1. \A k \in 1..Len(Replacement(open)) : Replacement(open)[k].ix = open
      BY <1>0, <2>2, ReplacementParts
    <3> QED
      BY <2>1, <2>2, <3>1 DEF RangeInv, WithinOpen
  <2> QED
    BY <2>1, <2>3, SameReceived DEF RangeInv, WithinOpen
<1>4. CASE Yield
  <2>1. queue' = Tail(queue) /\ queue # <<>> /\ UNCHANGED <<phase, open, held, received>>
    BY <1>4 DEF Yield, heldVars
  <2>2. \A k \in 1..Len(queue') : queue'[k] = queue[k + 1] /\ k + 1 \in 1..Len(queue)
    BY <1>0, <2>1
  <2> QED
    BY <2>1, <2>2, SameReceived DEF RangeInv, WithinOpen
<1>5. CASE EndRelease
  <2>1. held' = <<>> /\ phase' = "collect"
    BY <1>5 DEF EndRelease
  <2> QED
    BY <2>1 DEF RangeInv, WithinOpen
<1>6. CASE Stall \/ Judge \/ EndFlush \/ UpstreamEnds \/ UpstreamError \/ GuardError \/ ClientGone
           \/ UNCHANGED vars
  <2>1. UNCHANGED <<open, held, received>> /\ (phase' = "release" => phase = "release" /\ UNCHANGED queue)
    BY <1>6 DEF Stall, Judge, EndFlush, UpstreamEnds, UpstreamError, GuardError, Fail, ClientGone, vars,
       heldVars, Terminal
  <2> QED
    BY <2>1, SameReceived DEF RangeInv, WithinOpen
<1> QED
  BY <1>1, <1>2, <1>3, <1>4, <1>5, <1>6 DEF Next, GuardStep, Over

(* An event that does not touch a block leaves what the client holds of it.*)
LEMMA Untouched ==
  ASSUME NEW q \in Seq(Event), NEW e \in Event, NEW i, ~(e.type \in Touching /\ e.ix = i)
  PROVE  /\ Settled(q, i) => Settled(Append(q, e), i)
         /\ Touches(Append(q, e), i) <=> Touches(q, i)
         /\ Called(Append(q, e), i) <=> Called(q, i)
         /\ Spelled(Append(q, e), i) = Spelled(q, i)
         /\ WholeAt(Append(q, e), {"text_start"}, i) = {} <=> WholeAt(q, {"text_start"}, i) = {}
<1> DEFINE r == Append(q, e)
<1>1. Called(r, i) <=> Called(q, i)
  BY WholeAppend DEF Called, Touching
<1>2. WholeAt(r, {"text_start"}, i) = {} <=> WholeAt(q, {"text_start"}, i) = {}
  BY WholeAppend DEF Touching
<1>3. Spelled(r, i) = Spelled(q, i)
  <2>1. EventPart(e, i) = <<>>
    BY DEF EventPart, Touching
  <2>2. Spelled(r, i) = Spelled(q, i) \o EventPart(e, i) /\ Spelled(q, i) \in Seq(Pieces \cup {Echo})
    BY SpelledAppend
  <2> HIDE DEF r
  <2>3. Spelled(q, i) \o <<>> = Spelled(q, i)
    BY <2>2
  <2> QED
    BY <2>1, <2>2, <2>3
<1>4. Touches(r, i) <=> Touches(q, i)
  BY WholeAppend DEF Touches, Touching
<1> HIDE DEF r
<1>5. Settled(q, i) => Settled(r, i)
  BY <1>1, <1>2, <1>3 DEF Settled
<1> QED
  BY <1>1, <1>2, <1>3, <1>4, <1>5 DEF r

(* A stream that touches no block i, followed by one.                      *)
LEMMA FirstTouched ==
  ASSUME NEW q \in Seq(Event), NEW r \in Seq(Event), NEW i, ~Touches(q, i)
  PROVE  /\ Called(q \o r, i) <=> Called(r, i)
         /\ WholeAt(q \o r, {"text_start"}, i) = {} <=> WholeAt(r, {"text_start"}, i) = {}
         /\ Spelled(q \o r, i) = Spelled(r, i)
<1>1. /\ WholeAt(q, {"tool_start"}, i) = {} /\ WholeAt(q, {"text_start"}, i) = {}
      /\ WholeAt(q, {"tool_start", "delta"}, i) = {}
  BY DEF Touches, WholeAt, Of
<1>2. Spelled(q, i) = <<>>
  BY <1>1, SpelledNothing
<1>3. Spelled(q \o r, i) = Spelled(q, i) \o Spelled(r, i)
  BY SpelledConcat
<1>4. Spelled(r, i) \in Seq(Pieces \cup {Echo})
  BY SpelledParts
<1>5. <<>> \o Spelled(r, i) = Spelled(r, i)
  BY <1>4
<1>6. /\ Called(q \o r, i) <=> Called(r, i)
      /\ WholeAt(q \o r, {"text_start"}, i) = {} <=> WholeAt(r, {"text_start"}, i) = {}
  BY <1>1, WholeConcat DEF Called
<1> QED
  BY <1>2, <1>3, <1>5, <1>6

(* What is released of a block leaves it as its verdict says.              *)
LEMMA BuildSettles ==
  ASSUME AInv, SettledInv, Build, cause = "none"
  PROVE  Settled(out \o queue', open)
<1>1. /\ TypeOK /\ phase = "build" /\ open \in Indices /\ open # NoBlock
      /\ out \in Seq(Event) /\ held \in Seq(Event)
      /\ queue' = IF verdicts[open] = "block" THEN Replacement(open) ELSE held
  BY DEF AInv, Inv, TypeOK, HeldInv, Build
<1>2. /\ ~Touches(out, open)
      /\ Called(held, open) /\ WholeAt(held, {"text_start"}, open) = {}
      /\ Spelled(held, open) = calls[open]
  BY <1>1 DEF SettledInv
<1>3. CASE verdicts[open] = "block"
  <2> DEFINE r == Replacement(open)
  <2>1. /\ r \in Seq(Event) /\ Spelled(r, open) = <<Echo>>
        /\ WholeAt(r, {"tool_start"}, open) = {} <=> ~Rewrites
        /\ WholeAt(r, {"text_start"}, open) = {} <=> Rewrites
    BY <1>1, ReplacementParts
  <2> HIDE DEF r
  <2>2. /\ Called(out \o r, open) <=> Called(r, open)
        /\ WholeAt(out \o r, {"text_start"}, open) = {} <=> WholeAt(r, {"text_start"}, open) = {}
        /\ Spelled(out \o r, open) = Spelled(r, open)
    BY <1>1, <1>2, <2>1, FirstTouched
  <2>3. Called(r, open) <=> Rewrites
    BY <2>1 DEF Called
  <2>4. Settled(out \o r, open)
    BY <1>3, <2>1, <2>2, <2>3 DEF Settled
  <2> QED
    BY <1>1, <1>3, <2>4 DEF r
<1>4. CASE verdicts[open] # "block"
  <2>1. /\ Called(out \o held, open) <=> Called(held, open)
        /\ WholeAt(out \o held, {"text_start"}, open) = {} <=> WholeAt(held, {"text_start"}, open) = {}
        /\ Spelled(out \o held, open) = Spelled(held, open)
    BY <1>1, <1>2, FirstTouched
  <2>2. Settled(out \o held, open)
    BY <1>2, <1>4, <2>1 DEF Settled
  <2> QED
    BY <1>1, <1>4, <2>2
<1> QED
  BY <1>3, <1>4

(* An event that arrives is held, or it is out and touches no judged block.*)
LEMMA ReceiveSettled ==
  ASSUME AInv, BlockInv, RangeInv, SettledInv, NEW s \in Events, Receive(s)
  PROVE  SettledInv'
<1> DEFINE e == Arrived(s, TRUE)
<1>1. /\ TypeOK /\ HeldInv /\ IndexInv
      /\ phase = "collect" /\ UpstreamMay(s) /\ received' = Append(received, e)
      /\ UNCHANGED <<conf, verdicts>> /\ cause' = "none" /\ cause = "none"
      /\ phase' \in {"collect", "judge"}
  BY DEF AInv, Inv, QueueInv, Terminal, Receive, verdictVars
<1>2. /\ e \in Event /\ e.whole /\ e.type = s.type /\ e.ix = s.ix /\ e.ix \in Indices /\ e.ix \in Nat
      /\ Started \in Nat /\ Stops \in Nat
      /\ Started' = (IF e.type \in Starts THEN Started + 1 ELSE Started)
      /\ e.type \in Starts => e.ix = Started /\ Started = Stops
      /\ e.type \in {"delta", "stop"} => e.ix = Started - 1 /\ Started = Stops + 1
  BY <1>1, Arrival
<1>3. \A i \in DOMAIN verdicts : e.type \in Touching => e.ix # i
  BY <1>1, <1>2, JudgedIsOver DEF Touching
<1>4. /\ \A i \in DOMAIN verdicts : i # open => Settled(out, i)
      /\ \A i \in Indices \ DOMAIN verdicts : Called(received, i) => open # NoBlock /\ open <= i
      /\ \A k \in 1..Len(out) : out[k].type \in Touching => out[k].ix < Started
      /\ open # NoBlock =>
           /\ ~Touches(out, open)
           /\ Called(held, open) /\ WholeAt(held, {"text_start"}, open) = {}
           /\ Spelled(held, open) = calls[open]
  BY <1>1 DEF SettledInv, Touching
<1>5. /\ received \in Seq(Event) /\ out \in Seq(Event) /\ held \in Seq(Event)
      /\ calls \in [Indices -> Seq(Pieces)] /\ DOMAIN verdicts \subseteq Indices
      /\ Indices \subseteq Nat /\ NoBlock \notin DOMAIN verdicts
      /\ open \in Indices \cup {NoBlock}
  BY <1>1, MarkersAssumption DEF TypeOK, Indices
<1>6. \A k \in 1..Len(out) : out[k] \in Event /\ out[k].ix \in Nat
  <2>1. \A k \in 1..Len(out) : out[k] \in Event
    BY <1>5
  <2> QED
    BY <2>1 DEF Event, Indices
<1> HIDE DEF e
<1>7. \A i : Called(received', i) => Called(received, i) \/ (e.type = "tool_start" /\ e.ix = i)
  <2> TAKE i
  <2>0. received \in Seq(Event) /\ e \in Event
    BY <1>2, <1>5
  <2>1. WholeAt(Append(received, e), {"tool_start"}, i) = {} <=>
          WholeAt(received, {"tool_start"}, i) = {} /\ ~(e.whole /\ e.type \in {"tool_start"} /\ e.ix = i)
    BY <2>0, WholeAppend
  <2> QED
    BY <1>1, <2>1 DEF Called
<1>8. CASE open = NoBlock /\ e.type = "tool_start"
  <2>1. /\ open' = e.ix /\ held' = <<e>> /\ phase' = "collect"
        /\ calls' = [calls EXCEPT ![e.ix] = Fragment(e)] /\ UNCHANGED out
    BY <1>8 DEF Receive, e
  <2>2. e.type \in Starts /\ Started' = Started + 1 /\ e.ix = Started
    BY <1>2, <1>8 DEF Starts
  <2>3. ~Touches(out, e.ix)
    <3>1. \A k \in 1..Len(out) : ~(out[k].type \in Touching /\ out[k].ix = Started)
      BY <1>2, <1>4, <1>6
    <3> QED
      BY <2>2, <3>1 DEF Touches, WholeAt, Of, Touching
  <2>4. /\ Called(<<e>>, e.ix) /\ WholeAt(<<e>>, {"text_start"}, e.ix) = {}
        /\ Spelled(<<e>>, e.ix) = Fragment(e)
    <3> DEFINE z == <<>>
               r == Append(z, e)
    <3>1. z \in Seq(Event) /\ WholeAt(z, {"text_start"}, e.ix) = {} /\ WholeAt(z, {"tool_start", "delta"}, e.ix) = {}
      BY DEF WholeAt, Of
    <3> HIDE DEF z
    <3>2. Spelled(z, e.ix) = <<>>
      BY <3>1, SpelledNothing
    <3>3. /\ Spelled(r, e.ix) = Spelled(z, e.ix) \o EventPart(e, e.ix)
          /\ Spelled(r, e.ix) \in Seq(Pieces \cup {Echo})
      BY <1>2, <3>1, SpelledAppend, SpelledParts
    <3>4. EventPart(e, e.ix) = Fragment(e)
      BY <1>2, <1>8 DEF EventPart
    <3>5. EventPart(e, e.ix) \in Seq(Pieces \cup {Echo})
      BY <1>2, EventPartTyped
    <3>6. Called(r, e.ix) /\ WholeAt(r, {"text_start"}, e.ix) = {}
      BY <1>2, <1>8, <3>1, WholeAppend DEF Called
    <3>7. Spelled(r, e.ix) = Fragment(e)
      <4>1. <<>> \o EventPart(e, e.ix) = EventPart(e, e.ix)
        BY <3>5
      <4> QED
        BY <3>2, <3>3, <3>4, <4>1
    <3>8. r = <<e>>
      BY DEF z
    <3> HIDE DEF r
    <3> QED
      BY <3>6, <3>7, <3>8
  <2>5. calls'[open'] = Fragment(e)
    BY <1>2, <1>5, <2>1
  <2>6. \A i \in DOMAIN verdicts : Settled(out, i)'
    <3> TAKE i \in DOMAIN verdicts
    <3>1. i # open /\ calls'[i] = calls[i]
      BY <1>3, <1>5, <1>8, <2>1 DEF Touching
    <3>2. Settled(out, i)
      BY <1>4, <3>1
    <3> QED
      BY <1>1, <2>1, <3>1, <3>2 DEF Settled, Rewrites
  <2>7. \A i \in Indices \ DOMAIN verdicts : Called(received', i) => open' # NoBlock /\ open' <= i
    BY <1>2, <1>4, <1>5, <1>7, <1>8, <2>1, MarkersAssumption
  <2>8. \A k \in 1..Len(out) : out[k].type \in Touching => out[k].ix < Started'
    BY <1>2, <1>4, <1>6, <2>2
  <2> QED
    BY <1>1, <2>1, <2>3, <2>4, <2>5, <2>6, <2>7, <2>8 DEF SettledInv, Touching
<1>9. CASE open = NoBlock /\ e.type # "tool_start"
  <2> DEFINE f == EndTurn(e)
  <2>1. out' = Append(out, f) /\ UNCHANGED <<phase, open, held, calls>>
    BY <1>9 DEF Receive, e
  <2>2. f \in Event /\ f.type = e.type /\ f.ix = e.ix
    BY <1>2 DEF EndTurn, Event, Reasons
  <2> HIDE DEF f
  <2>3. \A i \in DOMAIN verdicts : Settled(out, i)'
    <3> TAKE i \in DOMAIN verdicts
    <3>1. Settled(out, i) /\ ~(f.type \in Touching /\ f.ix = i)
      BY <1>3, <1>4, <1>5, <1>9, <2>2
    <3>2. Settled(Append(out, f), i)
      BY <1>5, <2>2, <3>1, Untouched
    <3> QED
      BY <1>1, <2>1, <3>2 DEF Settled, Rewrites
  <2>4. \A i \in Indices \ DOMAIN verdicts : ~Called(received', i)
    BY <1>4, <1>7, <1>9
  <2>5. \A k \in 1..Len(out') : out'[k].type \in Touching => out'[k].ix < Started'
    <3>1. \A k \in 1..Len(Append(out, f)) :
            (k \in 1..Len(out) /\ Append(out, f)[k] = out[k]) \/ Append(out, f)[k] = f
      BY <1>5, <2>2
    <3>2. f.type \in Touching => f.ix < Started'
      BY <1>2, <2>2 DEF Touching, Starts
    <3>3. \A k \in 1..Len(out) : out[k].type \in Touching => out[k].ix < Started'
      BY <1>2, <1>4, <1>6
    <3> QED
      BY <2>1, <3>1, <3>2, <3>3
  <2> QED
    BY <1>1, <1>9, <2>1, <2>3, <2>4, <2>5 DEF SettledInv, Touching
<1>10. CASE open # NoBlock
  <2>1. /\ held' = Append(held, e) /\ UNCHANGED <<open, out>>
        /\ calls' = IF Own(e) THEN [calls EXCEPT ![open] = calls[open] \o Fragment(e)] ELSE calls
    BY <1>10 DEF Receive, e
  <2>2. open \in Indices /\ open \in Nat /\ open < Started /\ open \notin DOMAIN verdicts
    BY <1>1, <1>5, <1>10 DEF IndexInv, HeldInv
  <2>3. ~(e.type \in Starts /\ e.ix = open)
    BY <1>2, <2>2
  <2>4. /\ Called(Append(held, e), open)
        /\ WholeAt(Append(held, e), {"text_start"}, open) = {}
    <3>1. Called(held, open) /\ WholeAt(held, {"text_start"}, open) = {}
      BY <1>4, <1>10
    <3>2. /\ WholeAt(Append(held, e), {"tool_start"}, open) = {} <=>
               WholeAt(held, {"tool_start"}, open) = {} /\ ~(e.whole /\ e.type \in {"tool_start"} /\ e.ix = open)
          /\ WholeAt(Append(held, e), {"text_start"}, open) = {} <=>
               WholeAt(held, {"text_start"}, open) = {} /\ ~(e.whole /\ e.type \in {"text_start"} /\ e.ix = open)
      <4>1. held \in Seq(Event) /\ e \in Event
        BY <1>2, <1>5
      <4> QED
        BY <4>1, WholeAppend
    <3> QED
      BY <2>3, <3>1, <3>2 DEF Called, Starts
  <2>5. Spelled(Append(held, e), open) = calls'[open]
    <3>1. /\ Spelled(Append(held, e), open) = Spelled(held, open) \o EventPart(e, open)
          /\ Spelled(held, open) = calls[open]
      BY <1>2, <1>4, <1>5, <1>10, SpelledAppend
    <3>2. CASE Own(e)
      <4>1. EventPart(e, open) = Fragment(e)
        BY <1>2, <3>2 DEF Own, EventPart
      <4>2. calls'[open] = calls[open] \o Fragment(e)
        BY <1>5, <2>1, <2>2, <3>2
      <4> QED
        BY <3>1, <4>1, <4>2
    <3>3. CASE ~Own(e)
      <4>1. EventPart(e, open) = <<>>
        BY <2>3, <3>3 DEF Own, EventPart, Starts
      <4>2. calls[open] \o <<>> = calls[open]
        BY <1>5, <2>2
      <4> QED
        BY <2>1, <3>1, <3>3, <4>1, <4>2
    <3> QED
      BY <3>2, <3>3
  <2>6. \A i \in DOMAIN verdicts : Settled(out, i)'
    <3> TAKE i \in DOMAIN verdicts
    <3>1. i # open /\ calls'[i] = calls[i]
      BY <1>5, <2>1, <2>2
    <3>2. Settled(out, i)
      BY <1>4, <3>1
    <3> QED
      BY <1>1, <2>1, <3>1, <3>2 DEF Settled, Rewrites
  <2>7. \A i \in Indices \ DOMAIN verdicts : Called(received', i) => open' # NoBlock /\ open' <= i
    BY <1>2, <1>4, <1>5, <1>7, <1>10, <2>1, <2>2 DEF Starts
  <2>8. \A k \in 1..Len(out) : out[k].type \in Touching => out[k].ix < Started'
    BY <1>2, <1>4, <1>6
  <2>9. ~Touches(out, open)
    BY <1>4, <1>10
  <2> QED
    BY <1>1, <2>1, <2>4, <2>5, <2>6, <2>7, <2>8, <2>9 DEF SettledInv, Touching
<1> QED
  BY <1>8, <1>9, <1>10

(* A straddled event and a ping spell nothing; a yield moves one event of  *)
(* the open block from the queue to the client.                            *)
LEMMA StraddleSettled ==
  ASSUME AInv, BlockInv, SettledInv, NEW s \in Events, Straddle(s)
  PROVE  SettledInv'
<1> DEFINE e == Arrived(s, FALSE)
<1>1. /\ TypeOK /\ phase = "collect" /\ phase' = "collect"
      /\ UpstreamMay(s) /\ received' = Append(received, e) /\ out' = Append(out, e)
      /\ UNCHANGED <<conf, verdicts, cause, open, held, calls>>
      /\ cause = "none"
  BY DEF AInv, Inv, QueueInv, Terminal, Straddle, verdictVars, heldVars
<1>2. /\ e \in Event /\ ~e.whole /\ e.ix \in Nat /\ Started \in Nat
      /\ Started' = (IF e.type \in Starts THEN Started + 1 ELSE Started)
      /\ e.type \in Starts => e.ix = Started
      /\ e.type \in {"delta", "stop"} => e.ix = Started - 1
  BY <1>1, Arrival
<1>3. received \in Seq(Event) /\ out \in Seq(Event)
  BY <1>1 DEF TypeOK
<1>4. \A k \in 1..Len(out) : out[k].ix \in Nat
  <2>1. \A k \in 1..Len(out) : out[k] \in Event
    BY <1>3
  <2> QED
    BY <2>1 DEF Event, Indices
<1> HIDE DEF e
<1>5. \A i : /\ Called(received', i) <=> Called(received, i)
             /\ Settled(out, i) => Settled(out, i)'
             /\ Touches(out', i) <=> Touches(out, i)
  <2> TAKE i
  <2>1. /\ Called(Append(received, e), i) <=> Called(received, i)
        /\ Called(Append(out, e), i) <=> Called(out, i)
        /\ Touches(Append(out, e), i) <=> Touches(out, i)
        /\ WholeAt(Append(out, e), {"text_start"}, i) = {} <=> WholeAt(out, {"text_start"}, i) = {}
    BY <1>2, <1>3, WholeAppend DEF Called, Touches
  <2>2. Spelled(Append(out, e), i) = Spelled(out, i)
    <3>1. EventPart(e, i) = <<>>
      BY <1>2 DEF EventPart
    <3>2. Spelled(Append(out, e), i) = Spelled(out, i) \o EventPart(e, i) /\ Spelled(out, i) \in Seq(Pieces \cup {Echo})
      BY <1>2, <1>3, SpelledAppend
    <3>3. Spelled(out, i) \o <<>> = Spelled(out, i)
      BY <3>2
    <3> QED
      BY <3>1, <3>2, <3>3
  <2>3. Settled(out, i) => Settled(out, i)'
    BY <1>1, <2>1, <2>2 DEF Settled, Rewrites
  <2> QED
    BY <1>1, <2>1, <2>3
<1>6. \A k \in 1..Len(out') : out'[k].type \in Touching => out'[k].ix < Started'
  <2>1. \A k \in 1..Len(Append(out, e)) :
          (k \in 1..Len(out) /\ Append(out, e)[k] = out[k]) \/ Append(out, e)[k] = e
    BY <1>2, <1>3
  <2>2. e.type \in Touching => e.ix < Started'
    BY <1>2 DEF Touching, Starts
  <2>3. \A k \in 1..Len(out) : out[k].type \in Touching => out[k].ix < Started'
    BY <1>1, <1>2, <1>4 DEF SettledInv, Touching
  <2> QED
    BY <1>1, <2>1, <2>2, <2>3
<1> QED
  BY <1>1, <1>5, <1>6 DEF SettledInv, Touching

LEMMA StallSettled ==
  ASSUME AInv, SettledInv, Stall
  PROVE  SettledInv'
<1>1. /\ TypeOK /\ phase = "collect" /\ out' = Append(out, Ping)
      /\ UNCHANGED <<conf, phase, verdicts, cause, open, held, calls, received>>
  BY DEF AInv, Inv, Stall, verdictVars, heldVars
<1>2. Ping \in Event /\ Ping.type = "ping"
  BY BoundsAssumption DEF Ping, Made, Event, Types, Indices, Reasons
<1>3. out \in Seq(Event) /\ Ping.type \notin Touching
  BY <1>1, <1>2 DEF TypeOK, Touching
<1>4. \A i : /\ Settled(out, i) => Settled(out, i)'
             /\ Touches(out', i) <=> Touches(out, i)
  <2> TAKE i
  <2>1. /\ Settled(out, i) => Settled(Append(out, Ping), i)
        /\ Touches(Append(out, Ping), i) <=> Touches(out, i)
    BY <1>2, <1>3, Untouched
  <2> QED
    BY <1>1, <2>1 DEF Settled, Rewrites
<1>5. \A k \in 1..Len(out') :
        (k \in 1..Len(out) /\ out'[k] = out[k]) \/ out'[k] = Ping
  BY <1>1, <1>2, <1>3
<1> QED
  BY <1>1, <1>3, <1>4, <1>5, SameReceived DEF SettledInv, Touching

LEMMA YieldSettled ==
  ASSUME AInv, BlockInv, RangeInv, SettledInv, Yield
  PROVE  SettledInv'
<1> DEFINE e == Head(queue)
<1>1. /\ TypeOK /\ phase \in {"release", "flush"} /\ queue # <<>>
      /\ out' = Append(out, e) /\ queue' = Tail(queue)
      /\ UNCHANGED <<conf, phase, verdicts, cause, open, held, calls, received>>
  BY DEF AInv, Inv, Yield, verdictVars, heldVars
<1>2. SUFFICES ASSUME cause = "none" PROVE SettledInv'
  BY <1>1 DEF SettledInv
<1>3. phase = "release" /\ open \in Indices /\ open \in Nat /\ open # NoBlock
  BY <1>1, <1>2 DEF AInv, QueueInv, Opened, Inv, HeldInv, TypeOK, Indices
<1>4. out \in Seq(Event) /\ queue \in Seq(Event) /\ e \in Event /\ e = queue[1] /\ 1 \in 1..Len(queue)
  BY <1>1 DEF TypeOK
<1>5. e.type \in Touching => open <= e.ix /\ e.ix < Started
  BY <1>3, <1>4 DEF RangeInv, WithinOpen
<1>6. out' \o queue' = out \o queue
  <2>1. queue = <<Head(queue)>> \o Tail(queue)
    BY <1>1, <1>4
  <2>2. Append(out, e) \o Tail(queue) = out \o queue
    BY <1>1, <1>4
  <2> QED
    BY <1>1, <2>2
<1>7. /\ Settled(out \o queue, open)
      /\ \A i \in DOMAIN verdicts : i # open => Settled(out, i)
      /\ \A k \in 1..Len(out) : out[k].type \in Touching => out[k].ix < Started
      /\ \A i \in Indices \ DOMAIN verdicts : Called(received, i) => open # NoBlock /\ open <= i
  BY <1>2, <1>3 DEF SettledInv, Touching
<1> HIDE DEF e
<1>8. \A i \in DOMAIN verdicts : i # open => Settled(out, i)'
  <2> SUFFICES ASSUME NEW i \in DOMAIN verdicts, i # open PROVE Settled(out, i)'
    OBVIOUS
  <2>1. i < open
    <3>1. i \in Nat /\ i < Stops /\ Stops <= Started /\ Started = open + 1
      BY <1>1, <1>3 DEF BlockInv, TypeOK, Indices
    <3>2. Stops \in Nat
      BY <1>1, CountIsNat DEF Stops, TypeOK
    <3> QED
      BY <1>3, <3>1, <3>2
  <2>2. ~(e.type \in Touching /\ e.ix = i)
    <3>1. i \in Nat /\ e.ix \in Nat
      BY <1>1, <1>4 DEF TypeOK, Indices, Event
    <3> QED
      BY <1>3, <1>5, <2>1, <3>1
  <2>3. Settled(Append(out, e), i)
    BY <1>4, <1>7, <2>2, Untouched
  <2> QED
    BY <1>1, <2>3 DEF Settled, Rewrites
<1>9. \A k \in 1..Len(out') : out'[k].type \in Touching => out'[k].ix < Started
  <2>1. \A k \in 1..Len(Append(out, e)) :
          (k \in 1..Len(out) /\ Append(out, e)[k] = out[k]) \/ Append(out, e)[k] = e
    BY <1>4
  <2> QED
    BY <1>1, <1>5, <1>7, <2>1
<1>10. Settled(out \o queue, open)'
  BY <1>1, <1>6, <1>7 DEF Settled, Rewrites
<1> QED
  BY <1>1, <1>3, <1>7, <1>8, <1>9, <1>10, SameReceived DEF SettledInv, Touching

LEMMA SettledStep ==
  ASSUME AInv, BlockInv, RangeInv, SettledInv, [Next]_vars
  PROVE  SettledInv'
<1>0. /\ TypeOK /\ HeldInv /\ QueueInv /\ Indices \subseteq Nat /\ DOMAIN verdicts \subseteq Indices
      /\ NoBlock \notin DOMAIN verdicts
  BY MarkersAssumption DEF AInv, Inv, TypeOK, Indices
<1>1. CASE Judge
  <2>1. /\ phase = "judge" /\ phase' = "build" /\ UNCHANGED <<conf, cause, open, held, calls, received, out>>
        /\ DOMAIN verdicts' = DOMAIN verdicts \cup {open}
        /\ \A i \in DOMAIN verdicts : i # open => verdicts'[i] = verdicts[i]
    BY <1>1 DEF Judge, heldVars
  <2>2. \A i : i \in DOMAIN verdicts' /\ i # open => (Settled(out, i) => Settled(out, i)')
    BY <2>1 DEF Settled, Rewrites
  <2> QED
    BY <2>1, <2>2, SameReceived DEF SettledInv
<1>2. CASE Build
  <2>1. /\ phase = "build" /\ phase' = "release"
        /\ UNCHANGED <<conf, cause, open, calls, received, out, verdicts>>
    BY <1>2 DEF Build, verdictVars
  <2>2. cause = "none"
    BY <1>0, <2>1 DEF QueueInv, Terminal
  <2>3. Settled(out \o queue, open)'
    <3>1. Settled(out \o queue', open)
      BY <1>2, <2>2, BuildSettles
    <3> QED
      BY <2>1, <3>1 DEF Settled, Rewrites
  <2>4. \A i \in DOMAIN verdicts : i # open => Settled(out, i)'
    BY <2>1, <2>2 DEF SettledInv, Settled, Rewrites
  <2> QED
    BY <2>1, <2>2, <2>3, <2>4, SameReceived DEF SettledInv
<1>3. CASE EndRelease
  <2>1. /\ phase = "release" /\ phase' = "collect" /\ open' = NoBlock /\ queue = <<>>
        /\ UNCHANGED <<conf, cause, calls, received, out, verdicts>>
    BY <1>3 DEF EndRelease, verdictVars
  <2>2. cause = "none" /\ open \in DOMAIN verdicts /\ open \in Nat
    BY <1>0, <2>1 DEF QueueInv, Terminal, HeldInv
  <2>3. \A i \in DOMAIN verdicts : Settled(out, i)'
    <3> TAKE i \in DOMAIN verdicts
    <3>1. out \o queue = out
      BY <1>0, <2>1 DEF TypeOK
    <3>2. Settled(out, i)
      BY <2>1, <2>2, <3>1 DEF SettledInv
    <3> QED
      BY <2>1, <3>2 DEF Settled, Rewrites
  <2>4. \A i \in Indices \ DOMAIN verdicts : ~Called(received, i)
    <3> SUFFICES ASSUME NEW i \in Indices \ DOMAIN verdicts, Called(received, i) PROVE FALSE
      OBVIOUS
    <3>1. open <= i /\ Started = open + 1
      BY <2>1, <2>2 DEF SettledInv, BlockInv
    <3>2. i < Started
      <4>1. PICK k \in 1..Len(received) : received[k].type = "tool_start" /\ received[k].ix = i
        BY DEF Called, WholeAt, Of
      <4> QED
        BY <4>1 DEF BlockInv
    <3>3. i = open
      BY <1>0, <2>2, <3>1, <3>2
    <3> QED
      BY <2>2, <3>3
  <2> QED
    BY <2>1, <2>2, <2>3, <2>4, SameReceived DEF SettledInv
<1>4. CASE UpstreamEnds
  <2>1. /\ phase = "collect" /\ phase' = "flush" /\ cause' = IF held # <<>> THEN "cut" ELSE "none"
        /\ UNCHANGED <<conf, open, held, calls, received, out, verdicts>>
    BY <1>4 DEF UpstreamEnds, heldVars, verdictVars
  <2>2. SUFFICES ASSUME cause' = "none" PROVE SettledInv'
    BY DEF SettledInv
  <2>3. open = NoBlock /\ cause = "none"
    BY <1>0, <2>1, <2>2 DEF HeldInv, QueueInv, Terminal
  <2>4. \A i \in DOMAIN verdicts : Settled(out, i)'
    BY <1>0, <2>1, <2>3 DEF SettledInv, Settled, Rewrites
  <2> QED
    BY <2>1, <2>3, <2>4, SameReceived DEF SettledInv
<1>5. CASE EndFlush
  <2>1. /\ phase = "flush" /\ phase' = "done"
        /\ UNCHANGED <<conf, cause, open, held, calls, received, out, verdicts>>
    BY <1>5 DEF EndFlush, heldVars, verdictVars
  <2>2. \A i : Settled(out, i) => Settled(out, i)'
    BY <2>1 DEF Settled, Rewrites
  <2> QED
    BY <2>1, <2>2, SameReceived DEF SettledInv
<1>6. CASE UNCHANGED vars
  <2>1. UNCHANGED <<phase, conf, cause, open, held, queue, calls, received, out, verdicts>>
    BY <1>6 DEF vars, heldVars, verdictVars
  <2>2. /\ \A i : Settled(out, i) => Settled(out, i)'
        /\ Settled(out \o queue, open) => Settled(out \o queue, open)'
    BY <2>1 DEF Settled, Rewrites
  <2> QED
    BY <2>1, <2>2, SameReceived DEF SettledInv
<1>7. CASE ClientGone
  BY <1>7 DEF ClientGone, SettledInv
<1>8. CASE GuardError \/ UpstreamError \/ \E s \in Events : EventError(s)
  <2>1. cause' # "none"
    BY <1>8 DEF GuardError, UpstreamError, EventError, Fail
  <2> QED
    BY <2>1 DEF SettledInv
<1> QED
  BY <1>1, <1>2, <1>3, <1>4, <1>5, <1>6, <1>7, <1>8,
     ReceiveSettled, StraddleSettled, StallSettled, YieldSettled DEF Next, GuardStep, Over

LEMMA InitSettled == Init => SpelledInv /\ RangeInv /\ SettledInv
<1> SUFFICES ASSUME Init PROVE SpelledInv /\ RangeInv /\ SettledInv
  OBVIOUS
<1>1. SpelledInv
  BY InitSpelledInv
<1>2. RangeInv
  BY DEF Init, RangeInv, WithinOpen
<1>3. SettledInv
  <2>1. \A i : ~Called(received, i)
    BY DEF Init, Called, WholeAt, Of
  <2> QED
    BY <2>1 DEF Init, SettledInv
<1> QED
  BY <1>1, <1>2, <1>3

(* When the reply went through, the client holds every call that came to   *)
(* it whole as the verdict on it says: complete, as one whole replacement, *)
(* or as a note in its place.                                              *)
THEOREM ClientHoldsVerdicts == Spec => []ClientAssemblesVerdict
<1> DEFINE I == SpelledInv /\ RangeInv /\ SettledInv
<1>1. Init => I
  BY InitSettled
<1>2. I /\ [Next]_vars => I'
  BY NextAInv, BlockStep, SpellStep, RangeStep, SettledStep DEF SpelledInv
<1>3. I => ClientAssemblesVerdict
  <2> SUFFICES ASSUME SpelledInv, SettledInv, Delivered, NEW i \in Indices, Called(received, i)
               PROVE  LET args    == Spelled(received, i)
                          blocked == Evaluate(args) = "block"
                      IN  /\ Called(out, i) <=> (~blocked \/ Rewrites)
                          /\ WholeAt(out, {"text_start"}, i) = {} <=> Called(out, i)
                          /\ Spelled(out, i) = IF blocked THEN <<Echo>> ELSE args
    BY DEF ClientAssemblesVerdict
  <2>1. phase = "done" /\ cause = "none" /\ open = NoBlock
    BY DEF Delivered, SettledInv
  <2>2. i \in DOMAIN verdicts /\ i # NoBlock
    BY <2>1, MarkersAssumption DEF SettledInv, Indices
  <2>3. Settled(out, i)
    BY <2>1, <2>2 DEF SettledInv
  <2>4. calls[i] = Spelled(received, i) /\ verdicts[i] = Evaluate(calls[i])
    BY <2>2 DEF SpelledInv, SpellInv, AInv, Inv, ReleasedOnVerdict
  <2> QED
    BY <2>3, <2>4 DEF Settled
<1> QED
  BY <1>1, <1>2, <1>3, PTL DEF Spec
-----------------------------------------------------------------------------
(***************************************************************************)
(* The stop reason, when no event straddles two chunks.                    *)
(***************************************************************************)

(* A block that is held is the one the upstream is in, or has just left.   *)
(* Once the message_delta is in, nothing is held and nothing waits.        *)
Ended == Of(received, {"message_delta"}) # {}
QuietQueue == phase \in {"collect", "judge", "build"} => queue = <<>>
OpenIsLast ==
  Intact /\ cause = "none" /\ open # NoBlock =>
    Started = open + 1 /\ (phase = "collect" => Stops = open)
EndedInv ==
  Intact =>
    /\ Of(held, {"message_delta"}) = {} /\ Of(queue, {"message_delta"}) = {}
    /\ Ended => open = NoBlock /\ queue = <<>>

(* What kept and stripped say of the client's blocks, while the guard has  *)
(* not failed and from the message_delta on.                               *)
Note(e) == e.n = 0 /\ e.whole /\ e.type = "text_start" /\ e.ix \in Indices
KeptInv ==
  Intact /\ (cause = "none" \/ Ended) =>
    /\ Of(out, {"tool_start"}) # {} \/ Of(queue, {"tool_start"}) # {} <=> kept
    /\ stripped => Replaced # {} \/ \E k \in 1..Len(queue) : Note(queue[k])
    /\ Replaced # {} => stripped \/ kept
    /\ \A k \in 1..Len(queue) : queue[k].n = 0 /\ queue[k].type \in Starts => stripped \/ kept

(* The message_delta the client has is the upstream's, or end_turn.        *)
ReasonInv ==
  Intact => \A k \in Of(out, {"message_delta"}) :
    /\ out[k].n \in 1..Len(received) /\ received[out[k].n].type = "message_delta"
    /\ out[k].reason = IF stripped /\ ~kept THEN "end_turn" ELSE received[out[k].n].reason

StopInv == QuietQueue /\ OpenIsLast /\ EndedInv /\ KeptInv /\ ReasonInv

LEMMA OfAppend ==
  ASSUME NEW q \in Seq(Event), NEW e \in Event, NEW types
  PROVE  Of(Append(q, e), types) = {} <=> Of(q, types) = {} /\ e.type \notin types
<1> DEFINE r == Append(q, e)
<1>1. /\ Len(q) \in Nat /\ Len(r) \in 1..Len(r) /\ r[Len(r)] = e
      /\ \A k \in 1..Len(q) : k \in 1..Len(r) /\ r[k] = q[k]
      /\ \A k \in 1..Len(r) : (k \in 1..Len(q) /\ r[k] = q[k]) \/ r[k] = e
  OBVIOUS
<1> HIDE DEF r
<1>2. Of(r, types) = {} <=> Of(q, types) = {} /\ e.type \notin types
  BY <1>1 DEF Of
<1> QED
  BY <1>2 DEF r

LEMMA OfTail ==
  ASSUME NEW q \in Seq(Event), q # <<>>, NEW types
  PROVE  Of(q, types) = {} <=> Of(Tail(q), types) = {} /\ Head(q).type \notin types
<1> DEFINE r == Tail(q)
<1>1. /\ Head(q) = q[1] /\ 1 \in 1..Len(q) /\ Len(r) = Len(q) - 1 /\ Len(q) \in Nat
      /\ \A k \in 1..Len(r) : r[k] = q[k + 1] /\ k + 1 \in 1..Len(q)
  OBVIOUS
<1> HIDE DEF r
<1>2. \A k \in 1..Len(q) : k = 1 \/ (k - 1 \in 1..Len(r) /\ q[k] = r[k - 1])
  BY <1>1
<1>3. \A k \in Of(q, types) : k = 1 \/ k - 1 \in Of(r, types)
  BY <1>2 DEF Of
<1>4. \A k \in Of(r, types) : k + 1 \in Of(q, types)
  BY <1>1 DEF Of
<1>5. 1 \in Of(q, types) <=> Head(q).type \in types
  BY <1>1 DEF Of
<1>6. Of(q, types) = {} <=> Of(r, types) = {} /\ Head(q).type \notin types
  BY <1>3, <1>4, <1>5
<1> QED
  BY <1>6 DEF r

(* One more event, and whether every event came whole.                     *)
LEMMA IntactGrows ==
  ASSUME TypeOK, NEW e \in Event, received' = Append(received, e)
  PROVE  /\ Intact' <=> Intact /\ e.whole
         /\ Ended' <=> Ended \/ e.type = "message_delta"
         /\ Len(received') = Len(received) + 1 /\ received'[Len(received) + 1] = e
         /\ \A k \in 1..Len(received) : k \in 1..Len(received') /\ received'[k] = received[k]
<1>1. received \in Seq(Event) /\ e \in Event
  BY DEF TypeOK
<1>2. /\ Len(received') = Len(received) + 1 /\ received'[Len(received) + 1] = e
      /\ Len(received) \in Nat
      /\ \A k \in 1..Len(received) : k \in 1..Len(received') /\ received'[k] = received[k]
  <2>1. /\ Len(Append(received, e)) = Len(received) + 1 /\ Append(received, e)[Len(received) + 1] = e
        /\ Len(received) \in Nat
        /\ \A k \in 1..Len(received) :
             k \in 1..Len(Append(received, e)) /\ Append(received, e)[k] = received[k]
    BY <1>1
  <2> QED
    BY <2>1
<1>3. Intact' <=> Intact /\ e.whole
  <2>1. Len(received) + 1 \in 1..Len(received')
    BY <1>2
  <2>2. \A k \in 1..Len(received') : k \in 1..Len(received) \/ k = Len(received) + 1
    BY <1>2
  <2> QED
    BY <1>2, <2>1, <2>2 DEF Intact
<1>4. Ended' <=> Ended \/ e.type = "message_delta"
  BY <1>1, OfAppend DEF Ended
<1> QED
  BY <1>2, <1>3, <1>4

LEMMA SameIntact ==
  ASSUME UNCHANGED received
  PROVE  UNCHANGED <<Intact, Ended, Started, Stops>>
BY SameReceived DEF Intact, Ended, Stops, Of

LEMMA NothingOf == \A types : Of(<<>>, types) = {}
BY DEF Of

LEMMA ReplacementEvents ==
  ASSUME TypeOK, open \in Indices
  PROVE  /\ Of(Replacement(open), {"message_delta"}) = {}
         /\ Of(Replacement(open), {"tool_start"}) # {} <=> Rewrites
         /\ ~Rewrites => \E k \in 1..Len(Replacement(open)) : Note(Replacement(open)[k])
<1> DEFINE a == Made(IF Rewrites THEN "tool_start" ELSE "text_start", open, NoArg)
           b == Made("delta", open, Echo)
           c == Made("stop", open, NoArg)
           r == <<a, b, c>>
<1>1. /\ a.type = (IF Rewrites THEN "tool_start" ELSE "text_start") /\ a.ix = open /\ a.n = 0 /\ a.whole
      /\ b.type = "delta" /\ c.type = "stop"
  BY DEF Made
<1>2. r[1] = a /\ r[2] = b /\ r[3] = c /\ Len(r) = 3
  OBVIOUS
<1>3. Replacement(open) = r
  BY DEF Replacement
<1> HIDE DEF a, b, c, r
<1>4. \A k \in 1..3 : k = 1 \/ k = 2 \/ k = 3
  OBVIOUS
<1>5. 1 \in 1..3
  OBVIOUS
<1>6. /\ Of(r, {"message_delta"}) = {}
      /\ Of(r, {"tool_start"}) # {} <=> Rewrites
      /\ ~Rewrites => \E k \in 1..Len(r) : Note(r[k])
  BY <1>1, <1>2, <1>4, <1>5 DEF Of, Note
<1> QED
  BY <1>3, <1>6

LEMMA ReceiveStop ==
  ASSUME AInv, BlockInv, StopInv, NEW s \in Events, Receive(s)
  PROVE  StopInv'
<1> DEFINE e == Arrived(s, TRUE)
<1>1. /\ TypeOK /\ HeldInv /\ IndexInv
      /\ phase = "collect" /\ UpstreamMay(s) /\ received' = Append(received, e)
      /\ UNCHANGED <<conf, cause, kept, stripped, queue>> /\ cause = "none"
      /\ phase' \in {"collect", "judge"} /\ queue = <<>>
  BY DEF AInv, Inv, QueueInv, Terminal, Receive, verdictVars, StopInv, QuietQueue
<1>2. /\ e \in Event /\ e.whole /\ e.n = Len(received) + 1 /\ e.n > 0
      /\ e.type = s.type /\ e.ix = s.ix /\ e.ix \in Nat
      /\ Started \in Nat /\ Stops \in Nat
      /\ Started' = (IF e.type \in Starts THEN Started + 1 ELSE Started)
      /\ Stops' = (IF e.type = "stop" THEN Stops + 1 ELSE Stops)
      /\ e.type \in Starts => e.ix = Started /\ Started = Stops
      /\ e.type \in {"delta", "stop"} => e.ix = Started - 1 /\ Started = Stops + 1
      /\ e.type = "message_delta" => Started = Stops
  BY <1>1, Arrival
<1>3. e.type # "ping" => ~Ended
  BY <1>1, <1>2 DEF UpstreamMay, Ended
<1>4. held \in Seq(Event) /\ out \in Seq(Event) /\ (open # NoBlock => open \in Nat)
  BY <1>1 DEF TypeOK, Indices
<1>5. e.reason = s.reason
  BY DEF Arrived
<1> HIDE DEF e
<1>6. /\ Intact' <=> Intact
      /\ Ended' <=> Ended \/ e.type = "message_delta"
      /\ Len(received') = Len(received) + 1 /\ received'[Len(received) + 1] = e
      /\ \A k \in 1..Len(received) : k \in 1..Len(received') /\ received'[k] = received[k]
      /\ Len(received) \in Nat
  <2>1. Len(received) \in Nat
    BY <1>1 DEF TypeOK
  <2> QED
    BY <1>1, <1>2, <2>1, IntactGrows
<1>7. QuietQueue' /\ Of(queue, {"message_delta"}) = {}
  BY <1>1, NothingOf DEF QuietQueue
<1>8. CASE ~Intact
  BY <1>6, <1>7, <1>8 DEF StopInv, OpenIsLast, EndedInv, KeptInv, ReasonInv
<1>9. CASE Intact
  <2>1. /\ open # NoBlock => Started = open + 1 /\ Stops = open
        /\ Of(held, {"message_delta"}) = {}
        /\ Ended => open = NoBlock
    BY <1>1, <1>9 DEF StopInv, OpenIsLast, EndedInv
  <2>2. \A k \in Of(out, {"message_delta"}) :
          /\ out[k].n \in 1..Len(received') /\ received'[out[k].n].type = "message_delta"
          /\ out[k].reason = IF stripped /\ ~kept THEN "end_turn" ELSE received'[out[k].n].reason
    BY <1>6, <1>9 DEF StopInv, ReasonInv
  <2>3. /\ Of(out, {"tool_start"}) # {} \/ Of(queue, {"tool_start"}) # {} <=> kept
        /\ stripped => Replaced # {} \/ \E k \in 1..Len(queue) : Note(queue[k])
        /\ Replaced # {} => stripped \/ kept
    BY <1>1, <1>9 DEF StopInv, KeptInv
  <2>4. CASE open = NoBlock /\ e.type = "tool_start"
    <3>1. /\ open' = e.ix /\ held' = <<e>> /\ phase' = "collect" /\ UNCHANGED out
      BY <2>4 DEF Receive, e
    <3>2. OpenIsLast'
      BY <1>2, <2>4, <3>1 DEF OpenIsLast, Starts
    <3>3. EndedInv'
      <4>1. Of(<<e>>, {"message_delta"}) = {}
        BY <2>4 DEF Of
      <4> QED
        BY <1>1, <1>3, <1>6, <1>7, <2>4, <3>1, <4>1 DEF EndedInv
    <3>4. KeptInv' /\ ReasonInv'
      BY <1>1, <2>2, <2>3, <3>1, SameOut DEF KeptInv, ReasonInv
    <3> QED
      BY <1>7, <3>2, <3>3, <3>4 DEF StopInv
  <2>5. CASE open = NoBlock /\ e.type # "tool_start"
    <3> DEFINE f == EndTurn(e)
    <3>1. out' = Append(out, f) /\ UNCHANGED <<phase, open, held>>
      BY <2>5 DEF Receive, e
    <3>2. /\ f \in Event /\ f.type = e.type /\ f.n = Len(received) + 1 /\ f.n # 0
          /\ e.type = "message_delta" =>
               f.reason = IF stripped /\ ~kept THEN "end_turn" ELSE e.reason
      BY <1>2 DEF EndTurn, Event, Reasons
    <3> HIDE DEF f
    <3>3. OpenIsLast' /\ EndedInv'
      BY <1>1, <1>7, <2>1, <2>5, <3>1 DEF OpenIsLast, EndedInv
    <3>4. Of(out', {"tool_start"}) = {} <=> Of(out, {"tool_start"}) = {}
      BY <1>4, <2>5, <3>1, <3>2, OfAppend
    <3>5. Replaced' = Replaced
      BY <1>1, <3>1, <3>2, OutGrows
    <3>6. KeptInv'
      BY <1>1, <2>3, <3>4, <3>5 DEF KeptInv
    <3>7. ReasonInv'
      <4>1. \A k \in 1..Len(Append(out, f)) :
              (k \in 1..Len(out) /\ Append(out, f)[k] = out[k]) \/ Append(out, f)[k] = f
        BY <1>4, <3>2
      <4>2. f.type = "message_delta" =>
              /\ f.n \in 1..Len(received') /\ received'[f.n].type = "message_delta"
              /\ f.reason = IF stripped /\ ~kept THEN "end_turn" ELSE received'[f.n].reason
        <5>1. Len(received) + 1 \in 1..Len(received')
          BY <1>6
        <5>2. f.n \in 1..Len(received') /\ received'[f.n] = e
          BY <1>6, <3>2, <5>1
        <5> QED
          BY <3>2, <5>2
      <4>3. \A k \in 1..Len(out') : out'[k].type = "message_delta" =>
              /\ out'[k].n \in 1..Len(received') /\ received'[out'[k].n].type = "message_delta"
              /\ out'[k].reason = IF stripped /\ ~kept THEN "end_turn" ELSE received'[out'[k].n].reason
        BY <2>2, <3>1, <4>1, <4>2 DEF Of
      <4> QED
        BY <1>1, <4>3 DEF ReasonInv, Of
    <3> QED
      BY <1>7, <3>3, <3>6, <3>7 DEF StopInv
  <2>6. CASE open # NoBlock
    <3>1. /\ held' = Append(held, e) /\ UNCHANGED <<open, out>>
          /\ phase' = IF e.type = "stop" /\ e.ix = open THEN "judge" ELSE "collect"
      BY <2>6 DEF Receive, e
    <3>2. e.type \notin Starts \cup {"message_delta"} /\ ~Ended'
      BY <1>2, <1>4, <1>6, <2>1, <2>6
    <3>3. Of(held', {"message_delta"}) = {}
      BY <1>2, <1>4, <2>1, <3>1, <3>2, OfAppend
    <3>4. OpenIsLast'
      BY <1>2, <1>4, <2>1, <2>6, <3>1, <3>2 DEF OpenIsLast
    <3>5. EndedInv' /\ KeptInv' /\ ReasonInv'
      BY <1>1, <1>7, <2>2, <2>3, <3>1, <3>2, <3>3, SameOut DEF EndedInv, KeptInv, ReasonInv
    <3> QED
      BY <1>7, <3>4, <3>5 DEF StopInv
  <2> QED
    BY <2>4, <2>5, <2>6
<1> QED
  BY <1>8, <1>9

LEMMA BuildStop ==
  ASSUME AInv, SettledInv, StopInv, Build
  PROVE  StopInv'
<1>1. /\ TypeOK /\ phase = "build" /\ phase' = "release" /\ open \in Indices /\ open # NoBlock
      /\ queue' = (IF verdicts[open] = "block" THEN Replacement(open) ELSE held)
      /\ kept' = (kept \/ verdicts[open] # "block" \/ Rewrites)
      /\ stripped' = (stripped \/ (verdicts[open] = "block" /\ ~Rewrites))
      /\ UNCHANGED <<open, held, received, out, cause>> /\ cause = "none" /\ queue = <<>>
      /\ kept \in BOOLEAN /\ stripped \in BOOLEAN
  BY DEF AInv, Inv, HeldInv, TypeOK, QueueInv, Terminal, Build, StopInv, QuietQueue
<1>2. UNCHANGED <<Intact, Ended, Started, Stops, Replaced>>
  BY <1>1, SameIntact, SameOut
<1>3. QuietQueue' /\ OpenIsLast'
  BY <1>1, <1>2 DEF QuietQueue, OpenIsLast, StopInv
<1>4. CASE ~Intact
  BY <1>2, <1>3, <1>4 DEF StopInv, EndedInv, KeptInv, ReasonInv
<1>5. CASE Intact
  <2>1. ~Ended /\ Of(held, {"message_delta"}) = {}
    BY <1>1, <1>5 DEF StopInv, EndedInv
  <2>2. Of(out, {"message_delta"}) = {}
    <3>1. \A k \in Of(out, {"message_delta"}) : Ended
      BY <1>5 DEF StopInv, ReasonInv, Ended, Of
    <3> QED
      BY <2>1, <3>1
  <2>3. /\ Of(out, {"tool_start"}) # {} <=> kept
        /\ stripped => Replaced # {}
        /\ Replaced # {} => stripped \/ kept
    BY <1>1, <1>5, NothingOf DEF StopInv, KeptInv
  <2>4. CASE verdicts[open] = "block"
    <3>1. /\ Of(queue', {"message_delta"}) = {}
          /\ Of(queue', {"tool_start"}) # {} <=> Rewrites
          /\ ~Rewrites => \E k \in 1..Len(queue') : Note(queue'[k])
      BY <1>1, <2>4, ReplacementEvents
    <3>2. KeptInv'
      <4>1. Of(out, {"tool_start"}) # {} \/ Of(queue', {"tool_start"}) # {} <=> kept'
        BY <1>1, <2>3, <2>4, <3>1
      <4>2. stripped' => Replaced # {} \/ \E k \in 1..Len(queue') : Note(queue'[k])
        BY <1>1, <2>3, <3>1
      <4>3. stripped' \/ kept'
        BY <1>1, <2>4
      <4> QED
        BY <1>1, <1>2, <4>1, <4>2, <4>3 DEF KeptInv, Note
    <3> QED
      BY <1>1, <1>2, <1>3, <2>1, <2>2, <3>1, <3>2 DEF StopInv, EndedInv, ReasonInv
  <2>5. CASE verdicts[open] # "block"
    <3>1. Of(held, {"tool_start"}) # {}
      <4>1. Called(held, open)
        BY <1>1 DEF SettledInv
      <4> QED
        BY <4>1 DEF Called, WholeAt
    <3>2. kept' /\ queue' = held /\ (stripped' <=> stripped)
      BY <1>1, <2>5
    <3>3. KeptInv'
      BY <1>1, <1>2, <2>3, <3>1, <3>2 DEF KeptInv
    <3> QED
      BY <1>1, <1>2, <1>3, <2>1, <2>2, <3>2, <3>3 DEF StopInv, EndedInv, ReasonInv
  <2> QED
    BY <2>4, <2>5
<1> QED
  BY <1>4, <1>5

LEMMA YieldStop ==
  ASSUME AInv, StopInv, Yield
  PROVE  StopInv'
<1> DEFINE e == Head(queue)
<1>1. /\ TypeOK /\ phase \in {"release", "flush"} /\ queue # <<>> /\ queue \in Seq(Event)
      /\ out \in Seq(Event) /\ out' = Append(out, e) /\ queue' = Tail(queue)
      /\ UNCHANGED <<phase, open, held, kept, stripped, received, cause>>
  BY DEF AInv, Inv, TypeOK, Yield, heldVars
<1>2. UNCHANGED <<Intact, Ended, Started, Stops>>
  BY <1>1, SameIntact
<1>3. QuietQueue' /\ OpenIsLast'
  BY <1>1, <1>2 DEF QuietQueue, OpenIsLast, StopInv
<1>4. CASE ~Intact
  BY <1>2, <1>3, <1>4 DEF StopInv, EndedInv, KeptInv, ReasonInv
<1>5. CASE Intact
  <2>1. e \in Event /\ e = queue[1] /\ 1 \in 1..Len(queue)
    BY <1>1
  <2>2. \A k \in 1..Len(queue) : k = 1 \/ (k - 1 \in 1..Len(Tail(queue)) /\ queue[k] = Tail(queue)[k - 1])
    BY <1>1
  <2>3. \A k \in 1..Len(Tail(queue)) : Tail(queue)[k] = queue[k + 1] /\ k + 1 \in 1..Len(queue)
    BY <1>1
  <2>4. \A types :
          /\ Of(queue, types) = {} <=> Of(Tail(queue), types) = {} /\ e.type \notin types
          /\ Of(Append(out, e), types) = {} <=> Of(out, types) = {} /\ e.type \notin types
    <3> TAKE types
    <3>1. Of(queue, types) = {} <=> Of(Tail(queue), types) = {} /\ e.type \notin types
      BY <1>1, OfTail
    <3>2. out \in Seq(Event) /\ e \in Event
      BY <1>1, <2>1
    <3> HIDE DEF e
    <3>3. Of(Append(out, e), types) = {} <=> Of(out, types) = {} /\ e.type \notin types
      BY <3>2, OfAppend
    <3> QED
      BY <3>1, <3>3
  <2> HIDE DEF e
  <2>5. ~Ended /\ Of(queue, {"message_delta"}) = {} /\ e.type # "message_delta"
    BY <1>1, <1>5, <2>4 DEF StopInv, EndedInv
  <2>6. Of(out, {"message_delta"}) = {}
    <3>1. \A k \in Of(out, {"message_delta"}) : Ended
      BY <1>5 DEF StopInv, ReasonInv, Ended, Of
    <3> QED
      BY <2>5, <3>1
  <2>7. Of(out', {"message_delta"}) = {} /\ Of(queue', {"message_delta"}) = {}
    BY <1>1, <2>4, <2>5, <2>6
  <2>8. KeptInv'
    <3> SUFFICES ASSUME cause = "none" PROVE KeptInv'
      BY <1>1, <1>2, <2>5 DEF KeptInv
    <3>1. /\ Of(out, {"tool_start"}) # {} \/ Of(queue, {"tool_start"}) # {} <=> kept
          /\ stripped => Replaced # {} \/ \E k \in 1..Len(queue) : Note(queue[k])
          /\ Replaced # {} => stripped \/ kept
          /\ \A k \in 1..Len(queue) : queue[k].n = 0 /\ queue[k].type \in Starts => stripped \/ kept
      BY <1>5 DEF StopInv, KeptInv
    <3>2. /\ Replaced \subseteq Replaced'
          /\ \A i \in Replaced' \ Replaced : e.n = 0 /\ e.whole /\ e.type \in Starts /\ e.ix = i
      BY <1>1, <2>1, OutGrows
    <3>3. Note(e) => Replaced' # {}
      <4> SUFFICES ASSUME Note(e) PROVE e.ix \in Replaced'
        OBVIOUS
      <4>1. Len(out') = Len(out) + 1 /\ out'[Len(out) + 1] = e /\ Len(out) + 1 \in 1..Len(out')
        <5>1. /\ Len(Append(out, e)) = Len(out) + 1 /\ Append(out, e)[Len(out) + 1] = e
              /\ Len(out) + 1 \in 1..Len(Append(out, e))
          BY <1>1, <2>1
        <5> QED
          BY <1>1, <5>1
      <4>2. Len(out) + 1 \in WholeAt(out', {"text_start", "tool_start"}, e.ix)
        BY <4>1 DEF Note, WholeAt, Of
      <4> QED
        BY <4>1, <4>2 DEF Replaced, Note, Indices
    <3>4. Of(out', {"tool_start"}) # {} \/ Of(queue', {"tool_start"}) # {} <=> kept
      BY <1>1, <2>4, <3>1
    <3>5. stripped => Replaced' # {} \/ \E k \in 1..Len(queue') : Note(queue'[k])
      <4> SUFFICES ASSUME stripped, Replaced = {} PROVE Replaced' # {} \/ \E k \in 1..Len(queue') : Note(queue'[k])
        BY <3>2
      <4>1. PICK k \in 1..Len(queue) : Note(queue[k])
        BY <3>1
      <4>2. CASE k = 1
        BY <2>1, <3>3, <4>1, <4>2
      <4>3. CASE k # 1
        <5>1. k - 1 \in 1..Len(Tail(queue)) /\ Note(Tail(queue)[k - 1])
          BY <2>2, <4>1, <4>3
        <5> QED
          BY <1>1, <5>1
      <4> QED
        BY <4>2, <4>3
    <3>6. Replaced' # {} => stripped \/ kept
      BY <2>1, <3>1, <3>2
    <3>7. \A k \in 1..Len(queue') : queue'[k].n = 0 /\ queue'[k].type \in Starts => stripped \/ kept
      BY <1>1, <2>3, <3>1
    <3> QED
      BY <1>1, <1>2, <3>4, <3>5, <3>6, <3>7 DEF KeptInv, Note
  <2> QED
    BY <1>1, <1>2, <1>3, <2>5, <2>7, <2>8 DEF StopInv, EndedInv, ReasonInv
<1> QED
  BY <1>4, <1>5

(* A step that ends the reading of the stream queues nothing once the      *)
(* message_delta is in, for then nothing is held.                          *)
LEMMA FlushStop ==
  ASSUME StopInv, UNCHANGED <<open, kept, stripped, out>>, phase' \in {"flush"} \cup Terminal,
         Intact' => Intact /\ Of(held', {"message_delta"}) = {},
         \A k \in 1..Len(received) : k \in 1..Len(received') /\ received'[k] = received[k],
         queue' = <<>> \/ queue' = held',
         Intact' /\ (Ended' \/ cause' = "none") =>
           open = NoBlock /\ (cause = "none" \/ Ended) /\ queue = <<>> /\ queue' = <<>>
  PROVE  StopInv'
<1>1. QuietQueue' /\ OpenIsLast'
  BY DEF QuietQueue, OpenIsLast, Terminal
<1>2. EndedInv'
  BY NothingOf DEF EndedInv
<1>3. KeptInv'
  <2> SUFFICES ASSUME Intact', Ended' \/ cause' = "none" PROVE KeptInv'
    BY DEF KeptInv
  <2>1. Intact /\ (cause = "none" \/ Ended) /\ UNCHANGED <<queue, kept, stripped, out>>
    OBVIOUS
  <2> QED
    BY <2>1, SameOut DEF StopInv, KeptInv, Note
<1>4. ReasonInv'
  <2> SUFFICES ASSUME Intact' PROVE ReasonInv'
    BY DEF ReasonInv
  <2>1. Intact /\ UNCHANGED <<kept, stripped, out>>
    OBVIOUS
  <2>2. \A k \in Of(out, {"message_delta"}) :
          /\ out[k].n \in 1..Len(received') /\ received'[out[k].n].type = "message_delta"
          /\ out[k].reason = IF stripped /\ ~kept THEN "end_turn" ELSE received'[out[k].n].reason
    BY <2>1 DEF StopInv, ReasonInv
  <2> QED
    BY <2>1, <2>2 DEF ReasonInv
<1> QED
  BY <1>1, <1>2, <1>3, <1>4 DEF StopInv

LEMMA EventErrorStop ==
  ASSUME AInv, BlockInv, StopInv, NEW s \in Events, EventError(s)
  PROVE  StopInv'
<1> DEFINE e == Arrived(s, TRUE)
<1>1. /\ TypeOK /\ HeldInv /\ phase = "collect" /\ UpstreamMay(s) /\ received' = Append(received, e)
      /\ cause = "none" /\ cause' = "guard" /\ queue = <<>> /\ phase' = "flush"
      /\ UNCHANGED <<open, kept, stripped, out>>
      /\ queue' = <<>> \/ queue' = held'
      /\ held' = held \/ (open # NoBlock /\ held' = Append(held, e))
  BY DEF AInv, Inv, QueueInv, Terminal, EventError, Fail, StopInv, QuietQueue
<1>2. /\ e \in Event /\ e.whole /\ Started \in Nat /\ Stops \in Nat
      /\ e.type = "message_delta" => Started = Stops
  BY <1>1, Arrival
<1> HIDE DEF e
<1>3. /\ Intact' <=> Intact
      /\ Ended' <=> Ended \/ e.type = "message_delta"
      /\ \A k \in 1..Len(received) : k \in 1..Len(received') /\ received'[k] = received[k]
  BY <1>1, <1>2, IntactGrows
<1>4. Intact /\ open # NoBlock => e.type # "message_delta" /\ ~Ended
  <2> SUFFICES ASSUME Intact, open # NoBlock PROVE e.type # "message_delta" /\ ~Ended
    OBVIOUS
  <2>1. Started = open + 1 /\ Stops = open /\ open \in Nat /\ ~Ended
    BY <1>1 DEF StopInv, OpenIsLast, EndedInv, TypeOK, Indices
  <2> QED
    BY <1>2, <2>1
<1>5. Intact' => Of(held', {"message_delta"}) = {}
  <2> SUFFICES ASSUME Intact PROVE Of(held', {"message_delta"}) = {}
    BY <1>3
  <2>1. Of(held, {"message_delta"}) = {} /\ held \in Seq(Event)
    BY <1>1 DEF StopInv, EndedInv, TypeOK
  <2>2. CASE open # NoBlock /\ held' = Append(held, e)
    BY <1>2, <1>4, <2>1, <2>2, OfAppend
  <2> QED
    BY <1>1, <2>1, <2>2
<1>6. Intact' /\ Ended' => open = NoBlock /\ held' = <<>>
  BY <1>1, <1>3, <1>4 DEF HeldInv
<1> QED
  BY <1>1, <1>3, <1>5, <1>6, FlushStop

LEMMA StopStep ==
  ASSUME AInv, BlockInv, SettledInv, StopInv, [Next]_vars
  PROVE  StopInv'
<1>0. TypeOK /\ HeldInv /\ QueueInv /\ QuietQueue
  BY DEF AInv, Inv, StopInv
<1>1. CASE GuardError \/ UpstreamError \/ UpstreamEnds
  <2>1. /\ UNCHANGED <<open, held, received, kept, stripped, out>>
        /\ phase \in {"collect", "judge", "build"} /\ phase' \in {"flush"} \cup Terminal
        /\ cause = "none" /\ queue = <<>>
    BY <1>0, <1>1 DEF GuardError, UpstreamError, UpstreamEnds, Fail, heldVars, QueueInv, QuietQueue, Terminal
  <2>2. /\ queue' = <<>> \/ queue' = held'
        /\ cause' = "none" => open = NoBlock
    <3>1. CASE GuardError
      BY <3>1 DEF GuardError, Fail, Unscreened
    <3>2. CASE UpstreamError
      BY <2>1, <3>2 DEF UpstreamError, Fail, Unscreened
    <3>3. CASE UpstreamEnds
      BY <1>0, <2>1, <3>3 DEF UpstreamEnds, Unscreened, HeldInv
    <3> QED
      BY <1>1, <3>1, <3>2, <3>3
  <2>3. UNCHANGED <<Intact, Ended>>
    BY <2>1, SameIntact
  <2>4. Intact => Of(held, {"message_delta"}) = {} /\ (Ended => open = NoBlock)
    BY DEF StopInv, EndedInv
  <2>5. open = NoBlock => held' = <<>>
    BY <1>0, <2>1 DEF HeldInv
  <2> QED
    BY <2>1, <2>2, <2>3, <2>4, <2>5, FlushStop
<1>2. ASSUME NEW s \in Events, Straddle(s) PROVE StopInv'
  <2>1. /\ phase = "collect" /\ UpstreamMay(s) /\ received' = Append(received, Arrived(s, FALSE))
        /\ UNCHANGED <<phase, queue>>
    BY <1>2 DEF Straddle
  <2>2. Arrived(s, FALSE) \in Event /\ ~Arrived(s, FALSE).whole
    BY <1>0, ArrivedEvent
  <2>3. ~Intact'
    BY <1>0, <2>1, <2>2, IntactGrows
  <2> QED
    BY <1>0, <2>1, <2>3 DEF StopInv, QuietQueue, OpenIsLast, EndedInv, KeptInv, ReasonInv
<1>3. CASE Stall
  <2>1. /\ out' = Append(out, Ping)
        /\ UNCHANGED <<phase, open, held, kept, stripped, queue, cause, received>>
    BY <1>3 DEF Stall, heldVars
  <2>2. /\ Ping \in Event /\ Ping.type = "ping" /\ out \in Seq(Event)
    BY <1>0, BoundsAssumption DEF Ping, Made, Event, Types, Indices, Reasons, TypeOK
  <2>3. /\ Of(out', {"tool_start"}) = {} <=> Of(out, {"tool_start"}) = {}
        /\ Replaced' = Replaced
    BY <1>0, <2>1, <2>2, OfAppend, OutGrows DEF Starts
  <2>4. \A k \in 1..Len(out') : (k \in 1..Len(out) /\ out'[k] = out[k]) \/ out'[k] = Ping
    BY <2>1, <2>2
  <2>5. UNCHANGED <<Intact, Ended, Started, Stops>>
    BY <2>1, SameIntact
  <2>6. ReasonInv'
    BY <2>1, <2>2, <2>4, <2>5 DEF StopInv, ReasonInv, Of
  <2> QED
    BY <2>1, <2>3, <2>5, <2>6 DEF StopInv, QuietQueue, OpenIsLast, EndedInv, KeptInv, Note
<1>4. CASE Judge \/ EndRelease \/ EndFlush \/ ClientGone \/ UNCHANGED vars
  <2>1. /\ UNCHANGED <<kept, stripped, queue, cause, received, out>>
        /\ \/ UNCHANGED <<open, held>> /\ (phase' = "collect" => phase = "collect")
           \/ open' = NoBlock /\ held' = <<>>
        /\ phase' \in {"collect", "judge", "build"} => queue = <<>>
    BY <1>0, <1>4 DEF Judge, EndRelease, EndFlush, ClientGone, vars, heldVars, QuietQueue, Terminal
  <2>2. UNCHANGED <<Intact, Ended, Started, Stops, Replaced>>
    BY <2>1, SameIntact, SameOut
  <2> QED
    BY <2>1, <2>2, NothingOf DEF StopInv, QuietQueue, OpenIsLast, EndedInv, KeptInv, Note, ReasonInv
<1> QED
  BY <1>1, <1>2, <1>3, <1>4, ReceiveStop, EventErrorStop, BuildStop, YieldStop DEF Next, GuardStep, Over

LEMMA InitStop == Init => StopInv
<1> SUFFICES ASSUME Init PROVE StopInv
  OBVIOUS
<1>1. Of(out, {"tool_start"}) = {} /\ Of(out, {"message_delta"}) = {} /\ ~Ended
  BY NothingOf DEF Init, Ended
<1>2. Replaced = {}
  BY DEF Init, Replaced, WholeAt, Of
<1> QED
  BY <1>1, <1>2, NothingOf DEF Init, StopInv, QuietQueue, OpenIsLast, EndedInv, KeptInv, ReasonInv

(* When no event straddles two chunks, the stop reason the client sees is  *)
(* the upstream's, except that it is end_turn exactly when calls were      *)
(* stripped and no call is left to run.                                    *)
THEOREM StopReasonIsTrue == Spec => []StopReason
<1> DEFINE I == SpelledInv /\ RangeInv /\ SettledInv /\ StopInv
<1>1. Init => I
  BY InitSettled, InitStop
<1>2. I /\ [Next]_vars => I'
  BY NextAInv, BlockStep, SpellStep, RangeStep, SettledStep, StopStep DEF SpelledInv
<1>3. I => StopReason
  <2> SUFFICES ASSUME I, Intact, NEW k \in Of(out, {"message_delta"})
               PROVE  out[k].reason = IF Replaced # {} /\ ~(Of(out, {"tool_start"}) # {})
                                      THEN "end_turn" ELSE received[out[k].n].reason
    BY DEF StopReason
  <2>1. Ended
    BY DEF StopInv, ReasonInv, Ended, Of
  <2>2. queue = <<>>
    BY <2>1 DEF StopInv, EndedInv
  <2>3. Replaced # {} /\ ~(Of(out, {"tool_start"}) # {}) <=> stripped /\ ~kept
    BY <2>1, <2>2, NothingOf DEF StopInv, KeptInv
  <2> QED
    BY <2>3 DEF StopInv, ReasonInv
<1> QED
  BY <1>1, <1>2, <1>3, PTL DEF Spec
-----------------------------------------------------------------------------
(***************************************************************************)
(* The blocks the client sees, when no event straddles two chunks.         *)
(***************************************************************************)
Begun  == Cardinality(Of(out, Starts))
Closed == Cardinality(Of(out, {"stop"}))
Has(q, i) == \E j \in Of(q, Starts) : q[j].ix = i

(* An event that can come within block i, the rest of a block, and one from*)
(* its start; a stop comes last.                                           *)
Within(e, i) == e.type \notin Starts /\ (e.type \in {"delta", "stop"} => e.ix = i)
StopLast(q)  == \A k \in 1..Len(q) : q[k].type = "stop" => k = Len(q)
Rest(q, i)   == StopLast(q) /\ \A k \in 1..Len(q) : Within(q[k], i)
Block(q, i)  ==
  /\ StopLast(q) /\ q # <<>> /\ q[1].type \in Starts /\ q[1].ix = i
  /\ \A k \in 2..Len(q) : Within(q[k], i)

Before(q, types, k) == {j \in Of(q, types) : j < k}
Formed(q) ==
  /\ \A k \in Of(q, Starts) :
       Cardinality(Before(q, Starts, k)) = Cardinality(Before(q, {"stop"}, k))
  /\ \A k \in Of(q, {"delta", "stop"}) :
       /\ Cardinality(Before(q, Starts, k)) = Cardinality(Before(q, {"stop"}, k)) + 1
       /\ \E j \in Before(q, Starts, k) : q[j].ix = q[k].ix

(* The client is in the upstream's block, unless that is held; what waits  *)
(* for it is a block, or the rest of one.                                  *)
FormInv ==
  Intact =>
    /\ Formed(out)
    /\ cause = "none" /\ open = NoBlock =>
         Begun + Stops = Closed + Started /\ (Started > Stops => Has(out, Started - 1))
    /\ open # NoBlock /\ phase \in {"collect", "judge", "build"} =>
         /\ Begun = Closed /\ Block(held, open)
         /\ held[Len(held)].type = "stop" <=> phase # "collect"
    /\ queue # <<>> =>
         \/ Begun = Closed /\ Block(queue, open)
         \/ Begun = Closed + 1 /\ Has(out, open) /\ Rest(queue, open)
    /\ phase = "release" =>
         IF queue = <<>> THEN Begun = Closed ELSE queue[Len(queue)].type = "stop"

LEMMA FormedAppend ==
  ASSUME NEW q \in Seq(Event), NEW e \in Event, Formed(q),
         e.type \in Starts => Cardinality(Of(q, Starts)) = Cardinality(Of(q, {"stop"})),
         e.type \in {"delta", "stop"} =>
           /\ Cardinality(Of(q, Starts)) = Cardinality(Of(q, {"stop"})) + 1
           /\ \E j \in Of(q, Starts) : q[j].ix = e.ix
  PROVE  Formed(Append(q, e))
<1> DEFINE r == Append(q, e)
           n == Len(q)
<1>1. /\ n \in Nat /\ Len(r) = n + 1 /\ r[n + 1] = e
      /\ \A k \in 1..n : k \in 1..Len(r) /\ r[k] = q[k]
      /\ \A k \in 1..Len(r) : k \in 1..n \/ k = n + 1
  OBVIOUS
<1> HIDE DEF r
<1>2. \A types : \A k \in 1..n : Before(r, types, k) = Before(q, types, k)
  BY <1>1 DEF Before, Of
<1>3. \A types : Before(r, types, n + 1) = Of(q, types)
  BY <1>1 DEF Before, Of
<1>4. \A types : \A k \in Of(r, types) : (k \in Of(q, types) /\ k \in 1..n) \/ (k = n + 1 /\ e.type \in types)
  BY <1>1 DEF Of
<1>5. \A types : \A k \in 1..n : \A j \in Before(q, types, k) : r[j] = q[j]
  BY <1>1 DEF Before, Of
<1>6. ASSUME NEW k \in Of(r, Starts)
      PROVE  Cardinality(Before(r, Starts, k)) = Cardinality(Before(r, {"stop"}, k))
  <2>1. CASE k \in Of(q, Starts) /\ k \in 1..n
    BY <1>2, <2>1 DEF Formed
  <2>2. CASE k = n + 1 /\ e.type \in Starts
    BY <1>3, <2>2
  <2> QED
    BY <1>4, <1>6, <2>1, <2>2
<1>7. ASSUME NEW k \in Of(r, {"delta", "stop"})
      PROVE  /\ Cardinality(Before(r, Starts, k)) = Cardinality(Before(r, {"stop"}, k)) + 1
             /\ \E j \in Before(r, Starts, k) : r[j].ix = r[k].ix
  <2>1. CASE k \in Of(q, {"delta", "stop"}) /\ k \in 1..n
    <3>1. /\ Cardinality(Before(q, Starts, k)) = Cardinality(Before(q, {"stop"}, k)) + 1
          /\ \E j \in Before(q, Starts, k) : q[j].ix = q[k].ix
      BY <2>1 DEF Formed
    <3>2. r[k] = q[k] /\ \A j \in Before(q, Starts, k) : r[j] = q[j]
      BY <1>1, <1>5, <2>1
    <3> QED
      BY <1>2, <2>1, <3>1, <3>2
  <2>2. CASE k = n + 1 /\ e.type \in {"delta", "stop"}
    <3>1. /\ Cardinality(Of(q, Starts)) = Cardinality(Of(q, {"stop"})) + 1
          /\ \E j \in Of(q, Starts) : q[j].ix = e.ix
      BY <2>2
    <3>2. \A j \in Of(q, Starts) : r[j] = q[j]
      BY <1>1 DEF Of
    <3> QED
      BY <1>1, <1>3, <2>2, <3>1, <3>2
  <2> QED
    BY <1>4, <1>7, <2>1, <2>2
<1>8. Formed(r)
  BY <1>6, <1>7 DEF Formed
<1> QED
  BY <1>8 DEF r

(* What the client has, after one more event.                              *)
LEMMA FormGrows ==
  ASSUME TypeOK, NEW e \in Event, out' = Append(out, e), Formed(out),
         e.type \in Starts => Begun = Closed,
         e.type \in {"delta", "stop"} => Begun = Closed + 1 /\ Has(out, e.ix)
  PROVE  /\ Formed(out') /\ Begun \in Nat /\ Closed \in Nat
         /\ Begun' = IF e.type \in Starts THEN Begun + 1 ELSE Begun
         /\ Closed' = IF e.type = "stop" THEN Closed + 1 ELSE Closed
         /\ \A i : Has(out, i) => Has(out', i)
         /\ e.type \in Starts => Has(out', e.ix)
<1>1. out \in Seq(Event) /\ e \in Event
  BY DEF TypeOK
<1>2. Formed(Append(out, e))
  BY <1>1, FormedAppend DEF Begun, Closed, Has
<1>3. /\ Cardinality(Of(out, Starts)) \in Nat
      /\ Cardinality(Of(Append(out, e), Starts)) =
           IF e.type \in Starts THEN Cardinality(Of(out, Starts)) + 1 ELSE Cardinality(Of(out, Starts))
  BY <1>1, CountGrows
<1>4. /\ Cardinality(Of(out, {"stop"})) \in Nat
      /\ Cardinality(Of(Append(out, e), {"stop"})) =
           IF e.type \in {"stop"} THEN Cardinality(Of(out, {"stop"})) + 1 ELSE Cardinality(Of(out, {"stop"}))
  BY <1>1, CountGrows
<1>5. /\ Len(out) + 1 \in 1..Len(Append(out, e)) /\ Append(out, e)[Len(out) + 1] = e
      /\ \A k \in 1..Len(out) : k \in 1..Len(Append(out, e)) /\ Append(out, e)[k] = out[k]
  BY <1>1
<1>6. \A i : Has(out, i) => Has(out', i)
  BY <1>5 DEF Has, Of
<1>7. e.type \in Starts => Has(out', e.ix)
  BY <1>5 DEF Has, Of
<1> QED
  BY <1>2, <1>3, <1>4, <1>6, <1>7 DEF Begun, Closed

LEMMA BlockAppend ==
  ASSUME NEW q \in Seq(Event), NEW e \in Event, NEW i,
         Block(q, i), q[Len(q)].type # "stop", Within(e, i)
  PROVE  Block(Append(q, e), i) /\ Append(q, e)[Len(Append(q, e))] = e
<1> DEFINE r == Append(q, e)
           n == Len(q)
<1>1. /\ n \in Nat \ {0} /\ Len(r) = n + 1 /\ r[n + 1] = e
      /\ \A k \in 1..n : r[k] = q[k]
      /\ \A k \in 1..Len(r) : k \in 1..n \/ k = n + 1
      /\ 1 \in 1..n /\ n \in 1..n
  BY DEF Block
<1> HIDE DEF r
<1>2. \A k \in 1..n : q[k].type # "stop"
  BY DEF Block, StopLast
<1>3. StopLast(r)
  BY <1>1, <1>2 DEF StopLast
<1>4. r # <<>>
  BY <1>1
<1>5. \A k \in 2..Len(r) : k \in 2..n \/ k = n + 1
  BY <1>1
<1>6. \A k \in 2..Len(r) : Within(r[k], i)
  BY <1>1, <1>5 DEF Block
<1>7. Block(r, i) /\ r[Len(r)] = e
  BY <1>1, <1>3, <1>4, <1>6 DEF Block
<1> QED
  BY <1>7 DEF r

LEMMA BlockTail ==
  ASSUME NEW q \in Seq(Event), NEW i, q # <<>>, Block(q, i) \/ Rest(q, i)
  PROVE  /\ Rest(Tail(q), i)
         /\ Tail(q) # <<>> => Tail(q)[Len(Tail(q))] = q[Len(q)]
         /\ Tail(q) = <<>> => q[Len(q)] = q[1]
         /\ q[1].type = "stop" => Tail(q) = <<>>
<1> DEFINE r == Tail(q)
           n == Len(q)
<1>1. /\ n \in Nat \ {0} /\ Len(r) = n - 1 /\ r \in Seq(Event)
      /\ \A k \in 1..Len(r) : r[k] = q[k + 1] /\ k + 1 \in 2..n /\ k + 1 \in 1..n
      /\ 1 \in 1..n
  OBVIOUS
<1>2. StopLast(q) /\ \A k \in 2..n : Within(q[k], i)
  BY DEF Block, Rest
<1> HIDE DEF r
<1>3. Rest(r, i)
  BY <1>1, <1>2 DEF Rest, StopLast
<1>4. r # <<>> => Len(r) \in 1..Len(r) /\ r[Len(r)] = q[n]
  <2>1. r # <<>> => Len(r) # 0
    BY <1>1
  <2> QED
    BY <1>1, <2>1
<1>5. r = <<>> => n = 1
  BY <1>1
<1>6. q[1].type = "stop" => r = <<>>
  <2>1. q[1].type = "stop" => Len(r) = 0
    BY <1>1, <1>2 DEF StopLast
  <2> QED
    BY <1>1, <2>1
<1> QED
  BY <1>3, <1>4, <1>5, <1>6 DEF r

LEMMA ReplacementBlock ==
  ASSUME TypeOK, open \in Indices
  PROVE  /\ Block(Replacement(open), open) /\ Replacement(open) # <<>>
         /\ Replacement(open)[Len(Replacement(open))].type = "stop"
<1> DEFINE a == Made(IF Rewrites THEN "tool_start" ELSE "text_start", open, NoArg)
           b == Made("delta", open, Echo)
           c == Made("stop", open, NoArg)
           r == <<a, b, c>>
<1>1. /\ a.type \in Starts /\ a.ix = open /\ a.type # "stop"
      /\ b.type = "delta" /\ b.ix = open /\ c.type = "stop" /\ c.ix = open
  BY DEF Made, Starts
<1>2. r[1] = a /\ r[2] = b /\ r[3] = c /\ Len(r) = 3
  OBVIOUS
<1>3. Replacement(open) = r
  BY DEF Replacement
<1>4. r # <<>>
  OBVIOUS
<1> HIDE DEF a, b, c, r
<1>5. \A k \in 1..3 : k = 1 \/ k = 2 \/ k = 3
  OBVIOUS
<1>6. \A k \in 2..3 : k = 2 \/ k = 3
  OBVIOUS
<1>7. Block(r, open) /\ r[Len(r)].type = "stop"
  BY <1>1, <1>2, <1>4, <1>5, <1>6 DEF Block, StopLast, Within, Starts
<1> QED
  BY <1>3, <1>4, <1>7

LEMMA ReceiveForm ==
  ASSUME AInv, BlockInv, StopInv, FormInv, NEW s \in Events, Receive(s)
  PROVE  FormInv'
<1> DEFINE e == Arrived(s, TRUE)
<1>1. /\ TypeOK /\ HeldInv
      /\ phase = "collect" /\ UpstreamMay(s) /\ received' = Append(received, e)
      /\ UNCHANGED <<cause, queue>> /\ cause = "none" /\ queue = <<>>
      /\ phase' \in {"collect", "judge"}
  BY DEF AInv, Inv, QueueInv, Terminal, Receive, StopInv, QuietQueue
<1>2. /\ e \in Event /\ e.whole /\ e.ix \in Nat
      /\ Started \in Nat /\ Stops \in Nat
      /\ Started' = (IF e.type \in Starts THEN Started + 1 ELSE Started)
      /\ Stops' = (IF e.type = "stop" THEN Stops + 1 ELSE Stops)
      /\ e.type \in Starts => e.ix = Started /\ Started = Stops
      /\ e.type \in {"delta", "stop"} => e.ix = Started - 1 /\ Started = Stops + 1
  BY <1>1, Arrival
<1>3. /\ held \in Seq(Event) /\ out \in Seq(Event) /\ (open # NoBlock => open \in Nat)
      /\ Begun \in Nat /\ Closed \in Nat
  BY <1>1, CountIsNat DEF TypeOK, Indices, Begun, Closed
<1> HIDE DEF e
<1>4. SUFFICES ASSUME Intact' PROVE FormInv'
  BY DEF FormInv
<1>5. Intact
  BY <1>1, <1>2, <1>4, IntactGrows
<1>6. /\ Formed(out)
      /\ open = NoBlock => Begun + Stops = Closed + Started /\ (Started > Stops => Has(out, Started - 1))
      /\ open # NoBlock =>
           /\ Begun = Closed /\ Block(held, open) /\ held[Len(held)].type # "stop"
           /\ Started = open + 1 /\ Stops = open
  BY <1>1, <1>5 DEF FormInv, StopInv, OpenIsLast
<1>7. CASE open = NoBlock /\ e.type = "tool_start"
  <2>1. /\ open' = e.ix /\ held' = <<e>> /\ phase' = "collect" /\ UNCHANGED out
    BY <1>7 DEF Receive, e
  <2>2. e.type \in Starts /\ e.type # "stop" /\ Begun = Closed
    BY <1>2, <1>3, <1>6, <1>7 DEF Starts
  <2>3. Block(<<e>>, e.ix) /\ <<e>>[Len(<<e>>)] = e
    <3>1. <<e>> # <<>> /\ Len(<<e>>) = 1 /\ <<e>>[1] = e
      OBVIOUS
    <3> DEFINE r == <<e>>
    <3> HIDE DEF r
    <3>2. Block(r, e.ix)
      BY <2>2, <3>1 DEF Block, StopLast, r
    <3> QED
      BY <3>1, <3>2 DEF r
  <2>4. UNCHANGED <<Begun, Closed>>
    BY <2>1 DEF Begun, Closed
  <2>5. e.ix # NoBlock
    BY <1>2, MarkersAssumption
  <2> QED
    BY <1>1, <1>6, <2>1, <2>2, <2>3, <2>4, <2>5 DEF FormInv
<1>8. CASE open = NoBlock /\ e.type # "tool_start"
  <2> DEFINE f == EndTurn(e)
  <2>1. out' = Append(out, f) /\ UNCHANGED <<phase, open, held>>
    BY <1>8 DEF Receive, e
  <2>2. f \in Event /\ f.type = e.type /\ f.ix = e.ix
    BY <1>2 DEF EndTurn, Event, Reasons
  <2> HIDE DEF f
  <2>3. /\ f.type \in Starts => Begun = Closed
        /\ f.type \in {"delta", "stop"} => Begun = Closed + 1 /\ Has(out, f.ix)
    BY <1>2, <1>3, <1>6, <1>8, <2>2
  <2>4. /\ Formed(out')
        /\ Begun' = IF f.type \in Starts THEN Begun + 1 ELSE Begun
        /\ Closed' = IF f.type = "stop" THEN Closed + 1 ELSE Closed
        /\ \A i : Has(out, i) => Has(out', i)
        /\ f.type \in Starts => Has(out', f.ix)
    BY <1>1, <1>6, <2>1, <2>2, <2>3, FormGrows
  <2>5. Begun' + Stops' = Closed' + Started'
    BY <1>2, <1>3, <1>6, <1>8, <2>2, <2>4 DEF Starts
  <2>6. Started' > Stops' => Has(out', Started' - 1)
    <3>1. CASE f.type \in Starts
      <4>1. Started' - 1 = f.ix
        BY <1>2, <2>2, <3>1
      <4> QED
        BY <2>4, <3>1, <4>1 DEF Has
    <3>2. CASE f.type \notin Starts
      <4>1. Started' = Started /\ (Started' > Stops' => Started > Stops)
        BY <1>2, <2>2, <3>2
      <4> QED
        BY <1>6, <1>8, <2>4, <4>1 DEF Has
    <3> QED
      BY <3>1, <3>2
  <2> QED
    BY <1>1, <1>8, <2>1, <2>4, <2>5, <2>6 DEF FormInv
<1>9. CASE open # NoBlock
  <2>1. /\ held' = Append(held, e) /\ UNCHANGED <<open, out>>
        /\ phase' = IF e.type = "stop" /\ e.ix = open THEN "judge" ELSE "collect"
    BY <1>9 DEF Receive, e
  <2>2. Within(e, open) /\ (e.type = "stop" => e.ix = open)
    BY <1>2, <1>3, <1>6, <1>9 DEF Within
  <2>3. Block(held', open) /\ held'[Len(held')] = e
    BY <1>2, <1>3, <1>6, <1>9, <2>1, <2>2, BlockAppend
  <2>4. UNCHANGED <<Begun, Closed>>
    BY <2>1 DEF Begun, Closed
  <2> QED
    BY <1>1, <1>6, <1>9, <2>1, <2>2, <2>3, <2>4 DEF FormInv
<1> QED
  BY <1>7, <1>8, <1>9

LEMMA YieldForm ==
  ASSUME AInv, FormInv, Yield
  PROVE  FormInv'
<1> DEFINE e == Head(queue)
<1>1. /\ TypeOK /\ phase \in {"release", "flush"} /\ queue # <<>> /\ queue \in Seq(Event)
      /\ out' = Append(out, e) /\ queue' = Tail(queue)
      /\ UNCHANGED <<phase, open, held, received, cause>>
      /\ cause = "none" => open # NoBlock
  BY DEF AInv, Inv, TypeOK, Yield, heldVars, QueueInv, Opened, HeldInv
<1>2. UNCHANGED Intact
  BY <1>1, SameIntact
<1>3. SUFFICES ASSUME Intact PROVE FormInv'
  BY <1>2 DEF FormInv
<1>4. /\ Formed(out)
      /\ \/ Begun = Closed /\ Block(queue, open)
         \/ Begun = Closed + 1 /\ Has(out, open) /\ Rest(queue, open)
      /\ phase = "release" => queue[Len(queue)].type = "stop"
  BY <1>1, <1>3 DEF FormInv
<1>5. e \in Event /\ e = queue[1] /\ 1 \in 1..Len(queue)
  BY <1>1
<1>6. /\ Rest(queue', open)
      /\ queue' # <<>> => queue'[Len(queue')] = queue[Len(queue)]
      /\ queue' = <<>> => queue[Len(queue)] = e
      /\ e.type = "stop" => queue' = <<>>
  BY <1>1, <1>4, <1>5, BlockTail
<1>7. Begun \in Nat /\ Closed \in Nat
  BY <1>1, CountIsNat DEF TypeOK, Begun, Closed
<1> HIDE DEF e
<1>8. CASE Begun = Closed /\ Block(queue, open)
  <2>1. e.type \in Starts /\ e.ix = open /\ e.type \notin {"delta", "stop"}
    BY <1>5, <1>8 DEF Block, Starts
  <2>2. Formed(out') /\ Begun' = Begun + 1 /\ Closed' = Closed /\ Has(out', open)
    <3>1. /\ Formed(out') /\ Begun' = (IF e.type \in Starts THEN Begun + 1 ELSE Begun)
          /\ Closed' = (IF e.type = "stop" THEN Closed + 1 ELSE Closed)
          /\ e.type \in Starts => Has(out', e.ix)
      BY <1>1, <1>4, <1>5, <1>8, <2>1, FormGrows
    <3> QED
      BY <1>1, <2>1, <3>1 DEF Has
  <2> QED
    BY <1>1, <1>4, <1>6, <1>7, <1>8, <2>1, <2>2 DEF FormInv
<1>9. CASE Begun = Closed + 1 /\ Has(out, open) /\ Rest(queue, open)
  <2>1. e.type \notin Starts /\ (e.type \in {"delta", "stop"} => e.ix = open)
    BY <1>5, <1>9 DEF Rest, Within
  <2>2. /\ Formed(out') /\ Begun' = Begun /\ Has(out', open)
        /\ Closed' = (IF e.type = "stop" THEN Closed + 1 ELSE Closed)
    <3>1. /\ Formed(out') /\ Begun' = (IF e.type \in Starts THEN Begun + 1 ELSE Begun)
          /\ Closed' = (IF e.type = "stop" THEN Closed + 1 ELSE Closed)
          /\ \A i : Has(out, i) => Has(out', i)
      BY <1>1, <1>4, <1>5, <1>9, <2>1, FormGrows
    <3> QED
      BY <1>1, <1>9, <2>1, <3>1 DEF Has
  <2> QED
    BY <1>1, <1>4, <1>6, <1>7, <1>9, <2>1, <2>2 DEF FormInv
<1> QED
  BY <1>4, <1>8, <1>9

LEMMA FormStep ==
  ASSUME AInv, BlockInv, StopInv, FormInv, [Next]_vars
  PROVE  FormInv'
<1>0. TypeOK /\ HeldInv /\ QueueInv /\ QuietQueue
  BY DEF AInv, Inv, StopInv
<1>1. CASE Build
  <2>1. /\ phase = "build" /\ phase' = "release" /\ open \in Indices /\ open # NoBlock
        /\ queue' = Replacement(open) \/ queue' = held
        /\ UNCHANGED <<open, received, out>>
    BY <1>0, <1>1 DEF Build, HeldInv, TypeOK
  <2>2. UNCHANGED <<Intact, Begun, Closed>>
    BY <2>1, SameIntact DEF Begun, Closed
  <2>3. SUFFICES ASSUME Intact PROVE FormInv'
    BY <2>2 DEF FormInv
  <2>4. /\ Formed(out) /\ Begun = Closed /\ Block(held, open)
        /\ held[Len(held)].type = "stop" /\ held # <<>>
    BY <2>1, <2>3 DEF FormInv, Block
  <2>5. Block(queue', open) /\ queue'[Len(queue')].type = "stop" /\ queue' # <<>>
    BY <1>0, <2>1, <2>4, ReplacementBlock
  <2> QED
    BY <2>1, <2>2, <2>4, <2>5 DEF FormInv
<1>2. CASE EndRelease
  <2>1. /\ phase = "release" /\ phase' = "collect" /\ queue = <<>> /\ open' = NoBlock
        /\ UNCHANGED <<queue, received, out>>
    BY <1>2 DEF EndRelease
  <2>2. UNCHANGED <<Intact, Started, Stops, Begun, Closed>>
    BY <2>1, SameIntact DEF Begun, Closed
  <2>3. Started = Stops
    <3>1. open \in Nat /\ open < Stops /\ Started = open + 1 /\ Stops <= Started /\ Stops \in Nat
      BY <1>0, <2>1, CountIsNat DEF BlockInv, HeldInv, TypeOK, Indices, Stops
    <3> QED
      BY <3>1
  <2>4. Begun \in Nat /\ Closed \in Nat /\ Stops \in Nat
    BY <1>0, CountIsNat DEF TypeOK, Begun, Closed, Stops
  <2>5. ~(Started > Stops) /\ (Begun = Closed => Begun + Stops = Closed + Started)
    BY <2>3, <2>4
  <2> QED
    BY <2>1, <2>2, <2>5 DEF FormInv
<1>3. CASE Stall
  <2>1. /\ out' = Append(out, Ping) /\ phase = "collect" /\ open # NoBlock /\ queue = <<>>
        /\ UNCHANGED <<phase, open, held, queue, cause, received>>
    BY <1>0, <1>3 DEF Stall, heldVars, HeldInv, QuietQueue
  <2>2. Ping \in Event /\ Ping.type = "ping"
    BY BoundsAssumption DEF Ping, Made, Event, Types, Indices, Reasons
  <2>3. UNCHANGED Intact
    BY <2>1, SameIntact
  <2>4. SUFFICES ASSUME Intact PROVE FormInv'
    BY <2>3 DEF FormInv
  <2>5. Formed(out') /\ Begun' = Begun /\ Closed' = Closed
    <3>1. Formed(out) /\ Ping.type \notin Starts /\ Ping.type \notin {"delta", "stop"}
      BY <2>2, <2>4 DEF FormInv, Starts
    <3> QED
      BY <1>0, <2>1, <2>2, <3>1, FormGrows
  <2> QED
    BY <2>1, <2>4, <2>5 DEF FormInv
<1>4. ASSUME NEW s \in Events, Straddle(s) PROVE FormInv'
  <2>1. /\ phase = "collect" /\ UpstreamMay(s) /\ received' = Append(received, Arrived(s, FALSE))
    BY <1>4 DEF Straddle
  <2>2. Arrived(s, FALSE) \in Event /\ ~Arrived(s, FALSE).whole
    BY <1>0, ArrivedEvent
  <2>3. ~Intact'
    BY <1>0, <2>1, <2>2, IntactGrows
  <2> QED
    BY <2>3 DEF FormInv
<1>5. ASSUME NEW s \in Events, EventError(s) PROVE FormInv'
  <2> DEFINE e == Arrived(s, TRUE)
  <2>1. /\ phase = "collect" /\ UpstreamMay(s) /\ received' = Append(received, e)
        /\ cause = "none" /\ cause' = "guard" /\ phase' = "flush"
        /\ UNCHANGED <<open, out>>
        /\ queue' = <<>> \/ queue' = held'
        /\ held' = held \/ (open # NoBlock /\ held' = Append(held, e))
    BY <1>0, <1>5 DEF EventError, Fail, QueueInv, Terminal
  <2>2. /\ e \in Event /\ e.ix \in Nat
        /\ Started \in Nat /\ Stops \in Nat
        /\ e.type \in Starts => e.ix = Started /\ Started = Stops
        /\ e.type \in {"delta", "stop"} => e.ix = Started - 1 /\ Started = Stops + 1
    BY <1>0, <2>1, Arrival
  <2> HIDE DEF e
  <2>3. SUFFICES ASSUME Intact' PROVE FormInv'
    BY DEF FormInv
  <2>4. Intact
    BY <1>0, <2>1, <2>2, <2>3, IntactGrows
  <2>5. /\ Formed(out)
        /\ open # NoBlock =>
             /\ Begun = Closed /\ Block(held, open) /\ held[Len(held)].type # "stop"
             /\ Started = open + 1 /\ Stops = open
    BY <2>1, <2>4 DEF FormInv, StopInv, OpenIsLast
  <2>6. held' = <<>> \/ (Begun = Closed /\ Block(held', open))
    <3>1. CASE open = NoBlock
      BY <1>0, <2>1, <3>1 DEF HeldInv
    <3>2. CASE open # NoBlock /\ held' = Append(held, e)
      <4>1. open \in Nat /\ held \in Seq(Event)
        BY <1>0, <3>2 DEF TypeOK, Indices
      <4>2. Within(e, open)
        BY <2>2, <2>5, <3>2, <4>1 DEF Within
      <4> QED
        BY <2>2, <2>5, <3>2, <4>1, <4>2, BlockAppend
    <3> QED
      BY <2>1, <2>5, <3>1, <3>2
  <2>7. UNCHANGED <<Begun, Closed>>
    BY <2>1 DEF Begun, Closed
  <2> QED
    BY <2>1, <2>5, <2>6, <2>7 DEF FormInv
<1>6. CASE GuardError \/ UpstreamError \/ UpstreamEnds
  <2>1. /\ UNCHANGED <<open, held, received, out>>
        /\ phase \in {"collect", "judge", "build"} /\ phase' \in {"flush"} \cup Terminal
        /\ cause = "none" /\ queue = <<>>
    BY <1>0, <1>6 DEF GuardError, UpstreamError, UpstreamEnds, Fail, heldVars, QueueInv, QuietQueue, Terminal
  <2>2. queue' = <<>> \/ queue' = held
    BY <1>6, <2>1 DEF GuardError, UpstreamError, UpstreamEnds, Fail, Unscreened
  <2>3. UNCHANGED <<Intact, Started, Stops, Begun, Closed>>
    BY <2>1, SameIntact DEF Begun, Closed
  <2>4. held = <<>> <=> open = NoBlock
    BY <1>0 DEF HeldInv
  <2>5. \A i : Has(out, i) => Has(out', i)
    BY <2>1 DEF Has
  <2>6. SUFFICES ASSUME Intact PROVE FormInv'
    BY <2>3 DEF FormInv
  <2>7. /\ Formed(out)
        /\ open = NoBlock => Begun + Stops = Closed + Started /\ (Started > Stops => Has(out, Started - 1))
        /\ open # NoBlock => Begun = Closed /\ Block(held, open)
    BY <2>1, <2>6 DEF FormInv
  <2>8. phase' \notin {"collect", "judge", "build", "release"}
    BY <2>1 DEF Terminal
  <2> QED
    BY <2>1, <2>2, <2>3, <2>4, <2>7, <2>8 DEF FormInv, Has
<1>7. CASE Judge \/ EndFlush \/ ClientGone \/ UNCHANGED vars
  <2>1. /\ UNCHANGED <<open, held, queue, cause, received, out>>
        /\ phase' \in {"collect", "judge", "build"} =>
             phase \in {"collect", "judge", "build"} /\ (phase' = "collect" <=> phase = "collect")
        /\ phase' = "release" => phase = "release"
    BY <1>7 DEF Judge, EndFlush, ClientGone, vars, heldVars
  <2>2. UNCHANGED <<Intact, Started, Stops, Begun, Closed>>
    BY <2>1, SameIntact DEF Begun, Closed
  <2> QED
    BY <2>1, <2>2 DEF FormInv, Has
<1> QED
  BY <1>1, <1>2, <1>3, <1>4, <1>5, <1>6, <1>7, ReceiveForm, YieldForm DEF Next, GuardStep, Over

(* When no event straddles two chunks, the blocks the client sees never    *)
(* overlap, whatever was released, replaced or dropped, and a reply that   *)
(* went through leaves none open but one the upstream left open.           *)
THEOREM BlocksNeverOverlap == Spec => []BlocksWellFormed
<1> DEFINE I == SpelledInv /\ RangeInv /\ SettledInv /\ StopInv /\ FormInv
<1>1. Init => I
  <2> SUFFICES ASSUME Init PROVE I
    OBVIOUS
  <2>1. SpelledInv /\ RangeInv /\ SettledInv /\ StopInv
    BY InitSettled, InitStop
  <2>2. out = <<>> /\ queue = <<>> /\ open = NoBlock /\ phase = "collect" /\ received = <<>>
    BY DEF Init
  <2>3. Begun = 0 /\ Closed = 0 /\ Started = 0 /\ Stops = 0
    <3>1. Cardinality({}) = 0
      BY FS_EmptySet
    <3> QED
      BY <2>2, <3>1, NothingOf DEF Begun, Closed, Started, Stops
  <2>4. Formed(out)
    BY <2>2, NothingOf DEF Formed
  <2>5. FormInv
    BY <2>2, <2>3, <2>4 DEF FormInv
  <2> QED
    BY <2>1, <2>5
<1>2. I /\ [Next]_vars => I'
  BY NextAInv, BlockStep, SpellStep, RangeStep, SettledStep, StopStep, FormStep DEF SpelledInv
<1>3. I => BlocksWellFormed
  <2> SUFFICES ASSUME I, Intact PROVE BlocksWellFormed
    BY DEF BlocksWellFormed
  <2>1. \A k : Opens(k) = Before(out, Starts, k) /\ Closes(k) = Before(out, {"stop"}, k)
    BY DEF Opens, Closes, Before, Starts
  <2>2. Formed(out)
    BY DEF FormInv
  <2>3. ASSUME Delivered, ~InBlock
        PROVE  Cardinality(Opens(Len(out) + 1)) = Cardinality(Closes(Len(out) + 1))
    <3>1. cause = "none" /\ open = NoBlock
      BY <2>3 DEF Delivered, SettledInv
    <3>2. Started <= Stops /\ Stops <= Started
      <4>1. Started <= Stops + 1 /\ Stops <= Started /\ ~(Started > Stops)
        BY <2>3 DEF SpelledInv, BlockInv, InBlock, Stops
      <4>2. Started \in Nat /\ Stops \in Nat
        <5>1. received \in Seq(Event)
          BY DEF SpelledInv, AInv, Inv, TypeOK
        <5> QED
          BY <5>1, CountIsNat DEF Started, Stops
      <4> QED
        BY <4>1, <4>2
    <3>3. out \in Seq(Event) /\ received \in Seq(Event)
      BY DEF SpelledInv, AInv, Inv, TypeOK
    <3>4. Begun \in Nat /\ Closed \in Nat /\ Started \in Nat /\ Stops \in Nat
      BY <3>3, CountIsNat DEF Begun, Closed, Started, Stops
    <3>5. Begun + Stops = Closed + Started
      BY <3>1 DEF FormInv
    <3>6. Begun = Closed
      BY <3>2, <3>4, <3>5
    <3>7. \A types : Before(out, types, Len(out) + 1) = Of(out, types)
      BY <3>3 DEF Before, Of
    <3> QED
      BY <2>1, <3>6, <3>7 DEF Begun, Closed
  <2> QED
    BY <2>1, <2>2, <2>3 DEF BlocksWellFormed, Formed, Starts
<1> QED
  BY <1>1, <1>2, <1>3, PTL DEF Spec
-----------------------------------------------------------------------------
(***************************************************************************)
(* The order of the events, when none straddles two chunks and nothing is  *)
(* blocked.                                                                *)
(***************************************************************************)

(* What the client has still to get of what was received.                  *)
Pending == IF phase = "release" THEN queue ELSE held
Sent    == Len(received) - Len(Pending)

OrderInv ==
  /\ stripped => ~NothingBlocked
  /\ \A n \in 1..Len(received) : received[n].n = n
  /\ Intact /\ cause = "none" /\ phase # "gone" /\ NothingBlocked =>
       /\ Sent \in Nat
       /\ InOrder(out, received, Sent)
       /\ \A k \in 1..Len(Pending) : Pending[k] = received[Sent + k]

LEMMA InOrderMore ==
  ASSUME NEW q \in Seq(Event), NEW e \in Event, NEW s, NEW m \in Nat, InOrder(q, s, m)
  PROVE  /\ e.n = 0 => InOrder(Append(q, e), s, m)
         /\ e.n = m + 1 /\ s[m + 1] = e => InOrder(Append(q, e), s, m + 1)
<1> DEFINE r == Append(q, e)
           l == Len(q)
           own == {k \in 1..l : q[k].n > 0}
           now == {k \in 1..Len(r) : r[k].n > 0}
<1>1. /\ l \in Nat /\ Len(r) = l + 1 /\ r[l + 1] = e
      /\ \A k \in 1..l : k \in 1..Len(r) /\ r[k] = q[k] /\ k < l + 1
      /\ \A k \in 1..Len(r) : k \in 1..l \/ k = l + 1
      /\ l + 1 \in 1..Len(r)
  OBVIOUS
<1>2. e.n \in Nat /\ \A k \in 1..l : q[k].n \in Nat
  <2>1. \A k \in 1..l : q[k] \in Event
    OBVIOUS
  <2> QED
    BY <2>1 DEF Event
<1> HIDE DEF r
<1>3. /\ \A k \in own : q[k].n \in 1..m /\ q[k] = s[q[k].n]
      /\ \A j, k \in own : j < k => q[j].n < q[k].n
      /\ \A n \in 1..m : \E k \in own : q[k].n = n
  BY DEF InOrder
<1>4. own \subseteq now /\ \A k \in own : r[k] = q[k] /\ k < l + 1 /\ k \in Nat
  BY <1>1
<1>5. \A k \in now : k \in own \/ (k = l + 1 /\ e.n > 0)
  BY <1>1
<1> HIDE DEF own, now, l
<1>6. ASSUME e.n = 0 PROVE InOrder(r, s, m)
  <2>1. now = own
    <3>1. \A k \in now : k \in own
      BY <1>2, <1>5, <1>6
    <3> QED
      BY <1>4, <3>1
  <2>2. /\ \A k \in now : r[k].n \in 1..m /\ r[k] = s[r[k].n]
        /\ \A j, k \in now : j < k => r[j].n < r[k].n
        /\ \A n \in 1..m : \E k \in now : r[k].n = n
    BY <1>3, <1>4, <2>1
  <2> QED
    BY <2>2 DEF InOrder, now
<1>7. ASSUME e.n = m + 1, s[m + 1] = e PROVE InOrder(r, s, m + 1)
  <2>1. l + 1 \in now /\ r[l + 1] = e
    BY <1>1, <1>7 DEF now
  <2>2. \A k \in now : r[k].n \in 1..(m + 1) /\ r[k] = s[r[k].n]
    <3> TAKE k \in now
    <3>1. CASE k \in own
      BY <1>3, <1>4, <3>1
    <3>2. CASE k = l + 1
      BY <1>7, <2>1, <3>2
    <3> QED
      BY <1>5, <3>1, <3>2
  <2>3. \A j, k \in now : j < k => r[j].n < r[k].n
    <3> SUFFICES ASSUME NEW j \in now, NEW k \in now, j < k PROVE r[j].n < r[k].n
      OBVIOUS
    <3>1. CASE j \in own /\ k \in own
      BY <1>3, <1>4, <3>1
    <3>2. CASE j \in own /\ k = l + 1
      <4>1. r[j].n \in 1..m
        BY <1>3, <1>4, <3>2
      <4> QED
        BY <1>7, <2>1, <3>2, <4>1
    <3>3. CASE j = l + 1
      BY <1>1, <1>4, <1>5, <3>3
    <3> QED
      BY <1>5, <3>1, <3>2, <3>3
  <2>4. \A n \in 1..(m + 1) : \E k \in now : r[k].n = n
    <3> TAKE n \in 1..(m + 1)
    <3>1. CASE n \in 1..m
      BY <1>3, <1>4, <3>1
    <3>2. CASE n = m + 1
      BY <1>7, <2>1, <3>2
    <3> QED
      BY <3>1, <3>2
  <2> QED
    BY <2>2, <2>3, <2>4 DEF InOrder, now
<1> QED
  BY <1>6, <1>7 DEF r

LEMMA InOrderKept ==
  ASSUME NEW q, NEW s, NEW r, NEW m \in Nat, InOrder(q, s, m), \A k \in 1..m : r[k] = s[k]
  PROVE  InOrder(q, r, m)
<1> DEFINE own == {k \in 1..Len(q) : q[k].n > 0}
<1>1. /\ \A k \in own : q[k].n \in 1..m /\ q[k] = s[q[k].n]
      /\ \A j, k \in own : j < k => q[j].n < q[k].n
      /\ \A n \in 1..m : \E k \in own : q[k].n = n
  BY DEF InOrder
<1>2. \A k \in own : q[k].n \in 1..m /\ q[k] = r[q[k].n]
  BY <1>1
<1> QED
  BY <1>1, <1>2 DEF InOrder

LEMMA ReceiveOrder ==
  ASSUME AInv, OrderInv, NEW s \in Events, Receive(s)
  PROVE  OrderInv'
<1> DEFINE e == Arrived(s, TRUE)
           n == Len(received)
<1>1. /\ TypeOK /\ HeldInv
      /\ phase = "collect" /\ received' = Append(received, e)
      /\ UNCHANGED <<cause, stripped, kept, verdicts>> /\ cause = "none"
      /\ phase' \in {"collect", "judge"}
  BY DEF AInv, Inv, QueueInv, Terminal, Receive, verdictVars
<1>2. e \in Event /\ e.n = n + 1
  BY <1>1, ArrivedEvent DEF Arrived
<1>3. /\ held \in Seq(Event) /\ out \in Seq(Event) /\ received \in Seq(Event) /\ n \in Nat
  BY <1>1 DEF TypeOK
<1> HIDE DEF e
<1>4. /\ Intact' <=> Intact /\ e.whole
      /\ Len(received') = n + 1 /\ received'[n + 1] = e
      /\ \A k \in 1..n : received'[k] = received[k]
      /\ \A k \in 1..(n + 1) : k \in 1..n \/ k = n + 1
  BY <1>1, <1>2, <1>3, IntactGrows
<1>5. \A k \in 1..Len(received') : received'[k].n = k
  BY <1>2, <1>3, <1>4 DEF OrderInv
<1>6. stripped' => ~NothingBlocked'
  BY <1>1 DEF OrderInv, NothingBlocked
<1>7. ASSUME Intact', NothingBlocked'
      PROVE  /\ Sent' \in Nat /\ InOrder(out', received', Sent')
             /\ \A k \in 1..Len(Pending') : Pending'[k] = received'[Sent' + k]
  <2>1. Intact /\ NothingBlocked /\ ~stripped
    BY <1>1, <1>4, <1>7 DEF OrderInv, NothingBlocked
  <2>2. Pending = held /\ Pending' = held'
    BY <1>1 DEF Pending
  <2>3. /\ Sent = n - Len(held) /\ Sent' = (n + 1) - Len(held')
    BY <1>4, <2>2 DEF Sent
  <2>4. /\ Sent \in Nat /\ InOrder(out, received, Sent)
        /\ \A k \in 1..Len(held) : held[k] = received[Sent + k]
    BY <1>1, <2>1, <2>2 DEF OrderInv
  <2>5. Sent <= n /\ Len(held) \in Nat
    BY <1>3, <2>3
  <2>6. InOrder(out, received', Sent)
    <3>1. \A k \in 1..Sent : received'[k] = received[k]
      BY <1>3, <1>4, <2>4, <2>5
    <3> QED
      BY <2>4, <3>1, InOrderKept
  <2>7. CASE open = NoBlock /\ e.type = "tool_start"
    <3>1. held = <<>> /\ held' = <<e>> /\ UNCHANGED out
      BY <1>1, <2>7 DEF Receive, e, HeldInv
    <3>2. Len(held) = 0 /\ Len(held') = 1 /\ held'[1] = e
      BY <3>1
    <3>3. Sent = n /\ Sent' = n
      BY <1>3, <2>3, <3>2
    <3>4. \A k \in 1..Len(held') : k = 1
      BY <3>2
    <3> QED
      BY <1>3, <1>4, <2>2, <2>6, <3>1, <3>2, <3>3, <3>4
  <2>8. CASE open = NoBlock /\ e.type # "tool_start"
    <3>1. held = <<>> /\ held' = held /\ out' = Append(out, e)
      BY <1>1, <2>1, <2>8 DEF Receive, e, HeldInv, EndTurn
    <3>2. Len(held) = 0 /\ Len(held') = 0
      BY <3>1
    <3>3. Sent = n /\ Sent' = n + 1
      BY <1>3, <2>3, <3>2
    <3>4. InOrder(Append(out, e), received', n + 1)
      BY <1>2, <1>3, <1>4, <2>6, <3>3, InOrderMore
    <3> QED
      BY <1>3, <2>2, <3>1, <3>2, <3>3, <3>4
  <2>9. CASE open # NoBlock
    <3>1. held' = Append(held, e) /\ UNCHANGED out
      BY <2>9 DEF Receive, e
    <3>2. /\ Len(held') = Len(held) + 1 /\ held'[Len(held) + 1] = e
          /\ \A k \in 1..Len(held) : held'[k] = held[k]
      BY <1>2, <1>3, <3>1
    <3>3. Sent' = Sent /\ Sent + Len(held) = n
      BY <1>3, <2>3, <2>5, <3>2
    <3>4. \A k \in 1..Len(held') : held'[k] = received'[Sent + k]
      <4> TAKE k \in 1..Len(held')
      <4>1. CASE k \in 1..Len(held)
        <5>1. Sent + k \in 1..n
          BY <1>3, <2>4, <2>5, <3>3, <4>1
        <5> QED
          BY <1>4, <2>4, <3>2, <4>1, <5>1
      <4>2. CASE k = Len(held) + 1
        <5>1. Sent + k = n + 1
          <6>1. Sent \in Nat /\ Len(held) \in Nat /\ Sent + Len(held) = n
            BY <2>4, <2>5, <3>3
          <6> HIDE DEF n
          <6> QED
            BY <4>2, <6>1
        <5> QED
          BY <1>4, <3>2, <4>2, <5>1
      <4> QED
        BY <2>5, <3>2, <4>1, <4>2
    <3> QED
      BY <2>2, <2>4, <2>6, <3>1, <3>3, <3>4
  <2> QED
    BY <2>7, <2>8, <2>9
<1> QED
  BY <1>5, <1>6, <1>7 DEF OrderInv

LEMMA OrderStep ==
  ASSUME AInv, SettledInv, OrderInv, [Next]_vars
  PROVE  OrderInv'
<1>0. TypeOK /\ HeldInv /\ QueueInv
  BY DEF AInv, Inv
<1>1. ASSUME NEW s \in Events, NEW w \in BOOLEAN,
             received' = Append(received, Arrived(s, w)), UNCHANGED <<stripped, verdicts>>,
             ~w \/ cause' # "none"
      PROVE  OrderInv'
  <2> DEFINE e == Arrived(s, w)
  <2>1. e \in Event /\ e.n = Len(received) + 1 /\ (e.whole <=> w) /\ Len(received) \in Nat
    BY <1>0, ArrivedEvent DEF Arrived, TypeOK
  <2> HIDE DEF e
  <2>2. /\ Intact' <=> Intact /\ e.whole
        /\ Len(received') = Len(received) + 1 /\ received'[Len(received) + 1] = e
        /\ \A k \in 1..Len(received) : received'[k] = received[k]
    BY <1>0, <1>1, <2>1, IntactGrows DEF e
  <2>3. \A k \in 1..Len(received') : k \in 1..Len(received) \/ k = Len(received) + 1
    BY <2>1, <2>2
  <2>4. \A k \in 1..Len(received') : received'[k].n = k
    BY <2>1, <2>2, <2>3 DEF OrderInv
  <2>5. stripped' => ~NothingBlocked'
    BY <1>1 DEF OrderInv, NothingBlocked
  <2> QED
    BY <1>1, <2>1, <2>2, <2>4, <2>5 DEF OrderInv
<1>2. ASSUME NEW s \in Events, Straddle(s) \/ EventError(s) PROVE OrderInv'
  <2>1. \/ received' = Append(received, Arrived(s, FALSE)) /\ UNCHANGED <<stripped, verdicts>>
        \/ received' = Append(received, Arrived(s, TRUE)) /\ UNCHANGED <<stripped, verdicts>> /\ cause' = "guard"
    BY <1>2 DEF Straddle, EventError, Fail, heldVars, verdictVars
  <2> QED
    BY <1>1, <2>1
<1>3. CASE Stall
  <2>1. /\ out' = Append(out, Ping)
        /\ UNCHANGED <<phase, held, stripped, queue, cause, received, verdicts>>
    BY <1>3 DEF Stall, heldVars, verdictVars
  <2>2. Ping \in Event /\ Ping.n = 0 /\ out \in Seq(Event)
    BY <1>0, BoundsAssumption DEF Ping, Made, Event, Types, Indices, Reasons, TypeOK
  <2>3. UNCHANGED <<Intact, NothingBlocked, Pending, Sent>>
    BY <2>1, SameIntact DEF NothingBlocked, Pending, Sent
  <2>4. Sent \in Nat /\ InOrder(out, received, Sent) => InOrder(out', received, Sent)
    BY <2>1, <2>2, InOrderMore
  <2> QED
    BY <2>1, <2>3, <2>4 DEF OrderInv
<1>4. CASE Judge
  <2>1. /\ phase = "judge" /\ phase' = "build" /\ open \notin DOMAIN verdicts
        /\ UNCHANGED <<held, stripped, queue, cause, received, out>>
        /\ DOMAIN verdicts' = DOMAIN verdicts \cup {open}
        /\ \A i \in DOMAIN verdicts : verdicts'[i] = verdicts[i]
    BY <1>0, <1>4 DEF Judge, heldVars, HeldInv
  <2>2. NothingBlocked' => NothingBlocked
    BY <2>1 DEF NothingBlocked
  <2>3. UNCHANGED <<Intact, Pending, Sent>>
    BY <2>1, SameIntact DEF Pending, Sent
  <2> QED
    BY <2>1, <2>2, <2>3 DEF OrderInv
<1>5. CASE Build
  <2>1. /\ phase = "build" /\ phase' = "release" /\ open \in DOMAIN verdicts
        /\ queue' = (IF verdicts[open] = "block" THEN Replacement(open) ELSE held)
        /\ stripped' => stripped \/ verdicts[open] = "block"
        /\ UNCHANGED <<held, cause, received, out, verdicts>>
    BY <1>0, <1>5 DEF Build, verdictVars, HeldInv
  <2>2. UNCHANGED <<Intact, NothingBlocked>>
    BY <2>1, SameIntact DEF NothingBlocked
  <2>3. verdicts[open] = "block" => ~NothingBlocked
    BY <2>1 DEF NothingBlocked
  <2>4. NothingBlocked => UNCHANGED <<Pending, Sent>>
    BY <2>1, <2>3 DEF Pending, Sent
  <2> QED
    BY <2>1, <2>2, <2>3, <2>4 DEF OrderInv
<1>6. CASE Yield
  <2> DEFINE e == Head(queue)
  <2>1. /\ phase \in {"release", "flush"} /\ queue # <<>> /\ queue \in Seq(Event) /\ out \in Seq(Event)
        /\ out' = Append(out, e) /\ queue' = Tail(queue)
        /\ UNCHANGED <<phase, held, stripped, cause, received, verdicts>>
        /\ cause = "none" => phase = "release"
    BY <1>0, <1>6 DEF TypeOK, Yield, heldVars, verdictVars, QueueInv, Opened
  <2>2. UNCHANGED <<Intact, NothingBlocked>>
    BY <2>1, SameIntact DEF NothingBlocked
  <2>3. ASSUME Intact, cause = "none", NothingBlocked
        PROVE  /\ Sent' \in Nat /\ InOrder(out', received, Sent')
               /\ \A k \in 1..Len(Pending') : Pending'[k] = received[Sent' + k]
    <3>1. phase = "release" /\ Pending = queue /\ Pending' = queue'
      BY <2>1, <2>3 DEF Pending
    <3>2. /\ e = queue[1] /\ e \in Event /\ 1 \in 1..Len(queue) /\ Len(queue') = Len(queue) - 1
          /\ Len(queue) \in Nat /\ Len(received) \in Nat
          /\ \A k \in 1..Len(queue') : queue'[k] = queue[k + 1] /\ k + 1 \in 1..Len(queue)
      BY <1>0, <2>1 DEF TypeOK
    <3>3. /\ Sent \in Nat /\ InOrder(out, received, Sent)
          /\ \A k \in 1..Len(queue) : queue[k] = received[Sent + k]
      BY <2>3, <3>1 DEF OrderInv
    <3>4. Sent = Len(received) - Len(queue) /\ Sent' = Len(received) - Len(queue')
      BY <2>1, <3>1 DEF Sent
    <3>5. Sent' = Sent + 1 /\ Sent + 1 \in 1..Len(received)
      BY <3>2, <3>3, <3>4
    <3> HIDE DEF e
    <3>6. e = received[Sent + 1] /\ e.n = Sent + 1
      BY <3>2, <3>3, <3>5 DEF OrderInv
    <3>7. InOrder(Append(out, e), received, Sent + 1)
      BY <2>1, <3>2, <3>3, <3>6, InOrderMore
    <3>8. \A k \in 1..Len(queue') : queue'[k] = received[Sent + 1 + k]
      <4> TAKE k \in 1..Len(queue')
      <4>1. queue'[k] = received[Sent + (k + 1)]
        BY <3>2, <3>3
      <4>2. Sent + (k + 1) = Sent + 1 + k
        BY <3>3
      <4> QED
        BY <4>1, <4>2
    <3> QED
      BY <2>1, <3>1, <3>3, <3>5, <3>7, <3>8
  <2> QED
    BY <2>1, <2>2, <2>3 DEF OrderInv
<1>7. CASE EndRelease
  <2>1. /\ phase = "release" /\ phase' = "collect" /\ queue = <<>> /\ held' = <<>>
        /\ UNCHANGED <<stripped, queue, cause, received, out, verdicts>>
    BY <1>7 DEF EndRelease, verdictVars
  <2>2. UNCHANGED <<Intact, NothingBlocked, Pending, Sent>>
    BY <2>1, SameIntact DEF NothingBlocked, Pending, Sent
  <2> QED
    BY <2>1, <2>2 DEF OrderInv
<1>8. CASE UpstreamEnds \/ EndFlush \/ UNCHANGED vars
  <2>1. /\ UNCHANGED <<held, stripped, received, out, verdicts>>
        /\ \/ phase # "release" /\ phase' # "release"
           \/ UNCHANGED <<phase, queue>>
        /\ cause' = "none" => cause = "none" /\ (phase = "gone" => phase' = "gone")
    BY <1>0, <1>8 DEF UpstreamEnds, EndFlush, vars, heldVars, verdictVars, QueueInv, Terminal
  <2>2. UNCHANGED <<Intact, NothingBlocked, Pending, Sent>>
    BY <2>1, SameIntact DEF NothingBlocked, Pending, Sent
  <2> QED
    BY <2>1, <2>2 DEF OrderInv
<1>9. CASE ClientGone \/ GuardError \/ UpstreamError
  <2>1. /\ UNCHANGED <<stripped, received, verdicts>>
        /\ cause' # "none" \/ phase' = "gone"
    BY <1>9 DEF ClientGone, GuardError, UpstreamError, Fail, heldVars, verdictVars
  <2>2. UNCHANGED <<Intact, NothingBlocked>>
    BY <2>1, SameIntact DEF NothingBlocked
  <2> QED
    BY <2>1, <2>2 DEF OrderInv
<1> QED
  BY <1>2, <1>3, <1>4, <1>5, <1>6, <1>7, <1>8, <1>9, ReceiveOrder DEF Next, GuardStep, Over

(* When no event straddles two chunks, a reply nothing was blocked in      *)
(* reaches the client as it came: every event, once and in order.          *)
THEOREM NothingBlockedPassesThrough == Spec => []PassThrough
<1> DEFINE I == SpelledInv /\ RangeInv /\ SettledInv /\ OrderInv
<1>1. Init => I
  <2> SUFFICES ASSUME Init PROVE I
    OBVIOUS
  <2>1. Len(received) = 0 /\ Len(held) = 0 /\ Len(out) = 0 /\ stripped = FALSE /\ phase = "collect"
    BY DEF Init
  <2>2. Pending = held /\ Sent = 0
    <3>1. Pending = held
      BY <2>1 DEF Pending
    <3>2. Sent = Len(received) - Len(held)
      BY <3>1 DEF Sent
    <3> QED
      BY <2>1, <3>1, <3>2
  <2>3. InOrder(out, received, 0)
    BY <2>1 DEF InOrder
  <2>4. OrderInv
    BY <2>1, <2>2, <2>3 DEF OrderInv
  <2> QED
    BY <2>4, InitSettled
<1>2. I /\ [Next]_vars => I'
  BY NextAInv, BlockStep, SpellStep, RangeStep, SettledStep, OrderStep DEF SpelledInv
<1>3. I => PassThrough
  <2> SUFFICES ASSUME I, Delivered, Intact, NothingBlocked
               PROVE  InOrder(out, received, Len(received))
    BY DEF PassThrough
  <2>1. cause = "none" /\ phase = "done" /\ open = NoBlock
    BY DEF Delivered, SettledInv
  <2>2. held = <<>> /\ Len(received) \in Nat
    BY <2>1 DEF SpelledInv, AInv, Inv, HeldInv, TypeOK
  <2>3. Sent = Len(received)
    BY <2>1, <2>2 DEF Sent, Pending
  <2> QED
    BY <2>1, <2>3 DEF OrderInv
<1> QED
  BY <1>1, <1>2, <1>3, PTL DEF Spec
=============================================================================
