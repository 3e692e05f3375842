-------------------------- MODULE LeakAuditProofs --------------------------
(***************************************************************************)
(* Theorems about LeakAudit, for any sessions, upstreams, secrets and      *)
(* times, and any margin of the join.                                      *)
(***************************************************************************)
EXTENDS LeakAudit, SequenceLemmas

(* Rows are true, in order of time, and those of a session in the order of *)
(* its requests.                                                           *)
RowsTrue ==
  \A i \in 1..Len(rows) :
    /\ rows[i].ts <= now
    /\ rows[i].session \in Sessions =>
         /\ rows[i].request \in 1..Len(served[rows[i].session])
         /\ rows[i].base = served[rows[i].session][rows[i].request]

RowsInOrder ==
  \A i, j \in 1..Len(rows) : i < j =>
    /\ rows[i].ts <= rows[j].ts
    /\ rows[i].session \in Sessions /\ rows[i].session = rows[j].session =>
         rows[i].request < rows[j].request

(* A request that waits for its reply has no row yet.                      *)
Waiting ==
  \A s \in Sessions :
    /\ stage[s] # "user" => served[s] # <<>>
    /\ stage[s] = "reply" =>
         \A i \in 1..Len(rows) : rows[i].session = s => rows[i].request < Len(served[s])

(* A result is older than the rows of the requests behind it.              *)
PartsBefore ==
  \A h \in parts :
    /\ h.ts <= now
    /\ h.request >= 1
    /\ \A i \in 1..Len(rows) :
         rows[i].session = h.session /\ rows[i].request > h.request => h.ts <= rows[i].ts

LInv == TypeOK /\ RowsTrue /\ RowsInOrder /\ Waiting /\ PartsBefore

LEMMA InitLInv == Init => LInv
<1> SUFFICES ASSUME Init PROVE LInv
  OBVIOUS
<1>1. TypeOK
  BY TimesAssumption DEF Init, TypeOK
<1> QED
  BY <1>1 DEF Init, LInv, RowsTrue, RowsInOrder, Waiting, PartsBefore

LEMMA RowTyped ==
  ASSUME TypeOK, NEW i \in 1..Len(rows)
  PROVE  rows[i].ts \in Nat /\ rows[i].base \in Upstreams
<1>1. rows[i] \in Row
  BY DEF TypeOK
<1> QED
  BY <1>1 DEF Row

LEMMA TickLInv ==
  ASSUME LInv, Tick
  PROVE  LInv'
<1>1. now \in Nat /\ now' = now + 1 /\ UNCHANGED <<conf, stage, called, served, rows, parts>>
  BY TimesAssumption DEF LInv, TypeOK, Tick, harnessVars
<1>2. \A i \in 1..Len(rows) : rows[i].ts \in Nat
  BY RowTyped DEF LInv
<1>3. \A h \in parts : h.ts \in Nat
  BY DEF LInv, TypeOK, Part
<1>4. TypeOK'
  BY <1>1, TimesAssumption DEF Tick, LInv, TypeOK
<1>5. RowsTrue' /\ PartsBefore'
  BY <1>1, <1>2, <1>3 DEF LInv, RowsTrue, PartsBefore
<1> QED
  BY <1>1, <1>4, <1>5 DEF LInv, RowsInOrder, Waiting

LEMMA AskLInv ==
  ASSUME LInv, NEW s \in Sessions, NEW u \in Upstreams, Ask(s, u)
  PROVE  LInv'
<1>1. /\ stage' = [stage EXCEPT ![s] = "reply"]
      /\ served' = [served EXCEPT ![s] = Append(served[s], u)]
      /\ UNCHANGED <<conf, now, called, rows, parts>>
  BY DEF Ask
<1>2. served \in [Sessions -> Seq(Upstreams)] /\ stage \in [Sessions -> {"user", "reply", "tools"}]
  BY DEF LInv, TypeOK
<1>3. Append(served[s], u) \in Seq(Upstreams) /\ Append(served[s], u) # <<>>
  <2>1. served[s] \in Seq(Upstreams)
    BY <1>2
  <2>2. Append(served[s], u) \in Seq(Upstreams) /\ Len(Append(served[s], u)) = Len(served[s]) + 1
    BY <2>1
  <2>3. Len(served[s]) + 1 # 0
    BY <2>1
  <2> QED
    BY <2>2, <2>3
<1>4. TypeOK'
  BY <1>1, <1>2, <1>3 DEF LInv, TypeOK
<1>5. \A t \in Sessions : \A r \in 1..Len(served[t]) :
        r \in 1..Len(served'[t]) /\ served'[t][r] = served[t][r]
  BY <1>1, <1>2
<1>6. RowsTrue'
  BY <1>1, <1>5 DEF LInv, RowsTrue
<1>7. Waiting'
  <2>1. \A i \in 1..Len(rows) : rows[i].session = s => rows[i].request < Len(served'[s])
    BY <1>1, <1>2 DEF LInv, RowsTrue
  <2> QED
    BY <1>1, <1>2, <1>3, <2>1 DEF LInv, Waiting
<1> QED
  BY <1>1, <1>4, <1>6, <1>7 DEF LInv, RowsInOrder, PartsBefore

LEMMA ReplyTextLInv ==
  ASSUME LInv, NEW s \in Sessions, ReplyText(s)
  PROVE  LInv'
<1>1. stage' = [stage EXCEPT ![s] = "user"] /\ UNCHANGED <<conf, now, called, served, rows, parts>>
  BY DEF ReplyText
<1>2. TypeOK' /\ Waiting'
  BY <1>1 DEF LInv, TypeOK, Waiting
<1> QED
  BY <1>1, <1>2 DEF LInv, RowsTrue, RowsInOrder, PartsBefore

(* A row that is written is that of the last request, and comes last.      *)
LEMMA ReplyCallsLInv ==
  ASSUME LInv, NEW s \in Sessions, ReplyCalls(s)
  PROVE  LInv'
<1> DEFINE n   == Len(rows)
           row == [session |-> SessionId(s), ts |-> now,
                   base |-> served[s][Len(served[s])], request |-> Len(served[s])]
<1>1. /\ stage[s] = "reply"
      /\ stage' = [stage EXCEPT ![s] = "tools"]
      /\ called' = [called EXCEPT ![s] = now]
      /\ UNCHANGED <<conf, now, served, parts>>
      /\ rows' = rows \/ rows' = Append(rows, row)
  BY DEF ReplyCalls, Record
<1>2. /\ stage \in [Sessions -> {"user", "reply", "tools"}]
      /\ served[s] \in Seq(Upstreams) /\ served[s] # <<>>
      /\ now \in Nat /\ rows \in Seq(Row) /\ n \in Nat
      /\ called' \in [Sessions -> 0..MaxTime]
  BY <1>1, TimesAssumption DEF LInv, TypeOK, Waiting
<1>3. Len(served[s]) \in Nat \ {0} /\ served[s][Len(served[s])] \in Upstreams
  BY <1>2
<1>4. SessionId(s) \in {s, NoRow} /\ NoRow \notin Sessions
  BY NamesAssumption DEF SessionId
<1>5. row \in Row
  BY <1>2, <1>3, <1>4 DEF Row
<1>6. CASE rows' = rows
  <2>1. TypeOK' /\ Waiting'
    BY <1>1, <1>2, <1>6 DEF LInv, TypeOK, Waiting
  <2> QED
    BY <1>1, <1>6, <2>1 DEF LInv, RowsTrue, RowsInOrder, PartsBefore
<1>7. CASE rows' = Append(rows, row)
  <2>1. /\ row.ts = now /\ row.request = Len(served[s])
        /\ row.session \in Sessions => row.session = s /\ row.base = served[s][Len(served[s])]
    BY <1>4
  <2> HIDE DEF row
  <2>2. /\ rows' \in Seq(Row) /\ Len(rows') = n + 1
        /\ \A i \in 1..n : rows'[i] = rows[i]
        /\ rows'[n + 1] = row
    BY <1>2, <1>5, <1>7
  <2>3. \A i \in 1..Len(rows') : i = n + 1 \/ i \in 1..n
    BY <1>2, <2>2
  <2>4. TypeOK'
    BY <1>1, <1>2, <2>2 DEF LInv, TypeOK
  <2>5. RowsTrue'
    <3>1. ASSUME NEW i \in 1..n
          PROVE  /\ rows'[i].ts <= now'
                 /\ rows'[i].session \in Sessions =>
                      /\ rows'[i].request \in 1..Len(served'[rows'[i].session])
                      /\ rows'[i].base = served'[rows'[i].session][rows'[i].request]
      BY <1>1, <2>2 DEF LInv, RowsTrue
    <3>2. /\ row.ts <= now'
          /\ row.session \in Sessions =>
               /\ row.request \in 1..Len(served'[row.session])
               /\ row.base = served'[row.session][row.request]
      BY <1>1, <1>2, <1>3, <2>1
    <3> QED
      BY <2>2, <2>3, <3>1, <3>2 DEF RowsTrue
  <2>6. RowsInOrder'
    <3>1. ASSUME NEW i \in 1..n
          PROVE  /\ rows[i].ts <= row.ts
                 /\ rows[i].session \in Sessions /\ rows[i].session = row.session =>
                      rows[i].request < row.request
      BY <1>1, <2>1 DEF LInv, RowsTrue, Waiting
    <3>2. \A i, j \in 1..Len(rows') : i < j => i \in 1..n /\ (j \in 1..n \/ j = n + 1)
      BY <1>2, <2>2
    <3> QED
      BY <2>2, <3>1, <3>2 DEF LInv, RowsInOrder
  <2>7. Waiting'
    BY <1>1, <1>2, <1>4, <2>1, <2>2, <2>3 DEF LInv, Waiting
  <2>8. PartsBefore'
    BY <1>1, <2>1, <2>2, <2>3 DEF LInv, PartsBefore
  <2> QED
    BY <2>4, <2>5, <2>6, <2>7, <2>8 DEF LInv
<1> QED
  BY <1>1, <1>6, <1>7

LEMMA ToolResultLInv ==
  ASSUME LInv, NEW s \in Sessions, NEW ks \in SUBSET Keys, NEW ts \in 0..now, ToolResult(s, ks, ts)
  PROVE  LInv'
<1> DEFINE part == [session |-> s, ts |-> ts, keys |-> ks, request |-> Len(served[s])]
<1>1. /\ stage[s] = "tools"
      /\ stage' = [stage EXCEPT ![s] = "user"]
      /\ UNCHANGED <<conf, now, called, served, rows>>
      /\ parts' = parts \/ parts' = parts \cup {part}
  BY DEF ToolResult
<1>2. /\ now \in Nat /\ served[s] \in Seq(Upstreams) /\ served[s] # <<>>
      /\ stage \in [Sessions -> {"user", "reply", "tools"}]
  BY <1>1, TimesAssumption DEF LInv, TypeOK, Waiting
<1>3. part \in Part /\ part.request >= 1
  BY <1>2 DEF Part
<1>4. TypeOK' /\ Waiting'
  BY <1>1, <1>3 DEF LInv, TypeOK, Waiting
<1>5. \A i \in 1..Len(rows) : rows[i].session = s => ~(rows[i].request > Len(served[s]))
  BY <1>2 DEF LInv, RowsTrue
<1>6. PartsBefore'
  BY <1>1, <1>2, <1>3, <1>5 DEF LInv, PartsBefore
<1> QED
  BY <1>1, <1>4, <1>6 DEF LInv, RowsTrue, RowsInOrder

LEMMA NextLInv ==
  ASSUME LInv, [Next]_vars
  PROVE  LInv'
<1>1. CASE UNCHANGED vars
  BY <1>1 DEF vars, harnessVars, LInv, TypeOK, RowsTrue, RowsInOrder, Waiting, PartsBefore
<1> QED
  BY <1>1, TickLInv, AskLInv, ReplyTextLInv, ReplyCallsLInv, ToolResultLInv DEF Next
-----------------------------------------------------------------------------
(* What the audit sees of the rows is nothing, or all of them.             *)
LEMMA VisibleRows ==
  ASSUME LInv
  PROVE  /\ Visible \in Seq(Row)
         /\ \A i \in 1..Len(Visible) : Visible = rows
<1>1. rows \in Seq(Row)
  BY DEF LInv, TypeOK
<1> QED
  BY <1>1 DEF Visible

(* Rows are in order of time, so the row a hit is joined with is the first *)
(* that matches.                                                           *)
LEMMA JoinedIsFirst ==
  ASSUME LInv, NEW h \in parts, Matches(h) # {}
  PROVE  Joined(h) \in Matches(h) /\ \A l \in Matches(h) : Joined(h) <= l
<1>1. Matches(h) \subseteq 1..Len(Visible) /\ Len(Visible) \in Nat
  BY VisibleRows DEF Matches
<1>2. PICK n \in Matches(h) : \A l \in Matches(h) : n <= l
  BY <1>1, LeastNumber
<1>3. \A i, j \in Matches(h) : i < j => Visible[i].ts <= Visible[j].ts
  BY <1>1, VisibleRows DEF LInv, RowsInOrder
<1>4. \A i \in Matches(h) : Visible[i].ts \in Nat
  BY <1>1, VisibleRows, RowTyped DEF LInv
<1> DEFINE First(j) == \A l \in Matches(h) :
             Visible[j].ts < Visible[l].ts \/ (Visible[j].ts = Visible[l].ts /\ j <= l)
<1>5. First(n)
  BY <1>1, <1>2, <1>3, <1>4
<1>6. Joined(h) \in Matches(h) /\ First(Joined(h))
  BY <1>5 DEF Joined
<1>7. ASSUME NEW l \in Matches(h) PROVE Joined(h) <= l
  BY <1>1, <1>3, <1>4, <1>6, <1>7
<1> QED
  BY <1>6, <1>7

(* The row a hit is joined with is of its session, and says who served it. *)
LEMMA JoinedIsTrue ==
  ASSUME LInv, NEW h \in parts, Matches(h) # {}
  PROVE  /\ h.session \in Sessions
         /\ Visible = rows /\ Joined(h) \in 1..Len(rows)
         /\ rows[Joined(h)].session = h.session
         /\ rows[Joined(h)].request \in 1..Len(served[h.session])
         /\ rows[Joined(h)].base = served[h.session][rows[Joined(h)].request]
<1>1. h.session \in Sessions
  BY DEF LInv, TypeOK, Part
<1>2. Joined(h) \in 1..Len(Visible) /\ Visible[Joined(h)].session = h.session
  BY JoinedIsFirst DEF Matches
<1>3. Visible = rows
  BY <1>2, VisibleRows
<1> QED
  BY <1>1, <1>2, <1>3 DEF LInv, RowsTrue

(* The audit blames an intermediary only if it served the session in which *)
(* the secret was found, whatever other sessions do and whatever rows the  *)
(* ledger has lost.                                                        *)
THEOREM BlamesOnlyWhoServed == Spec => []NoFalseAlarm
<1>1. LInv => NoFalseAlarm
  <2> SUFFICES ASSUME LInv, NEW key \in Keys, Crossed(key)
               PROVE  \E h \in parts :
                        /\ key \in h.keys
                        /\ \E r \in 1..Len(served[h.session]) : served[h.session][r] \in Bases \ FirstParty
    BY DEF NoFalseAlarm
  <2>1. PICK h \in parts : key \in h.keys /\ Upstream(h) \notin FirstParty \cup {NoRow}
    BY DEF Crossed, Hits, IsIntermediary
  <2>2. Matches(h) # {} /\ Visible[Joined(h)].base # NoBase /\ Upstream(h) = Visible[Joined(h)].base
    BY <2>1 DEF Upstream
  <2> DEFINE r == rows[Joined(h)].request
  <2>3. /\ h.session \in Sessions /\ r \in 1..Len(served[h.session])
        /\ Upstream(h) = served[h.session][r]
    BY <2>2, JoinedIsTrue
  <2>4. served[h.session] \in Seq(Upstreams)
    BY <2>3 DEF LInv, TypeOK
  <2>5. Upstream(h) \in Bases \ FirstParty
    BY <2>1, <2>2, <2>3, <2>4 DEF Upstreams
  <2> QED
    BY <2>1, <2>3, <2>5
<1> QED
  BY <1>1, InitLInv, NextLInv, PTL DEF Spec

(* A hit that is not too close to an earlier row is joined with the row of *)
(* the next request, if there is one, and that names its upstream; a hit   *)
(* without a label had no row behind it, or one of an upstream unknown.    *)
THEOREM JoinsNextRequest == Spec => []NamesNextUpstream
<1>1. LInv => NamesNextUpstream
  <2> SUFFICES ASSUME LInv, NEW h \in Hits
               PROVE  /\ Recorded(h) /\ ~TooClose(h) => Upstream(h) = Answer(h)
                      /\ Upstream(h) = NoRow =>
                           \A r \in NextRequest(h)..Len(served[h.session]) : Of(h.session, r) = {} \/
                             \E q \in 1..r : Of(h.session, q) # {} /\ served[h.session][q] = NoBase
    BY DEF NamesNextUpstream
  <2>1. /\ h \in parts /\ h.session \in Sessions /\ h.request \in Nat \ {0} /\ h.ts \in Nat
        /\ Margin \in Nat
    BY TimesAssumption DEF Hits, LInv, TypeOK, Part, PartsBefore
  <2>2. ASSUME NEW r \in Nat, r > h.request, NEW i \in Of(h.session, r)
        PROVE  i \in Matches(h) /\ Visible = rows
    <3>1. i \in 1..Len(Visible) /\ Visible[i].session = h.session /\ Visible[i].request = r
      BY DEF Of
    <3>2. Visible = rows /\ rows[i].ts \in Nat
      BY <3>1, VisibleRows, RowTyped DEF LInv
    <3>3. h.ts <= rows[i].ts
      BY <2>1, <2>2, <3>1, <3>2 DEF LInv, PartsBefore
    <3> QED
      BY <2>1, <3>1, <3>2, <3>3 DEF Matches
  <2>3. ASSUME Recorded(h), ~TooClose(h) PROVE Upstream(h) = Answer(h)
    <3> DEFINE j == Joined(h)
    <3>1. NextRequest(h) \in Nat /\ NextRequest(h) > h.request
      BY <2>1 DEF NextRequest
    <3>2. PICK i \in Of(h.session, NextRequest(h)) : TRUE
      BY <2>3 DEF Recorded
    <3>3. i \in Matches(h) /\ Visible = rows
      BY <2>2, <3>1, <3>2
    <3>4. /\ j \in 1..Len(rows) /\ rows[j].session = h.session
          /\ rows[j].request \in 1..Len(served[h.session])
          /\ rows[j].base = served[h.session][rows[j].request]
      BY <2>1, <3>3, JoinedIsTrue
    <3>5. j \in Matches(h) /\ j <= i
      BY <2>1, <3>3, JoinedIsFirst
    <3>6. i \in 1..Len(rows) /\ rows[i].session = h.session /\ rows[i].request = NextRequest(h)
      BY <3>2, <3>3 DEF Of
    <3>7. rows[j].request > h.request
      <4> SUFFICES ASSUME ~(rows[j].request > h.request) PROVE FALSE
        OBVIOUS
      <4>1. rows[j].request \in 1..h.request /\ j \in Of(h.session, rows[j].request)
        BY <2>1, <3>3, <3>4 DEF Of
      <4>2. Visible[j].ts + Margin >= h.ts
        BY <3>5 DEF Matches
      <4> QED
        BY <2>3, <4>1, <4>2 DEF TooClose
    <3>8. rows[j].request <= rows[i].request
      BY <2>1, <3>1, <3>4, <3>5, <3>6 DEF LInv, RowsInOrder
    <3>9. rows[j].request = NextRequest(h)
      BY <2>1, <3>4, <3>6, <3>7, <3>8 DEF NextRequest
    <3> HIDE DEF j
    <3> QED
      BY <3>3, <3>4, <3>9 DEF Upstream, Answer, j
  <2>4. ASSUME Upstream(h) = NoRow,
               NEW r \in NextRequest(h)..Len(served[h.session]), Of(h.session, r) # {}
        PROVE  \E q \in 1..r : Of(h.session, q) # {} /\ served[h.session][q] = NoBase
    <3> DEFINE j == Joined(h)
    <3>1. r \in Nat /\ r > h.request
      BY <2>1 DEF NextRequest
    <3>2. PICK i \in Of(h.session, r) : TRUE
      BY <2>4
    <3>3. i \in Matches(h) /\ Visible = rows
      BY <2>2, <3>1, <3>2
    <3>4. /\ j \in 1..Len(rows) /\ rows[j].session = h.session
          /\ rows[j].request \in 1..Len(served[h.session])
          /\ rows[j].base = served[h.session][rows[j].request]
      BY <2>1, <3>3, JoinedIsTrue
    <3>5. j \in Matches(h) /\ j <= i
      BY <2>1, <3>3, JoinedIsFirst
    <3>6. i \in 1..Len(rows) /\ rows[i].session = h.session /\ rows[i].request = r
      BY <3>2, <3>3 DEF Of
    <3>7. rows[j].request <= r
      BY <2>1, <3>4, <3>5, <3>6 DEF LInv, RowsInOrder
    <3>8. rows[j].base = NoBase
      <4>1. rows[j].base \in Upstreams
        BY <3>4, RowTyped DEF LInv
      <4>2. rows[j].base # NoRow
        BY <4>1, NamesAssumption
      <4> QED
        BY <2>4, <3>3, <4>2 DEF Upstream
    <3>9. j \in Of(h.session, rows[j].request)
      BY <3>3, <3>4 DEF Of
    <3>10. rows[j].request \in 1..r
      BY <3>1, <3>4, <3>7
    <3> QED
      BY <3>4, <3>8, <3>9, <3>10
  <2> QED
    BY <2>3, <2>4
<1> QED
  BY <1>1, InitLInv, NextLInv, PTL DEF Spec
=============================================================================
