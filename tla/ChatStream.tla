----------------------------- MODULE ChatStream -----------------------------
(***************************************************************************)
(* GuardHook._stream_chat (guard/hooks.py): the handler that screens a     *)
(* streamed chat completion.                                               *)
(*                                                                         *)
(* The upstream sends chunks; the guard passes plain text on at once,      *)
(* holds every chunk from the first tool-call delta, assembles the calls,  *)
(* judges them when the upstream ends, and then releases, rewrites or      *)
(* drops the held chunks one yield at a time.  A failure of the guard or   *)
(* of the upstream can come at any step.                                   *)
(*                                                                         *)
(* A chunk is a record: n is its position in the upstream's stream (0 for  *)
(* a chunk the guard makes), ch the choice it belongs to (NoChoice for a   *)
(* chunk with an empty choices list, such as the usage chunk), tcs the     *)
(* tool-call deltas by call index, text its content and fin its finish     *)
(* reason.  A delta carries a fragment of the call's name and arguments    *)
(* (NoArg when it has none) and says whether it carries the call's id.     *)
(***************************************************************************)
EXTENDS Naturals, Sequences, FiniteSets, SequencesExt

CONSTANTS
  ChoiceIds,     \* choices of the completion (the request's n)
  NoChoice,      \* marks a chunk with an empty choices list
  Indices,       \* tool-call indices within the reply
  Pieces,        \* fragments of a call's name and arguments
  NoArg,         \* a delta without such a fragment
  Echo,          \* the whole of a rewritten call: the echo of the block message
  Shapes,        \* the chunks this upstream may send
  BlockedArgs,   \* assembled calls that match a block rule
  FlaggedArgs,   \* assembled calls that match a flag rule
  MaxChunks,     \* bound: chunks the upstream sends
  MaxKeepalives  \* bound: keepalives counted

VARIABLES
  conf,          \* the knobs of the hook and whether rewrite_tool is offered
  phase,         \* where the handler is
  received,      \* every chunk taken from the upstream (history)
  buffered,      \* chunks carrying tool-call deltas, in order
  finishChunks,  \* chunks held behind them, or carrying a finish reason
  calls,         \* index -> what is assembled of the call
  verdicts,      \* index -> verdict
  rows,          \* guard_tool_calls rows this reply wrote (history)
  pos,           \* next chunk to release
  emitted,       \* blocked indices whose replacement is out
  queue,         \* what _on_stream_failure returned and is still to be yielded
  out,           \* every chunk yielded to the client (history)
  cause,         \* why the handler left its normal path
  keepalives     \* keepalives sent

vars == <<conf, phase, received, buffered, finishChunks, calls, verdicts,
          rows, pos, emitted, queue, out, cause, keepalives>>

Verdicts == {"allow", "flag", "block"}
Reasons  == {"none", "tool_calls", "stop"}
Phases   == {"collect", "judge", "emit", "tail", "flush", "done", "raised", "gone"}
Terminal == {"done", "raised", "gone"}

Partial(I, T) == UNION {[S -> T] : S \in SUBSET I}
NoDeltas == [i \in {} |-> NoArg]

EmptyCalls == [i \in {} |-> [args |-> <<>>, id |-> FALSE]]

Delta == [arg : Pieces \cup {NoArg}, id : BOOLEAN]
Shape == [ch : ChoiceIds \cup {NoChoice}, tcs : Partial(Indices, Delta),
          text : {"", "text"}, fin : Reasons]

(* A chunk as it may stand in the buffers or go to the client.             *)
Sent  == [arg : Pieces \cup {NoArg, Echo}, id : BOOLEAN]
Chunk == [n : Nat, ch : ChoiceIds \cup {NoChoice}, tcs : Partial(Indices, Sent),
          text : {"", "text", "note"}, fin : Reasons]
Slot  == [args : Seq(Pieces), id : BOOLEAN]
Conf  == [onBlock : {"rewrite", "strip"}, offered : BOOLEAN,
          fail : {"closed", "open"}, mode : {"block", "flag"}]
Row   == [index : Indices, args : Seq(Pieces), verdict : Verdicts]

(* A chunk with no choices has nothing in it but the usage.                *)
ASSUME ShapesAssumption ==
  /\ Shapes \subseteq Shape
  /\ \A s \in Shapes :
       s.ch = NoChoice => DOMAIN s.tcs = {} /\ s.text = "" /\ s.fin = "none"
ASSUME BoundsAssumption == MaxChunks \in Nat /\ MaxKeepalives \in Nat
ASSUME MarkersAssumption ==
  NoArg \notin Pieces /\ Echo \notin Pieces \cup {NoArg} /\ NoChoice \notin ChoiceIds
-----------------------------------------------------------------------------
(* Gate.evaluate on an assembled call: a block rule wins, and only flags   *)
(* in flag mode.                                                           *)
Evaluate(args) ==
  CASE args \in BlockedArgs -> IF conf.mode = "block" THEN "block" ELSE "flag"
    [] args \in FlaggedArgs \ BlockedArgs -> "flag"
    [] OTHER -> "allow"

Blocked  == {i \in DOMAIN verdicts : verdicts[i] = "block"}
Rewrites == conf.onBlock = "rewrite" /\ conf.offered
Strips   == Blocked # {} /\ ~Rewrites

(* mutant: the turn ends with stop as soon as one call was stripped        *)
MutAllStripped == Strips
AllStripped    == Strips /\ Blocked = DOMAIN verdicts

HasTools(c)   == DOMAIN c.tcs # {}
HasContent(c) == c.text # ""

(* A copy of the last chunk with nothing in it, and the same with a text:  *)
(* a chunk that has no choices has no delta to put the text in.            *)
Keepalive(last) == [last EXCEPT !.n = 0, !.tcs = NoDeltas, !.text = "", !.fin = "none"]

(* mutant: the note's text is set on a copy of the delta                   *)
MutNote(last) == Keepalive(last)
Note(last)    == [Keepalive(last) EXCEPT !.text = IF last.ch = NoChoice THEN "" ELSE "note"]
EndTurn(c) == [c EXCEPT !.fin = IF @ = "tool_calls" THEN "stop" ELSE @]

(* The slots after a chunk: its deltas appended to what was assembled.     *)
Fragment(d) == IF d.arg = NoArg THEN <<>> ELSE <<d.arg>>
SlotOf(i)   == IF i \in DOMAIN calls THEN calls[i] ELSE [args |-> <<>>, id |-> FALSE]
Accumulate(c) ==
  [i \in DOMAIN calls \cup DOMAIN c.tcs |->
     IF i \in DOMAIN c.tcs
     THEN [args |-> SlotOf(i).args \o Fragment(c.tcs[i]), id |-> SlotOf(i).id \/ c.tcs[i].id]
     ELSE calls[i]]

(* mutant: the later deltas of a rewritten call are left where they are    *)
MutScreenLater(c) ==
  LET stay == {i \in DOMAIN c.tcs : i \notin Blocked \/ Rewrites}
  IN  [c EXCEPT !.tcs = [i \in stay |-> IF i \in Blocked \ emitted
                                          THEN [arg |-> Echo, id |-> TRUE] ELSE c.tcs[i]]]

(* mutant: every delta of a blocked call becomes the whole replacement     *)
MutScreenRepeats(c) ==
  LET stay == {i \in DOMAIN c.tcs : i \notin Blocked \/ Rewrites}
  IN  [c EXCEPT !.tcs = [i \in stay |-> IF i \in Blocked
                                          THEN [arg |-> Echo, id |-> c.tcs[i].id] ELSE c.tcs[i]]]

(* A held chunk with the blocked calls taken out; when rewriting, the      *)
(* first delta of each becomes the whole replacement, under the call's id. *)
Replacement(c, i) == [arg |-> Echo, id |-> c.tcs[i].id \/ calls[i].id]
Screen(c) ==
  LET stay == {i \in DOMAIN c.tcs : i \notin Blocked \/ (Rewrites /\ i \notin emitted)}
  IN  [c EXCEPT !.tcs = [i \in stay |-> IF i \in Blocked THEN Replacement(c, i) ELSE c.tcs[i]]]

(* mutant: a chunk is worth sending only for its tool calls                *)
MutKeeps(c) == HasTools(c)

(* Whether a screened chunk is still worth sending.                        *)
Keeps(c) == HasTools(c) \/ HasContent(c)

(* mutant: fail-closed leaves the finish reasons as they came              *)
MutFailureFinish(last) ==
  IF conf.fail = "closed" THEN <<Note(last)>> \o finishChunks ELSE buffered \o finishChunks

(* mutant: fail-closed still flushes the held tool chunks                  *)
MutFailureFlush(last) ==
  <<Note(last)>> \o buffered \o [k \in 1..Len(finishChunks) |-> EndTurn(finishChunks[k])]

(* What _on_stream_failure returns.                                        *)
FailureChunks(last) ==
  IF conf.fail = "closed"
  THEN <<Note(last)>> \o [k \in 1..Len(finishChunks) |-> EndTurn(finishChunks[k])]
  ELSE buffered \o finishChunks
-----------------------------------------------------------------------------
Init ==
  /\ conf \in Conf
  /\ phase = "collect"
  /\ received = <<>>
  /\ buffered = <<>>
  /\ finishChunks = <<>>
  /\ calls = EmptyCalls
  /\ verdicts = [i \in {} |-> "allow"]
  /\ rows = <<>>
  /\ pos = 1
  /\ emitted = {}
  /\ queue = <<>>
  /\ out = <<>>
  /\ cause = "none"
  /\ keepalives = 0

(* The chat completion protocol: tool_calls is announced only for calls    *)
(* that were sent, and after a choice finished nothing more of it comes.   *)
Finished(ch) == \E k \in 1..Len(received) : received[k].ch = ch /\ received[k].fin # "none"
UpstreamMay(s) ==
  /\ Len(received) < MaxChunks
  /\ ~Finished(s.ch)
  /\ s.fin = "tool_calls" => DOMAIN calls \cup DOMAIN s.tcs # {}

Arrived(s) == [n |-> Len(received) + 1, ch |-> s.ch, tcs |-> s.tcs, text |-> s.text, fin |-> s.fin]

(* A chunk arrives: deltas are assembled and the chunk is held; once a     *)
(* chunk is held everything after it waits; a finish reason always waits.  *)
Receive(s) ==
  LET c == Arrived(s) IN
  /\ phase = "collect"
  /\ UpstreamMay(s)
  /\ received' = Append(received, c)
  /\ calls' = Accumulate(c)
  /\ \/ /\ HasTools(c)
        /\ buffered' = Append(buffered, c)
        /\ UNCHANGED <<finishChunks, out>>
     \/ /\ ~HasTools(c)
        /\ c.fin # "none" \/ buffered # <<>>
        /\ finishChunks' = Append(finishChunks, c)
        /\ UNCHANGED <<buffered, out>>
     \/ /\ ~HasTools(c)
        /\ c.fin = "none" /\ buffered = <<>>
        /\ out' = Append(out, c)
        /\ UNCHANGED <<buffered, finishChunks>>
  /\ UNCHANGED <<conf, phase, verdicts, rows, pos, emitted, queue, cause, keepalives>>

(* The upstream stalls for keepalive_seconds while chunks are held.        *)
Stall ==
  /\ phase = "collect"
  /\ buffered # <<>>
  /\ keepalives < MaxKeepalives
  /\ keepalives' = keepalives + 1
  /\ out' = Append(out, Keepalive(Last(received)))
  /\ UNCHANGED <<conf, phase, received, buffered, finishChunks, calls, verdicts,
                 rows, pos, emitted, queue, cause>>

UpstreamEnds ==
  /\ phase = "collect"
  /\ phase' = "judge"
  /\ UNCHANGED <<conf, received, buffered, finishChunks, calls, verdicts, rows,
                 pos, emitted, queue, out, cause, keepalives>>

(* One call is evaluated and its ledger row written.                       *)
JudgeCall(i) ==
  /\ phase = "judge"
  /\ i \in DOMAIN calls \ DOMAIN verdicts
  /\ LET v == Evaluate(calls[i].args) IN
       /\ verdicts' = [j \in DOMAIN verdicts \cup {i} |-> IF j = i THEN v ELSE verdicts[j]]
       /\ rows' = Append(rows, [index |-> i, args |-> calls[i].args, verdict |-> v])
  /\ UNCHANGED <<conf, phase, received, buffered, finishChunks, calls, pos,
                 emitted, queue, out, cause, keepalives>>

(* mutant: the held chunks are released after the first verdict            *)
MutAllJudged ==
  /\ phase = "judge"
  /\ DOMAIN verdicts # {} \/ DOMAIN calls = {}
  /\ phase' = "emit"
  /\ UNCHANGED <<conf, received, buffered, finishChunks, calls, verdicts, rows,
                 pos, emitted, queue, out, cause, keepalives>>

(* Every assembled call has its verdict.                                   *)
AllJudged ==
  /\ phase = "judge"
  /\ DOMAIN verdicts = DOMAIN calls
  /\ phase' = "emit"
  /\ UNCHANGED <<conf, received, buffered, finishChunks, calls, verdicts, rows,
                 pos, emitted, queue, out, cause, keepalives>>

(* One turn of the loop over the held chunks: the chunk is changed in      *)
(* place and yielded unless nothing of it is left.                         *)
EmitBuffered ==
  /\ phase = "emit"
  /\ pos <= Len(buffered)
  /\ LET c == Screen(buffered[pos]) IN
       /\ buffered' = [buffered EXCEPT ![pos] = c]
       /\ out' = IF Blocked = {} \/ Keeps(c) THEN Append(out, c) ELSE out
       /\ emitted' = emitted \cup (IF Rewrites THEN Blocked \cap DOMAIN buffered[pos].tcs ELSE {})
  /\ pos' = pos + 1
  /\ UNCHANGED <<conf, phase, received, finishChunks, calls, verdicts, rows,
                 queue, cause, keepalives>>

(* The held tool chunks are through: a note when calls were stripped.      *)
EndBuffered ==
  /\ phase = "emit"
  /\ pos > Len(buffered)
  /\ out' = IF Strips THEN Append(out, Note(Last(received))) ELSE out
  /\ phase' = "tail"
  /\ pos' = 1
  /\ UNCHANGED <<conf, received, buffered, finishChunks, calls, verdicts, rows,
                 emitted, queue, cause, keepalives>>

(* The chunks held behind them; when every call was stripped the turn      *)
(* ends with stop.                                                         *)
EmitTail ==
  /\ phase = "tail"
  /\ pos <= Len(finishChunks)
  /\ LET c == IF AllStripped THEN EndTurn(finishChunks[pos]) ELSE finishChunks[pos] IN
       /\ finishChunks' = [finishChunks EXCEPT ![pos] = c]
       /\ out' = Append(out, c)
  /\ pos' = pos + 1
  /\ UNCHANGED <<conf, phase, received, buffered, calls, verdicts, rows,
                 emitted, queue, cause, keepalives>>

(* mutant: the reply ends only when a finish reason was held               *)
MutEndTail ==
  /\ phase = "tail"
  /\ pos > Len(finishChunks)
  /\ \E k \in 1..Len(finishChunks) : finishChunks[k].fin # "none"
  /\ phase' = "done"
  /\ UNCHANGED <<conf, received, buffered, finishChunks, calls, verdicts, rows,
                 pos, emitted, queue, out, cause, keepalives>>

EndTail ==
  /\ phase = "tail"
  /\ pos > Len(finishChunks)
  /\ phase' = "done"
  /\ UNCHANGED <<conf, received, buffered, finishChunks, calls, verdicts, rows,
                 pos, emitted, queue, out, cause, keepalives>>
-----------------------------------------------------------------------------
(* The except clauses: _on_stream_failure builds its list before the first *)
(* of it is yielded, and may itself raise when it copies the last chunk.   *)
Fail(why, last) ==
  /\ cause' = why
  /\ \/ /\ phase' = "flush"
        /\ queue' = FailureChunks(last)
     \/ /\ conf.fail = "closed"
        /\ phase' = "raised"
        /\ queue' = <<>>

(* The guard fails on a chunk it has just taken: the chunk is in neither   *)
(* buffer and the upstream is not read any further.                        *)
ChunkError(s) ==
  /\ phase = "collect"
  /\ UpstreamMay(s)
  /\ received' = Append(received, Arrived(s))
  /\ Fail("guard", Arrived(s))
  /\ UNCHANGED <<conf, buffered, finishChunks, calls, verdicts, rows, pos,
                 emitted, out, keepalives>>

ReplacesNow ==
  pos <= Len(buffered) /\ (Blocked \cap DOMAIN buffered[pos].tcs) \ emitted # {}

(* The guard fails while it builds a keepalive, a verdict, a replacement   *)
(* or the note.                                                            *)
GuardError ==
  /\ \/ phase = "collect" /\ buffered # <<>>
     \/ phase = "judge" /\ DOMAIN verdicts # DOMAIN calls
     \/ phase = "emit" /\ Rewrites /\ ReplacesNow
     \/ phase = "emit" /\ Strips /\ pos > Len(buffered)
  /\ Fail("guard", Last(received))
  /\ UNCHANGED <<conf, received, buffered, finishChunks, calls, verdicts, rows,
                 pos, emitted, out, keepalives>>

(* The upstream fails.  Before the first chunk nothing catches it.         *)
UpstreamError ==
  /\ phase = "collect"
  /\ \/ /\ received # <<>>
        /\ Fail("upstream", Last(received))
     \/ /\ received = <<>>
        /\ cause' = "upstream"
        /\ phase' = "raised"
        /\ UNCHANGED queue
  /\ UNCHANGED <<conf, received, buffered, finishChunks, calls, verdicts, rows,
                 pos, emitted, out, keepalives>>

EmitFlush ==
  /\ phase = "flush"
  /\ queue # <<>>
  /\ out' = Append(out, Head(queue))
  /\ queue' = Tail(queue)
  /\ UNCHANGED <<conf, phase, received, buffered, finishChunks, calls, verdicts,
                 rows, pos, emitted, cause, keepalives>>

EndFlush ==
  /\ phase = "flush"
  /\ queue = <<>>
  /\ phase' = "done"
  /\ UNCHANGED <<conf, received, buffered, finishChunks, calls, verdicts, rows,
                 pos, emitted, queue, out, cause, keepalives>>

(* The client goes away: the generator is closed at a yield or an await.   *)
ClientGone ==
  /\ phase \in {"collect", "emit", "tail", "flush"}
  /\ phase' = "gone"
  /\ UNCHANGED <<conf, received, buffered, finishChunks, calls, verdicts, rows,
                 pos, emitted, queue, out, cause, keepalives>>

Over == phase \in Terminal /\ UNCHANGED vars

(* The handler's own steps, which asyncio runs as soon as they can run.    *)
GuardStep ==
  \/ \E i \in Indices : JudgeCall(i)
  \/ AllJudged
  \/ EmitBuffered
  \/ EndBuffered
  \/ EmitTail
  \/ EndTail
  \/ EmitFlush
  \/ EndFlush

Next ==
  \/ \E s \in Shapes : Receive(s) \/ ChunkError(s)
  \/ Stall
  \/ UpstreamEnds
  \/ UpstreamError
  \/ GuardError
  \/ GuardStep
  \/ ClientGone
  \/ Over

Spec == Init /\ [][Next]_vars

FairSpec == Spec /\ WF_vars(GuardStep)
-----------------------------------------------------------------------------
(***************************************************************************)
(* What the client and the upstream hold.                                  *)
(***************************************************************************)

(* The arguments of call i of choice ch that the stream s spells out.      *)
Spelled(s, ch, i) ==
  FlattenSeq([k \in 1..Len(s) |->
    IF s[k].ch = ch /\ i \in DOMAIN s[k].tcs THEN Fragment(s[k].tcs[i]) ELSE <<>>])

Called(s, ch, i) == \E k \in 1..Len(s) : s[k].ch = ch /\ i \in DOMAIN s[k].tcs
Named(s, ch, i)  == \E k \in 1..Len(s) :
                      s[k].ch = ch /\ i \in DOMAIN s[k].tcs /\ s[k].tcs[i].id

(* Where the deltas and the finish reasons of choice ch are.               *)
Ends(s, ch)          == {k \in 1..Len(s) : s[k].ch = ch /\ s[k].fin # "none"}
ToolPositions(s, ch) == {k \in 1..Len(s) : s[k].ch = ch /\ HasTools(s[k])}

Opened    == cause # "none" /\ conf.fail = "open"
Delivered == phase = "done" /\ cause = "none"

(* Two things some of the properties need of the upstream, whatever else   *)
(* it sends: no index is used in two choices, and text, a delta and the    *)
(* finish reason tool_calls do not come in one chunk.                      *)
Owns(ch, i) == \E s \in Shapes : s.ch = ch /\ i \in DOMAIN s.tcs
OwnIndices  == \A i \in Indices : \A c, d \in ChoiceIds : Owns(c, i) /\ Owns(d, i) => c = d
FinishApart == \A s \in Shapes : HasTools(s) /\ HasContent(s) => s.fin # "tool_calls"

(* Type correctness of the handler's locals.                               *)
TypeOK ==
  /\ conf \in Conf
  /\ phase \in Phases
  /\ received \in Seq(Chunk)
  /\ buffered \in Seq(Chunk)
  /\ finishChunks \in Seq(Chunk)
  /\ DOMAIN calls \subseteq Indices /\ calls \in [DOMAIN calls -> Slot]
  /\ DOMAIN verdicts \subseteq DOMAIN calls /\ verdicts \in [DOMAIN verdicts -> Verdicts]
  /\ rows \in Seq(Row)
  /\ pos \in Nat \ {0}
  /\ emitted \subseteq Indices
  /\ queue \in Seq(Chunk)
  /\ out \in Seq(Chunk)
  /\ cause \in {"none", "guard", "upstream"}
  /\ keepalives \in Nat

(* The client never holds an original delta of a call whose arguments,     *)
(* as the upstream spelled them over the whole stream, match a block rule, *)
(* unless the guard failed open.  The pattern may be visible only once     *)
(* several deltas are put together.                                        *)
NoBlockedCallDelivered ==
  \A k \in 1..Len(out) : \A i \in DOMAIN out[k].tcs :
    out[k].tcs[i].arg # Echo =>
      Opened \/ Evaluate(Spelled(received, out[k].ch, i)) # "block"

(* A delta that is out belongs to a judged call: it is the original only   *)
(* if what the handler assembled of the call was not blocked, and the      *)
(* replacement only if it was; unless the guard failed open.               *)
ReleasedOnVerdict ==
  \A k \in 1..Len(out) : \A i \in DOMAIN out[k].tcs :
    \/ Opened
    \/ /\ i \in DOMAIN verdicts
       /\ out[k].tcs[i].arg = Echo <=> Evaluate(calls[i].args) = "block"

(* The inductive invariant under ReleasedOnVerdict: where the verdicts     *)
(* stand in each phase, and what the buffers may hold.                     *)
VerdictsInv ==
  /\ phase = "collect" => DOMAIN verdicts = {} /\ cause = "none"
  /\ phase \in {"emit", "tail"} => DOMAIN verdicts = DOMAIN calls
  /\ \A i \in DOMAIN verdicts : verdicts[i] = Evaluate(calls[i].args)
BuffersInv ==
  /\ \A k \in 1..Len(buffered) : \A i \in DOMAIN buffered[k].tcs :
       /\ i \in DOMAIN calls
       /\ buffered[k].tcs[i].arg = Echo => i \in Blocked
  /\ \A k \in 1..Len(finishChunks) : DOMAIN finishChunks[k].tcs = {}
  /\ Opened \/ \A k \in 1..Len(queue) : DOMAIN queue[k].tcs = {}
TakenInv == buffered # <<>> \/ DOMAIN calls # {} => received # <<>>
Inv == TypeOK /\ TakenInv /\ VerdictsInv /\ BuffersInv /\ ReleasedOnVerdict

(* When the reply went through, the client's own assembly of each call is  *)
(* the upstream's call, complete and under its id, if it was let through;  *)
(* one whole replacement under its id if it was rewritten; and no trace of *)
(* it if it was stripped.                                                  *)
ClientAssemblesVerdict ==
  Delivered =>
    \A ch \in ChoiceIds : \A i \in Indices :
      LET args == Spelled(received, ch, i)
          kept == Evaluate(args) # "block" \/ Rewrites
      IN  /\ Called(out, ch, i) <=> Called(received, ch, i) /\ kept
          /\ Called(out, ch, i) =>
               /\ Named(out, ch, i) <=> Named(received, ch, i)
               /\ Spelled(out, ch, i) = IF Evaluate(args) = "block" THEN <<Echo>> ELSE args

(* When the reply went through, every chunk with text reached the client   *)
(* once, whatever was blocked, and the guard's chunks carry no such text.  *)
TextKept ==
  Delivered =>
    /\ \A k \in 1..Len(received) : HasContent(received[k]) =>
         Cardinality({j \in 1..Len(out) : out[j].n = k /\ out[j].text = "text"}) = 1
    /\ \A j \in 1..Len(out) : out[j].text = "text" => out[j].n > 0

(* The upstream sent calls and every one of them is stripped.              *)
NoneLeft ==
  LET made == {c \in ChoiceIds \X Indices : Called(received, c[1], c[2])}
  IN  ~Rewrites /\ made # {} /\ \A c \in made : Evaluate(Spelled(received, c[1], c[2])) = "block"

(* When the reply went through, each choice ends with the finish reason    *)
(* the upstream gave it, after its last tool-call delta; it is stop        *)
(* instead of tool_calls exactly when all calls of the reply were stripped.*)
(* One that came on the last delta taken out of its chunk is lost with it. *)
Emptied(k) ==
  /\ HasTools(received[k]) /\ ~HasContent(received[k])
  /\ \A i \in DOMAIN received[k].tcs :
       i \in Blocked /\ (Rewrites => \E j \in 1..(k - 1) : i \in DOMAIN received[j].tcs)
FinishDelivered ==
  Delivered =>
    \A ch \in ChoiceIds :
      /\ Ends(received, ch) = {} => Ends(out, ch) = {}
      /\ \A k \in Ends(received, ch) :
           IF Emptied(k) THEN Ends(out, ch) = {}
           ELSE \E j \in 1..Len(out) :
                  /\ Ends(out, ch) = {j}
                  /\ out[j].fin = IF NoneLeft /\ received[k].fin = "tool_calls" THEN "stop"
                                  ELSE received[k].fin
      /\ \A k \in Ends(out, ch) : \A j \in ToolPositions(out, ch) : j <= k

(* The client is never told that the turn ended in tool calls when it      *)
(* holds none: whatever was stripped, and however the reply failed, unless *)
(* it failed open.                                                         *)
FinishMatchesCalls ==
  ~Opened => \A k \in 1..Len(out) : out[k].fin = "tool_calls" =>
    \E j \in 1..k : HasTools(out[j])

(* A reply of which calls were stripped tells the model so, unless its     *)
(* last chunk was one without choices, which has no place for the note.    *)
NoteDelivered ==
  Delivered /\ Strips /\ Last(received).ch # NoChoice => \E k \in 1..Len(out) : out[k].text = "note"

(* From the moment anything held is released, the ledger has exactly one   *)
(* row for each call, with all of its arguments and the verdict on them.   *)
LedgerComplete ==
  phase \in {"emit", "tail"} \/ Delivered =>
    /\ Len(rows) = Cardinality({i \in Indices : \E ch \in ChoiceIds : Called(received, ch, i)})
    /\ \A ch \in ChoiceIds : \A i \in Indices : Called(received, ch, i) =>
         \E k \in 1..Len(rows) :
           LET args == Spelled(received, ch, i)
           IN  rows[k] = [index |-> i, args |-> args, verdict |-> Evaluate(args)]

(* Once the guard or the upstream failed in closed mode, no tool call is   *)
(* released any more and the turn does not end in tool calls.              *)
ClosedStaysClosed ==
  [][cause # "none" /\ conf.fail = "closed" /\ out' # out =>
       ~HasTools(Last(out')) /\ Last(out').fin # "tool_calls"]_vars

(* A call whose verdict was block is not released in its original form,    *)
(* in either fail mode.                                                    *)
BlockedStaysBlocked ==
  \A k \in 1..Len(out) : \A i \in DOMAIN out[k].tcs \cap Blocked : out[k].tcs[i].arg = Echo

(* Once the upstream has ended, the handler ends, unless the client left.  *)
Terminates == (phase # "collect") ~> (phase \in Terminal)
-----------------------------------------------------------------------------
(* ChatStream implements ToolGate: a call passes once one of its own       *)
(* deltas is out, and is replaced once its replacement is.                 *)
Assembled == [i \in Indices |-> SlotOf(i).args]
Verdict   == [i \in Indices |-> IF i \in DOMAIN verdicts THEN verdicts[i] ELSE "none"]
Passed    == {i \in Indices : \E k \in 1..Len(out) :
                i \in DOMAIN out[k].tcs /\ out[k].tcs[i].arg # Echo}
Replaced  == {i \in Indices : \E k \in 1..Len(out) :
                i \in DOMAIN out[k].tcs /\ out[k].tcs[i].arg = Echo}

Gate == INSTANCE ToolGate WITH
  Calls     <- Indices,
  mode      <- conf.mode,
  assembled <- Assembled,
  verdict   <- Verdict,
  passed    <- Passed,
  replaced  <- Replaced,
  opened    <- Opened

GateSpec == Gate!Spec
=============================================================================
