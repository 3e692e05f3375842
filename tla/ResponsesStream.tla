-------------------------- MODULE ResponsesStream --------------------------
(***************************************************************************)
(* GuardHook._stream_responses (guard/hooks.py): the handler that screens  *)
(* a streamed reply of the Responses format.                               *)
(*                                                                         *)
(* The reply is a list of output items, streamed side by side and told     *)
(* apart by their output_index.  From the output_item.added of a           *)
(* function_call to its output_item.done every event is held, those of     *)
(* other items too.  A judged item is released as it was, rewritten event  *)
(* by event, or left out.  response.completed repeats all items, under ids *)
(* that may be new, and is patched to agree.                               *)
(*                                                                         *)
(* A call is the sequence of its name and the fragments of its arguments.  *)
(* An event carries what it spells of the call: the name (added), one      *)
(* fragment (delta), the arguments (args_done), all of it (done), which    *)
(* some upstreams leave at the name.  The id of an item stands for its id  *)
(* and its call_id.                                                        *)
(***************************************************************************)
EXTENDS Naturals, Sequences, FiniteSets, SequencesExt

CONSTANTS
  Pieces,        \* names of tools and fragments of arguments
  Tool,          \* the name of rewrite_tool
  Echo,          \* the arguments of a rewritten call
  NoItem,        \* open_idx None, an event without index, an id that is new
  Replies,       \* the replies this upstream may stream
  Overlapping,   \* whether it streams function_call items side by side
  BlockedArgs,   \* calls that match a block rule
  FlaggedArgs    \* calls that match a flag rule

VARIABLES
  conf,          \* the knobs of the hook and whether rewrite_tool is offered
  reply,         \* the items of the reply and the events that stream each
  phase,         \* where the handler is
  open,          \* open_idx, the item that is held
  held,          \* its events and those that came within it
  marked,        \* what replaced or dropped remember of blocked items
  notes,         \* the notes of stripped items
  queue,         \* the held events that are still to be released
  cause,         \* why the reply was not screened to its end
  received,      \* every event taken from the upstream (history)
  out,           \* every event yielded to the client (history)
  calls,         \* index -> what the handler assembled of the call (history)
  rows           \* guard_tool_calls rows this reply wrote (history)

upstreamVars == <<conf, reply>>
blockVars == <<marked, notes>>
vars == <<upstreamVars, phase, open, held, blockVars, queue, cause, received, out, calls, rows>>

Types    == {"added", "delta", "args_done", "done", "completed"}
Verdicts == {"allow", "flag", "block"}
Terminal == {"done", "raised", "gone"}
Conf     == [onBlock : {"rewrite", "strip"}, offered : BOOLEAN,
             fail : {"closed", "open"}, mode : {"block", "flag"}]

Indices == UNION {DOMAIN r : r \in Replies}

Items == DOMAIN reply

(* An entry of the copy in response.completed ("gone" for one that is taken*)
(* out of it), and an event; note says whether that copy ends in a note.   *)
Copy  == [id : Nat \cup {NoItem}, kind : {"call", "text", "gone"},
          call : Seq(Pieces \cup {Tool, Echo})]
Event == [n : Nat, type : Types, ix : Nat \cup {NoItem}, kind : {"call", "text", "none"},
          call : Seq(Pieces \cup {Tool, Echo}), copy : Seq(Copy), note : BOOLEAN]

(* What the first c events of an item spell of its call.                   *)
Spelled(s, c) ==
  FlattenSeq([k \in 1..c |-> IF s[k].type \in {"added", "delta"} THEN s[k].call ELSE <<>>])

(* Each item says what it is, the call if it is one, and its events: one   *)
(* added, with the name of the call, first, at most one args_done, and one *)
(* done, last.  The done event repeats the call or leaves it to the others.*)
Item == [kind : {"call", "text"}, call : Seq(Pieces),
         script : Seq([type : Types \ {"completed"}, call : Seq(Pieces)])]
ASSUME RepliesAssumption == \A r \in Replies :
  /\ r \in Seq(Item)
  /\ \A i \in DOMAIN r :
       LET s == r[i].script IN
       /\ Len(s) > 1
       /\ r[i].kind = "call" =>
            /\ s[1].call # <<>>
            /\ s[Len(s)].call # <<>> /\ s[1].call = <<Head(s[Len(s)].call)>>
            /\ r[i].call = IF Len(s[Len(s)].call) > 1 THEN s[Len(s)].call ELSE Spelled(s, Len(s))
       /\ \A k \in DOMAIN s : (s[k].type = "added" <=> k = 1) /\ (s[k].type = "done" <=> k = Len(s))
       /\ \A j, k \in DOMAIN s : s[j].type = "args_done" /\ s[k].type = "args_done" => j = k
ASSUME MarkersAssumption == {Tool, Echo} \cap Pieces = {} /\ NoItem \notin Nat
-----------------------------------------------------------------------------
(* Gate.evaluate on an assembled call.                                     *)
Evaluate(call) ==
  CASE call \in BlockedArgs -> IF conf.mode = "block" THEN "block" ELSE "flag"
    [] call \in FlaggedArgs \ BlockedArgs -> "flag"
    [] OTHER -> "allow"

Rewrites == conf.onBlock = "rewrite" /\ conf.offered

(* An event of the function_call that is held, of one of the types.        *)
Own(e, types) == e.ix = open /\ e.type \in types

(* mutant: a done event is taken to carry the arguments                    *)
MutAssembled(e) ==
  CASE e.type = "delta" -> calls[open] \o e.call
    [] e.type = "done"  -> e.call
    [] OTHER            -> calls[open]

(* What is known of the held call behind its event e: the arguments of the *)
(* done event count, the deltas only if it has none.                       *)
Assembled(e) ==
  CASE e.type = "delta"                   -> calls[open] \o e.call
    [] e.type = "done" /\ Len(e.call) > 1 -> e.call
    [] OTHER                              -> calls[open]

(* mutant: every delta carries the whole replacement                       *)
MutRewritten(e) ==
  CASE e.type = "added"   -> <<[e EXCEPT !.call = <<Tool>>]>>
    [] e.type = "done"    -> <<[e EXCEPT !.call = <<Tool, Echo>>]>>
    [] OTHER              -> <<[e EXCEPT !.call = <<Echo>>]>>

(* An event of a rewritten call: the first delta carries the whole         *)
(* replacement, the others go.                                             *)
Rewritten(e) ==
  CASE e.type = "added"   -> <<[e EXCEPT !.call = <<Tool>>]>>
    [] e.type = "done"    -> <<[e EXCEPT !.call = <<Tool, Echo>>]>>
    [] e.type = "delta" /\ \E h \in ToSet(held) : Own(h, {"delta"}) /\ h.n < e.n -> <<>>
    [] OTHER              -> <<[e EXCEPT !.call = <<Echo>>]>>

(* The verdict that was given last is that on the held call.               *)
Blocked == Last(rows).verdict = "block"

(* mutant: everything held goes with a stripped call                       *)
MutReleased(e) ==
  CASE ~Blocked              -> <<e>>
    [] Blocked /\ Rewrites   -> IF Own(e, Types) THEN Rewritten(e) ELSE <<e>>
    [] Blocked /\ ~Rewrites  -> <<>>

(* What is released for a held event of a judged item: of a blocked call   *)
(* the replacement or nothing, the event itself in all other cases.        *)
Released(e) ==
  CASE ~Blocked \/ ~Own(e, Types)            -> <<e>>
    [] Blocked /\ Own(e, Types) /\ Rewrites  -> Rewritten(e)
    [] Blocked /\ Own(e, Types) /\ ~Rewrites -> <<>>

(* mutant: a failing guard hands on what it held in either fail_mode       *)
MutUnscreened == held

(* What the except clause releases.                                        *)
Unscreened == IF conf.fail = "closed" THEN <<>> ELSE held

(* mutant: blocked items are looked up by id alone                         *)
MutMarked(it) == it.kind = "call" /\ \E m \in marked : m.id = it.id

(* An item of response.completed is a blocked one: by its id or arguments. *)
Marked(it) == it.kind = "call" /\ \E m \in marked : m.id = it.id \/ m.args = Tail(it.call)

(* patch_completed.                                                        *)
Patched(e) ==
  LET Fix(it) == CASE ~Marked(it)             -> it
                   [] Marked(it) /\ Rewrites  -> [it EXCEPT !.call = <<Tool, Echo>>]
                   [] Marked(it) /\ ~Rewrites -> [it EXCEPT !.kind = "gone"]
  IN  [e EXCEPT !.copy = [k \in DOMAIN e.copy |-> Fix(e.copy[k])], !.note = notes > 0]
-----------------------------------------------------------------------------
(* The Responses protocol: items begin in order, each is streamed by its   *)
(* own events; when all are done, response.completed.                      *)
Count(s, i)     == Cardinality({k \in 1..Len(s) : s[k].ix = i})
IsCall(i)       == reply[i].kind = "call"
Started         == {i \in Items : Count(received, i) > 0}
Finished        == {i \in Items : Count(received, i) = Len(reply[i].script)}
Completed       == \E k \in 1..Len(received) : received[k].type = "completed"

ItemMay(i) ==
  /\ i \notin Finished
  /\ i \notin Started => /\ \A j \in Items : j < i => j \in Started
                         /\ IsCall(i) /\ ~Overlapping =>
                              \A j \in Started \ Finished : ~IsCall(j)

NextOf(i) ==
  LET s == reply[i].script[Count(received, i) + 1] IN
  [n |-> Len(received) + 1, type |-> s.type, ix |-> i, kind |-> reply[i].kind,
   call |-> s.call, copy |-> <<>>, note |-> FALSE]

(* The final event; LiteLLM may give the items new ids.                    *)
Completion(new) ==
  [n |-> Len(received) + 1, type |-> "completed", ix |-> NoItem, kind |-> "none", call |-> <<>>,
   copy |-> [i \in Items |-> [id |-> IF new THEN NoItem ELSE i, kind |-> reply[i].kind,
                              call |-> reply[i].call]],
   note |-> FALSE]
Upcoming ==
  IF Finished = Items THEN IF Completed THEN {} ELSE {Completion(TRUE), Completion(FALSE)}
  ELSE {NextOf(i) : i \in {j \in Items : ItemMay(j)}}

Init ==
  /\ conf \in Conf /\ reply \in Replies
  /\ phase = "collect" /\ open = NoItem /\ held = <<>>
  /\ marked = {} /\ notes = 0
  /\ queue = <<>> /\ cause = "none"
  /\ received = <<>> /\ out = <<>> /\ rows = <<>>
  /\ calls = [i \in Indices |-> <<>>]

(* An event arrives: everything is held from the start of a function_call  *)
(* to its done event.                                                      *)
Receive(e) ==
  /\ phase = "collect"
  /\ received' = Append(received, e)
  /\ \/ /\ open = NoItem /\ e.type = "added" /\ e.kind = "call"
        /\ open' = e.ix /\ held' = <<e>>
        /\ calls' = [calls EXCEPT ![e.ix] = e.call]
        /\ UNCHANGED <<phase, out>>
     \/ /\ open = NoItem /\ ~(e.type = "added" /\ e.kind = "call")
        /\ out' = Append(out, IF e.type = "completed" THEN Patched(e) ELSE e)
        /\ UNCHANGED <<phase, open, held, calls>>
     \/ /\ open # NoItem
        /\ held' = Append(held, e)
        /\ calls' = IF e.ix = open THEN [calls EXCEPT ![open] = Assembled(e)] ELSE calls
        /\ phase' = IF Own(e, {"done"}) THEN "judge" ELSE "collect"
        /\ UNCHANGED <<open, out>>
  /\ UNCHANGED <<upstreamVars, blockVars, queue, cause, rows>>

(* mutant: an item the stream ended in is released as in a failure         *)
MutUpstreamEnds ==
  /\ phase = "collect"
  /\ cause' = IF open = NoItem THEN "none" ELSE "cut"
  /\ queue' = held /\ phase' = "flush"
  /\ UNCHANGED <<upstreamVars, open, held, blockVars, received, out, calls, rows>>

(* The stream ends, perhaps inside an item, which is judged as it is.      *)
UpstreamEnds ==
  /\ phase = "collect"
  /\ cause' = IF open = NoItem THEN "none" ELSE "cut"
  /\ phase' = IF open = NoItem THEN "flush" ELSE "judge"
  /\ UNCHANGED <<upstreamVars, open, held, blockVars, queue, received, out, calls, rows>>

(* The call is evaluated and its ledger row written.                       *)
Judge ==
  /\ phase = "judge"
  /\ rows' = Append(rows, [index |-> open, call |-> calls[open], verdict |-> Evaluate(calls[open])])
  /\ phase' = "build"
  /\ UNCHANGED <<upstreamVars, open, held, blockVars, queue, cause, received, out, calls>>

(* The held events are to be released, and a blocked item is remembered; an*)
(* item the stream ended in is released or not, and the stream ends.       *)
Build ==
  /\ phase = "build"
  /\ \/ /\ cause = "none"
        /\ queue' = held
        /\ marked' = IF Blocked THEN marked \cup {[id |-> open, args |-> Tail(calls[open])]} ELSE marked
        /\ notes' = IF Blocked /\ ~Rewrites THEN notes + 1 ELSE notes
        /\ phase' = "release"
     \/ /\ cause = "cut"
        /\ queue' = IF Blocked THEN <<>> ELSE held
        /\ phase' = "flush"
        /\ UNCHANGED blockVars
  /\ UNCHANGED <<upstreamVars, open, held, cause, received, out, calls, rows>>

(* One turn of a loop over the held events, which yields at most one.      *)
Yield ==
  /\ phase \in {"release", "flush"} /\ queue # <<>>
  /\ out' = out \o IF phase = "release" THEN Released(Head(queue)) ELSE <<Head(queue)>>
  /\ queue' = Tail(queue)
  /\ UNCHANGED <<upstreamVars, phase, open, held, blockVars, cause, received, calls, rows>>

(* Everything is yielded: the next event is awaited, or the stream ends.   *)
EndYields ==
  /\ phase \in {"release", "flush"} /\ queue = <<>>
  /\ phase' = IF phase = "release" THEN "collect" ELSE "done"
  /\ open' = NoItem /\ held' = <<>>
  /\ UNCHANGED <<upstreamVars, blockVars, queue, cause, received, out, calls, rows>>

(* The except clause; the rest of the upstream's stream is not read.       *)
Fail(why) ==
  /\ cause' = why
  /\ queue' = Unscreened /\ phase' = "flush"
  /\ UNCHANGED <<upstreamVars, open, held, blockVars, out, calls, rows>>

(* The guard fails on an event it has just taken, or on a call, before or  *)
(* behind its row.                                                         *)
EventError(e) ==
  phase = "collect" /\ received' = Append(received, e) /\ Fail("guard")
GuardError ==
  /\ phase = "judge" \/ (phase = "build" /\ Blocked /\ cause = "none")
  /\ Fail("guard") /\ UNCHANGED received

(* The upstream fails.  Before the first event nothing catches it.         *)
UpstreamError ==
  /\ phase = "collect"
  /\ \/ received # <<>> /\ Fail("upstream") /\ UNCHANGED received
     \/ /\ received = <<>> /\ cause' = "upstream" /\ phase' = "raised"
        /\ UNCHANGED <<upstreamVars, open, held, blockVars, queue, received, out, calls, rows>>

(* The client goes away: the generator is closed at a yield or an await.   *)
ClientGone ==
  /\ phase \in {"collect", "release", "flush"}
  /\ phase' = "gone"
  /\ UNCHANGED <<upstreamVars, open, held, blockVars, queue, cause, received, out, calls, rows>>

Over == phase \in Terminal /\ UNCHANGED vars

(* The handler's own steps, which asyncio runs as soon as they can run.    *)
GuardStep == Judge \/ Build \/ Yield \/ EndYields

Next ==
  \/ \E e \in Upcoming : Receive(e) \/ EventError(e)
  \/ GuardStep
  \/ UpstreamEnds
  \/ UpstreamError
  \/ GuardError
  \/ ClientGone
  \/ Over

Spec == Init /\ [][Next]_vars
-----------------------------------------------------------------------------
Judged     == {rows[k].index : k \in 1..Len(rows)}
Verdict    == [i \in Indices |-> IF i \in Judged THEN Evaluate(calls[i]) ELSE "none"]
Changed(e) == e # received[e.n]
Passed     == {out[k].ix : k \in {j \in 1..Len(out) : out[j].kind = "call" /\ ~Changed(out[j])}}
Replaced   == {out[k].ix : k \in {j \in 1..Len(out) : out[j].kind = "call" /\ Changed(out[j])}}
Opened     == cause \in {"guard", "upstream"} /\ conf.fail = "open"
Delivered  == phase = "done" /\ cause = "none"

TypeOK ==
  /\ conf \in Conf /\ reply \in Replies
  /\ phase \in {"collect", "judge", "build", "release", "flush"} \cup Terminal
  /\ open \in Items \cup {NoItem}
  /\ held \in Seq(Event) /\ queue \in Seq(Event) /\ received \in Seq(Event) /\ out \in Seq(Event)
  /\ marked \subseteq [id : Items, args : Seq(Pieces)] /\ notes \in Nat
  /\ cause \in {"none", "guard", "upstream", "cut"}
  /\ calls \in [Indices -> Seq(Pieces)]
  /\ rows \in Seq([index : Items, call : Seq(Pieces), verdict : Verdicts])

(* Events are held exactly while an item is open; nothing of a blocked     *)
(* call is out as it was, and nothing of another one is changed, unless    *)
(* the guard failed open.                                                  *)
Inv ==
  /\ TypeOK
  /\ held = <<>> <=> open = NoItem
  /\ Opened \/ \A i \in Passed : i \in Judged /\ Verdict[i] # "block"
  /\ \A i \in Replaced : i \in Judged /\ Verdict[i] = "block"

(* The client never sees an event twice or behind a later one, whatever    *)
(* was held and released, and when the reply went through, or was cut in a *)
(* call that was let through, it has every event of the other items.       *)
Other(e) == e.kind # "call"
Kept(s)  == {s[k].n : k \in {j \in 1..Len(s) : Other(s[j])}}
OthersInOrder ==
  /\ \A j, k \in 1..Len(out) : j < k => out[j].n < out[k].n
  /\ Delivered \/ (phase = "done" /\ cause = "cut" /\ ~Blocked) => Kept(out) = Kept(received)

(* When the reply went through, the client reads the same call wherever it *)
(* reads it, in the deltas, the args_done or the done event: the original  *)
(* one, the replacement, or nothing of it.                                 *)
Part(s, i, types) ==
  FlattenSeq([k \in 1..Len(s) |-> IF s[k].ix = i /\ s[k].type \in types THEN s[k].call ELSE <<>>])
Sent(i, types) == \E k \in 1..Len(received) : received[k].ix = i /\ received[k].type \in types
ClientViewsAgree ==
  Delivered => \A i \in Started : IsCall(i) =>
    LET blocked == Evaluate(reply[i].call) = "block"
        Shows(types, new) ==
          Part(out, i, types) = IF ~blocked THEN Part(received, i, types)
                                ELSE IF Rewrites /\ Sent(i, types) THEN new
                                ELSE <<>>
    IN  /\ Shows({"added"}, <<Tool>>)
        /\ Shows({"delta"}, <<Echo>>)
        /\ Shows({"args_done"}, <<Echo>>)
        /\ Shows({"done"}, <<Tool, Echo>>)

(* The copy of the items in response.completed is the reply as the stream  *)
(* delivered it, new ids or not, with a note if anything was stripped,     *)
(* unless two calls have the same arguments and different verdicts.        *)
Clash ==
  \E i, j \in Items :
    /\ IsCall(i) /\ IsCall(j) /\ Tail(reply[i].call) = Tail(reply[j].call)
    /\ Evaluate(reply[i].call) = "block" /\ Evaluate(reply[j].call) # "block"
Entry(i) ==
  CASE ~IsCall(i) \/ Evaluate(reply[i].call) # "block" -> [kind |-> reply[i].kind, call |-> reply[i].call]
    [] OTHER -> IF Rewrites THEN [kind |-> "call", call |-> <<Tool, Echo>>]
                ELSE [kind |-> "gone", call |-> reply[i].call]
CompletedAgrees ==
  \A k \in 1..Len(out) : out[k].type = "completed" /\ ~Clash =>
    /\ DOMAIN out[k].copy = Items
    /\ \A i \in Items : out[k].copy[i].kind = Entry(i).kind /\ out[k].copy[i].call = Entry(i).call
    /\ out[k].note <=> \E i \in Items : Entry(i).kind = "gone"

(* Each call that began has a verdict of its own and one ledger row with   *)
(* it, on the whole call, or on what arrived when the stream was cut in it.*)
AllJudged ==
  /\ Judged = {i \in Started : IsCall(i)}
  /\ Cardinality(Judged) = Len(rows)
  /\ \A k \in 1..Len(rows) :
       /\ rows[k].index \in Finished => rows[k].call = reply[rows[k].index].call
       /\ rows[k].verdict = Evaluate(rows[k].call)

(* When the stream is over and nothing failed, all its calls were judged,  *)
(* the one it may have been cut in too.                                    *)
RowsComplete == phase = "done" /\ cause \in {"none", "cut"} => AllJudged

(* The calls of a reply that went through whole were judged each on its    *)
(* own, whether it streams them one after the other or side by side.       *)
JudgedIndependently == Delivered /\ Completed => AllJudged

(* ResponsesStream implements ToolGate.                                    *)
Gate == INSTANCE ToolGate WITH
  Calls     <- Indices,
  mode      <- conf.mode,
  assembled <- calls,
  verdict   <- Verdict,
  passed    <- Passed,
  replaced  <- Replaced,
  opened    <- Opened

GateSpec == Gate!Spec
=============================================================================
