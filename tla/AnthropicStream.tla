-------------------------- MODULE AnthropicStream --------------------------
(***************************************************************************)
(* GuardHook._stream_anthropic (guard/hooks.py): the handler that screens  *)
(* a streamed reply of the Messages format, a stream of SSE bytes.         *)
(*                                                                         *)
(* The reply is a sequence of content blocks.  Events of a tool_use block  *)
(* are held from its start to its stop, judged, and then released, changed *)
(* into one whole replacement or into a text block with a note; all other  *)
(* events go through at once.                                              *)
(*                                                                         *)
(* An event has its position n in the upstream's stream (0 for one the     *)
(* guard makes), its type, the index ix of its block, a fragment of the    *)
(* call's name and arguments (NoArg when it has none), a stop reason, and  *)
(* whole, which is FALSE when its bytes straddle two chunks of the relay:  *)
(* _sse_events parses neither half, and the blank line it puts between     *)
(* them leaves nothing the client could parse either.  Several events in   *)
(* one chunk are handled one by one like chunks of their own.              *)
(***************************************************************************)
EXTENDS Naturals, Sequences, FiniteSets, SequencesExt

CONSTANTS
  Pieces,        \* fragments of a call's name and arguments
  NoArg,         \* an event without such a fragment
  Echo,          \* the arguments of a rewritten call, or the note of a stripped one
  NoBlock,       \* open_index None
  Events,        \* the events this upstream may send
  Straddling,    \* the types of events whose bytes may straddle two chunks
  BlockedArgs,   \* assembled calls that match a block rule
  FlaggedArgs,   \* assembled calls that match a flag rule
  MaxBlocks,     \* bound: content blocks in the reply
  MaxEvents,     \* bound: events the upstream sends
  MaxPings       \* bound: pings of the guard counted

VARIABLES
  conf,          \* the knobs of the hook and whether rewrite_tool is offered
  phase,         \* where the handler is
  open,          \* open_index, the block that is held
  held,          \* its events and those that came within it
  kept,          \* kept_tool: a runnable tool block was released
  stripped,      \* a tool block was turned into a note
  queue,         \* the events that are still to be yielded
  cause,         \* why the reply was not screened to its end
  pings,         \* pings the guard sent
  received,      \* every event taken from the upstream (history)
  out,           \* every event yielded to the client (history)
  calls,         \* index -> what the handler assembled of the call (history)
  verdicts,      \* index -> verdict (history)
  rows           \* guard_tool_calls rows this reply wrote (history)

heldVars == <<open, held, kept, stripped>>
verdictVars == <<verdicts, rows>>
vars == <<conf, phase, heldVars, queue, cause, pings, received, out, calls, verdictVars>>

Indices  == 0..(MaxBlocks - 1)
Types    == {"text_start", "tool_start", "delta", "stop", "message_delta", "ping"}
Reasons  == {"none", "tool_use", "end_turn"}
Verdicts == {"allow", "flag", "block"}
Terminal == {"done", "raised", "gone"}

Shape == [type : Types, ix : Indices, arg : Pieces \cup {NoArg}, reason : Reasons]
Event == [n : Nat, whole : BOOLEAN, type : Types, ix : Indices,
          arg : Pieces \cup {NoArg, Echo}, reason : Reasons]
Conf  == [onBlock : {"rewrite", "strip"}, offered : BOOLEAN,
          fail : {"closed", "open"}, mode : {"block", "flag"}]

ASSUME EventsAssumption == Events \subseteq Shape /\ Straddling \subseteq Types
ASSUME BoundsAssumption == MaxBlocks \in Nat \ {0} /\ MaxEvents \in Nat /\ MaxPings \in Nat
ASSUME MarkersAssumption ==
  NoArg \notin Pieces /\ Echo \notin Pieces \cup {NoArg} /\ NoBlock \notin Nat
-----------------------------------------------------------------------------
(* Gate.evaluate on an assembled call.                                     *)
Evaluate(args) ==
  CASE args \in BlockedArgs -> IF conf.mode = "block" THEN "block" ELSE "flag"
    [] args \in FlaggedArgs \ BlockedArgs -> "flag"
    [] OTHER -> "allow"

Rewrites == conf.onBlock = "rewrite" /\ conf.offered

(* An event of the guard's own.                                            *)
Made(type, i, arg) ==
  [n |-> 0, whole |-> TRUE, type |-> type, ix |-> i, arg |-> arg, reason |-> "none"]
Ping == Made("ping", 0, NoArg)

(* mutant: the note lacks its content_block_stop                           *)
MutReplacement(i) ==
  <<Made(IF Rewrites THEN "tool_start" ELSE "text_start", i, NoArg), Made("delta", i, Echo)>>
    \o IF Rewrites THEN <<Made("stop", i, NoArg)>> ELSE <<>>

(* What a blocked block becomes: a call of rewrite_tool, or a note.        *)
Replacement(i) ==
  <<Made(IF Rewrites THEN "tool_start" ELSE "text_start", i, NoArg),
    Made("delta", i, Echo), Made("stop", i, NoArg)>>

(* mutant: a failing guard hands on what it held in either fail_mode       *)
MutUnscreened == held

(* What is yielded of a held block that cannot be judged.                  *)
Unscreened == IF conf.fail = "closed" THEN <<>> ELSE held

(* mutant: the turn ends as soon as one block was stripped                 *)
MutEndTurn(e) ==
  IF e.type = "message_delta" /\ stripped THEN [e EXCEPT !.reason = "end_turn"] ELSE e

(* The stop reason when nothing runnable is left.                          *)
EndTurn(e) ==
  IF e.type = "message_delta" /\ stripped /\ ~kept THEN [e EXCEPT !.reason = "end_turn"] ELSE e

Fragment(e) == IF e.arg = NoArg THEN <<>> ELSE <<e.arg>>

(* A delta of the block that is held.                                      *)
Own(e) == e.type = "delta" /\ e.ix = open
-----------------------------------------------------------------------------
(* The Messages protocol: blocks one after the other, numbered from 0,     *)
(* then one message_delta; a ping at any time.                             *)
Of(s, types) == {k \in 1..Len(s) : s[k].type \in types}
Started      == Cardinality(Of(received, {"text_start", "tool_start"}))
InBlock      == Started > Cardinality(Of(received, {"stop"}))
InTool       == InBlock /\ \E k \in Of(received, {"tool_start"}) : received[k].ix = Started - 1

UpstreamMay(s) ==
  /\ Len(received) < MaxEvents
  /\ s.type \in {"text_start", "tool_start"} => ~InBlock /\ s.ix = Started
  /\ s.type \in {"delta", "stop"} => InBlock /\ s.ix = Started - 1
  /\ s.arg # NoArg => s.type = "tool_start" \/ InTool
  /\ s.type = "message_delta" => ~InBlock
  /\ s.reason = "tool_use" => Of(received, {"tool_start"}) # {}
  /\ s.type # "ping" => Of(received, {"message_delta"}) = {}

Arrived(s, whole) ==
  [n |-> Len(received) + 1, whole |-> whole, type |-> s.type, ix |-> s.ix,
   arg |-> s.arg, reason |-> s.reason]

Init ==
  /\ conf \in Conf
  /\ phase = "collect"
  /\ open = NoBlock /\ held = <<>> /\ kept = FALSE /\ stripped = FALSE
  /\ queue = <<>> /\ cause = "none" /\ pings = 0
  /\ received = <<>> /\ out = <<>> /\ rows = <<>>
  /\ calls = [i \in Indices |-> <<>>]
  /\ verdicts = [i \in {} |-> "allow"]

(* An event arrives: a tool_use block is held from its start to its stop.  *)
Receive(s) ==
  LET e == Arrived(s, TRUE) IN
  /\ phase = "collect" /\ UpstreamMay(s)
  /\ received' = Append(received, e)
  /\ \/ /\ open = NoBlock /\ e.type = "tool_start"
        /\ open' = e.ix /\ held' = <<e>>
        /\ calls' = [calls EXCEPT ![e.ix] = Fragment(e)]
        /\ UNCHANGED <<phase, out>>
     \/ /\ open = NoBlock /\ e.type # "tool_start"
        /\ out' = Append(out, EndTurn(e))
        /\ UNCHANGED <<phase, open, held, calls>>
     \/ /\ open # NoBlock
        /\ held' = Append(held, e)
        /\ calls' = IF Own(e) THEN [calls EXCEPT ![open] = @ \o Fragment(e)] ELSE calls
        /\ phase' = IF e.type = "stop" /\ e.ix = open THEN "judge" ELSE "collect"
        /\ UNCHANGED <<open, out>>
  /\ UNCHANGED <<conf, kept, stripped, queue, cause, pings, verdictVars>>

(* An event arrives in two halves, which go on at once, held block or not. *)
Straddle(s) ==
  /\ phase = "collect" /\ UpstreamMay(s) /\ s.type \in Straddling
  /\ received' = Append(received, Arrived(s, FALSE))
  /\ out' = Append(out, Arrived(s, FALSE))
  /\ UNCHANGED <<conf, phase, heldVars, queue, cause, pings, calls, verdictVars>>

(* The upstream stalls for keepalive_seconds while a block is held.        *)
Stall ==
  /\ phase = "collect" /\ held # <<>> /\ pings < MaxPings
  /\ pings' = pings + 1
  /\ out' = Append(out, Ping)
  /\ UNCHANGED <<conf, phase, heldVars, queue, cause, received, calls, verdictVars>>

(* mutant: the ledger row has what came before the last delta              *)
MutJudge ==
  /\ phase = "judge"
  /\ LET args == IF calls[open] = <<>> THEN <<>> ELSE Front(calls[open]) IN
       /\ verdicts' = [i \in DOMAIN verdicts \cup {open} |->
                         IF i = open THEN Evaluate(args) ELSE verdicts[i]]
       /\ rows' = Append(rows, [index |-> open, args |-> args, verdict |-> Evaluate(args)])
  /\ phase' = "build"
  /\ UNCHANGED <<conf, heldVars, queue, cause, pings, received, out, calls>>

(* The call is evaluated and its ledger row written.                       *)
Judge ==
  /\ phase = "judge"
  /\ LET v == Evaluate(calls[open]) IN
       /\ verdicts' = [i \in DOMAIN verdicts \cup {open} |-> IF i = open THEN v ELSE verdicts[i]]
       /\ rows' = Append(rows, [index |-> open, args |-> calls[open], verdict |-> v])
  /\ phase' = "build"
  /\ UNCHANGED <<conf, heldVars, queue, cause, pings, received, out, calls>>

(* mutant: only the events of the block itself are released                *)
MutBuild ==
  LET blocked == verdicts[open] = "block" IN
  /\ phase = "build"
  /\ queue' = IF blocked THEN Replacement(open) ELSE SelectSeq(held, LAMBDA e : e.type # "ping")
  /\ kept' = (kept \/ ~blocked \/ Rewrites)
  /\ stripped' = (stripped \/ (blocked /\ ~Rewrites))
  /\ phase' = "release"
  /\ UNCHANGED <<conf, open, held, cause, pings, received, out, calls, verdictVars>>

(* What is released of the block is built.                                 *)
Build ==
  LET blocked == verdicts[open] = "block" IN
  /\ phase = "build"
  /\ queue' = IF blocked THEN Replacement(open) ELSE held
  /\ kept' = (kept \/ ~blocked \/ Rewrites)
  /\ stripped' = (stripped \/ (blocked /\ ~Rewrites))
  /\ phase' = "release"
  /\ UNCHANGED <<conf, open, held, cause, pings, received, out, calls, verdictVars>>

(* One yield.                                                              *)
Yield ==
  /\ phase \in {"release", "flush"} /\ queue # <<>>
  /\ out' = Append(out, Head(queue))
  /\ queue' = Tail(queue)
  /\ UNCHANGED <<conf, phase, heldVars, cause, pings, received, calls, verdictVars>>

EndRelease ==
  /\ phase = "release" /\ queue = <<>>
  /\ open' = NoBlock /\ held' = <<>>
  /\ phase' = "collect"
  /\ UNCHANGED <<conf, kept, stripped, queue, cause, pings, received, out, calls, verdictVars>>

(* mutant: the end of the stream inside a block is taken for its stop, as  *)
(* the other handlers do, but nothing waits for the verdict                *)
MutUpstreamEnds ==
  /\ phase = "collect"
  /\ cause' = "none"
  /\ queue' = held
  /\ phase' = "flush"
  /\ UNCHANGED <<conf, heldVars, pings, received, out, calls, verdictVars>>

(* The stream ends, perhaps inside a block, which is then not judged.      *)
UpstreamEnds ==
  /\ phase = "collect"
  /\ cause' = IF held # <<>> THEN "cut" ELSE "none"
  /\ queue' = Unscreened
  /\ phase' = "flush"
  /\ UNCHANGED <<conf, heldVars, pings, received, out, calls, verdictVars>>

(* mutant: only a reply that failed is ended                               *)
MutEndFlush ==
  /\ phase = "flush" /\ queue = <<>> /\ cause # "none"
  /\ phase' = "done"
  /\ UNCHANGED <<conf, heldVars, queue, cause, pings, received, out, calls, verdictVars>>

EndFlush ==
  /\ phase = "flush" /\ queue = <<>>
  /\ phase' = "done"
  /\ UNCHANGED <<conf, heldVars, queue, cause, pings, received, out, calls, verdictVars>>
-----------------------------------------------------------------------------
(* The except clause: what is held is dropped or handed on, and the rest   *)
(* of the upstream's stream is not read.                                   *)
Fail(why) ==
  /\ cause' = why
  /\ phase' = "flush"
  /\ UNCHANGED <<conf, open, kept, stripped, pings, out, calls, verdictVars>>

(* The guard fails on an event it has just taken: data that is no object   *)
(* before it is held, data of another form than expected behind that.      *)
EventError(s) ==
  LET e == Arrived(s, TRUE) IN
  /\ phase = "collect" /\ UpstreamMay(s)
  /\ received' = Append(received, e)
  /\ held' \in IF open = NoBlock THEN {held} ELSE {held, Append(held, e)}
  /\ queue' = IF conf.fail = "closed" THEN <<>> ELSE held'
  /\ Fail("guard")

(* The guard fails while it judges or builds a replacement.                *)
GuardError ==
  /\ phase = "judge" \/ (phase = "build" /\ verdicts[open] = "block")
  /\ queue' = Unscreened
  /\ Fail("guard")
  /\ UNCHANGED <<held, received>>

(* The upstream fails.  Before the first event nothing catches it.         *)
UpstreamError ==
  /\ phase = "collect"
  /\ \/ /\ received # <<>>
        /\ queue' = Unscreened
        /\ Fail("upstream")
        /\ UNCHANGED <<held, received>>
     \/ /\ received = <<>>
        /\ cause' = "upstream"
        /\ phase' = "raised"
        /\ UNCHANGED <<conf, heldVars, queue, pings, received, out, calls, verdictVars>>

(* The client goes away: the generator is closed at a yield or an await.   *)
ClientGone ==
  /\ phase \in {"collect", "release", "flush"}
  /\ phase' = "gone"
  /\ UNCHANGED <<conf, heldVars, queue, cause, pings, received, out, calls, verdictVars>>

Over == phase \in Terminal /\ UNCHANGED vars

(* The handler's own steps, which asyncio runs as soon as they can run.    *)
GuardStep == Judge \/ Build \/ Yield \/ EndRelease \/ EndFlush

Next ==
  \/ \E s \in Events : Receive(s) \/ Straddle(s) \/ EventError(s)
  \/ Stall
  \/ GuardStep
  \/ UpstreamEnds
  \/ UpstreamError
  \/ GuardError
  \/ ClientGone
  \/ Over

Spec     == Init /\ [][Next]_vars
FairSpec == Spec /\ WF_vars(GuardStep)
-----------------------------------------------------------------------------
(***************************************************************************)
(* What the client and the upstream hold: events that did not straddle.    *)
(***************************************************************************)
WholeAt(s, types, i) == {k \in Of(s, types) : s[k].ix = i /\ s[k].whole}

(* The call of block i that the stream s spells out, and whether it has one.*)
Spelled(s, i) ==
  FlattenSeq([k \in 1..Len(s) |->
    IF k \in WholeAt(s, {"tool_start", "delta"}, i) THEN Fragment(s[k]) ELSE <<>>])
Called(s, i) == WholeAt(s, {"tool_start"}, i) # {}

Original(i)  == \E k \in WholeAt(out, {"tool_start"}, i) : out[k].n > 0
Replaced     == {i \in Indices : \E k \in WholeAt(out, {"text_start", "tool_start"}, i) :
                                   out[k].n = 0}
Passed       == {i \in Indices : Original(i)}

Opened    == cause # "none" /\ conf.fail = "open"
Delivered == phase = "done" /\ cause = "none"
Intact    == \A k \in 1..Len(received) : received[k].whole

(* Type correctness of the handler's locals.                               *)
TypeOK ==
  /\ conf \in Conf
  /\ phase \in {"collect", "judge", "build", "release", "flush"} \cup Terminal
  /\ open \in Indices \cup {NoBlock}
  /\ held \in Seq(Event) /\ queue \in Seq(Event)
  /\ received \in Seq(Event) /\ out \in Seq(Event)
  /\ kept \in BOOLEAN /\ stripped \in BOOLEAN
  /\ cause \in {"none", "guard", "upstream", "cut"}
  /\ pings \in Nat
  /\ calls \in [Indices -> Seq(Pieces)]
  /\ DOMAIN verdicts \subseteq Indices /\ verdicts \in [DOMAIN verdicts -> Verdicts]
  /\ rows \in Seq([index : Indices, args : Seq(Pieces), verdict : Verdicts])

(* A block is held exactly while it is open; a judged block was judged on  *)
(* what was assembled of it; the original of a call is out, or about to    *)
(* be, only after a verdict that lets it through, its replacement only     *)
(* after one that blocks it, unless the guard failed open.                 *)
HeldInv ==
  /\ held = <<>> <=> open = NoBlock
  /\ phase \in {"judge", "build", "release"} => open # NoBlock
  /\ phase \in {"collect", "judge"} => open \notin DOMAIN verdicts
  /\ phase \in {"build", "release"} => open \in DOMAIN verdicts
ReleasedOnVerdict ==
  /\ \A i \in DOMAIN verdicts : verdicts[i] = Evaluate(calls[i])
  /\ Opened \/ \A i \in Passed : i \in DOMAIN verdicts /\ verdicts[i] # "block"
  /\ Opened \/ \A i \in Replaced : i \in DOMAIN verdicts /\ verdicts[i] = "block"
Inv == TypeOK /\ HeldInv /\ ReleasedOnVerdict

(* The client never holds the start of a tool_use block whose call, as the *)
(* upstream spelled it, matches a block rule, unless the guard failed open;*)
(* wherever events straddle chunks, what the client can parse is judged.   *)
NoBlockedCallDelivered ==
  \A i \in Passed : Opened \/ Evaluate(Spelled(received, i)) # "block"

(* When the reply went through, the client holds every call complete, if   *)
(* it was let through; one whole replacement under its index, if it was    *)
(* rewritten; and a text block with the note in its place, if stripped.    *)
ClientAssemblesVerdict ==
  Delivered => \A i \in Indices : Called(received, i) =>
    LET args    == Spelled(received, i)
        blocked == Evaluate(args) = "block"
    IN  /\ Called(out, i) <=> (~blocked \/ Rewrites)
        /\ WholeAt(out, {"text_start"}, i) = {} <=> Called(out, i)
        /\ Spelled(out, i) = IF blocked THEN <<Echo>> ELSE args

(* The blocks the client sees never overlap: a delta or a stop belongs to  *)
(* the block that was started last and is not stopped, whatever was        *)
(* released, replaced or dropped; a reply that went through leaves none    *)
(* open but one the upstream left open.                                    *)
Opens(k)  == {j \in Of(out, {"text_start", "tool_start"}) : j < k}
Closes(k) == {j \in Of(out, {"stop"}) : j < k}
BlocksWellFormed ==
  Intact =>
    /\ \A k \in Of(out, {"text_start", "tool_start"}) :
         Cardinality(Opens(k)) = Cardinality(Closes(k))
    /\ \A k \in Of(out, {"delta", "stop"}) :
         /\ Cardinality(Opens(k)) = Cardinality(Closes(k)) + 1
         /\ \E j \in Opens(k) : out[j].ix = out[k].ix
    /\ Delivered /\ ~InBlock => Cardinality(Opens(Len(out) + 1)) = Cardinality(Closes(Len(out) + 1))

(* The stop reason the client sees is the upstream's, except that it is    *)
(* end_turn when calls were stripped and the client holds none to run.     *)
StopReason ==
  Intact => \A k \in Of(out, {"message_delta"}) :
    LET ran == Of(out, {"tool_start"}) # {} IN
    out[k].reason = IF Replaced # {} /\ ~ran THEN "end_turn" ELSE received[out[k].n].reason

(* A reply nothing was blocked in reaches the client as it came, event by  *)
(* event and in order, but for the guard's pings.                          *)
NothingBlocked == \A i \in DOMAIN verdicts : verdicts[i] # "block"
InOrder(q, s, m) ==
  LET own == {k \in 1..Len(q) : q[k].n > 0}
  IN  /\ \A k \in own : q[k].n \in 1..m /\ q[k] = s[q[k].n]
      /\ \A j, k \in own : j < k => q[j].n < q[k].n
      /\ \A n \in 1..m : \E k \in own : q[k].n = n
PassThrough ==
  Delivered /\ Intact /\ NothingBlocked => InOrder(out, received, Len(received))

(* The same, byte by byte, wherever the chunks of the relay begin and end. *)
BytesPassThrough ==
  Delivered /\ NothingBlocked => \A k \in 1..Len(out) : out[k].whole

(* Once a call is complete, or the stream has ended or failed, the handler *)
(* takes up the stream again or ends, unless the client left.              *)
Terminates ==
  /\ (phase = "flush") ~> (phase \in Terminal)
  /\ (phase = "judge") ~> (phase \in {"collect"} \cup Terminal)
-----------------------------------------------------------------------------
(* AnthropicStream implements ToolGate.                                    *)
Verdict == [i \in Indices |-> IF i \in DOMAIN verdicts THEN verdicts[i] ELSE "none"]

Gate == INSTANCE ToolGate WITH
  Calls     <- Indices,
  mode      <- conf.mode,
  assembled <- calls,
  verdict   <- Verdict,
  passed    <- Passed,
  replaced  <- Replaced,
  opened    <- Opened

GateSpec == Gate!Spec
=============================================================================
