------------------------------ MODULE ReplyGate ------------------------------
(***************************************************************************)
(* The screening of a whole reply (guard/hooks.py,                         *)
(* async_post_call_success_hook with _gate_responses, _gate_anthropic and  *)
(* _strip_all).                                                            *)
(*                                                                         *)
(* A reply is a sequence of groups: the choices of a chat completion, or   *)
(* the one output or content list of the other formats.  A group is a      *)
(* sequence of items, some of them tool calls, with a finish reason and    *)
(* the notes added to it.  Group by group, every call is judged, and then  *)
(* the blocked ones are rewritten one by one or stripped together, in the  *)
(* reply itself.  When the guard fails on the way, all calls are dropped   *)
(* (closed) or the reply is handed on as far as it got (open).             *)
(***************************************************************************)
EXTENDS Naturals, Sequences, FiniteSets, SequencesExt

CONSTANTS
  Calls,        \* what a tool call may be: its name and arguments
  Text,         \* an item that is no tool call
  Echo,         \* a rewritten call
  BlockedArgs,  \* calls that match a block rule
  FlaggedArgs,  \* calls that match a flag rule
  Replies       \* the replies this upstream may send

VARIABLES
  conf,         \* the knobs of the hook and whether rewrite_tool is offered
  original,     \* the reply as the upstream sent it (history)
  groups,       \* the groups of the reply as they stand
  g,            \* the group that is looked at
  k,            \* the item of it that is judged next
  blocked,      \* the items of it that are blocked and still as they were
  phase,        \* where the hook is
  cause,        \* what failed
  rows          \* guard_tool_calls rows this reply wrote (history)

vars == <<conf, original, groups, g, k, blocked, phase, cause, rows>>

(* "other": a reply _shape does not know, or a dict with choices, which it *)
(* knows but which the hook reads as if it had none.                       *)
Shapes   == {"chat", "responses", "anthropic", "other"}
Reasons  == {"none", "tool_calls", "stop"}
Verdicts == {"allow", "flag", "block"}

Items == Calls \cup {Text, Echo}
Group == [items : Seq(Items), fin : Reasons, notes : Nat]
Conf  == [onBlock : {"rewrite", "strip"}, offered : BOOLEAN,
          fail : {"closed", "open"}, mode : {"block", "flag"}]
Row   == [call : Calls, verdict : Verdicts]

ASSUME MarkersAssumption == Text \notin Calls /\ Echo \notin Calls \cup {Text}

(* Only chat completions have several groups, and these hold calls only;   *)
(* the Responses format has no finish reason.                              *)
ASSUME RepliesAssumption ==
  \A r \in Replies :
    /\ r \in [shape : Shapes, groups : Seq([items : Seq(Calls \cup {Text}), fin : Reasons, notes : {0}])]
    /\ r.shape # "chat" => Len(r.groups) = 1
    /\ r.shape = "chat" => \A i \in 1..Len(r.groups) : r.groups[i].items \in Seq(Calls)
    /\ r.shape = "responses" => r.groups[1].fin = "none"
-----------------------------------------------------------------------------
(* Gate.evaluate.                                                          *)
Evaluate(call) ==
  CASE call \in BlockedArgs -> IF conf.mode = "block" THEN "block" ELSE "flag"
    [] call \in FlaggedArgs \ BlockedArgs -> "flag"
    [] OTHER -> "allow"

Rewrites == conf.onBlock = "rewrite" /\ conf.offered
IsCall(item) == item # Text
HasCalls(gr) == \E i \in 1..Len(gr.items) : IsCall(gr.items[i])

(* What is kept of a list of items: those at the positions S, in order.    *)
At(items, S) == FlattenSeq([i \in 1..Len(items) |-> IF i \in S THEN <<items[i]>> ELSE <<>>])
CallsIn(items)  == {i \in 1..Len(items) : IsCall(items[i])}
OthersIn(items) == (1..Len(items)) \ CallsIn(items)
Stop(gr)  == IF original.shape = "responses" THEN gr ELSE [gr EXCEPT !.fin = "stop"]

(* mutant: the turn ends as soon as a call was stripped                    *)
MutStripped(gr) ==
  Stop([gr EXCEPT !.items = At(@, (1..Len(@)) \ blocked), !.notes = @ + 1])

(* The group without its blocked calls, with a note; when no call is left  *)
(* the turn ends.                                                          *)
Stripped(gr) ==
  LET kept == [gr EXCEPT !.items = At(@, (1..Len(@)) \ blocked), !.notes = @ + 1]
  IN  IF HasCalls(kept) THEN kept ELSE Stop(kept)

(* mutant: all items go with the calls                                     *)
MutDropped(gr) ==
  IF HasCalls(gr) \/ original.shape # "chat"
  THEN Stop([gr EXCEPT !.items = <<>>, !.notes = @ + 1])
  ELSE gr

(* _strip_all: the group without any call.                                 *)
Dropped(gr) ==
  IF HasCalls(gr) \/ original.shape # "chat"
  THEN Stop([gr EXCEPT !.items = At(@, OthersIn(@)), !.notes = @ + 1])
  ELSE gr
-----------------------------------------------------------------------------
Init ==
  /\ conf \in Conf
  /\ original \in Replies
  /\ groups = original.groups
  /\ g = 1 /\ k = 1
  /\ blocked = {}
  /\ phase = IF original.shape = "other" THEN "done" ELSE "judge"
  /\ cause = "none"
  /\ rows = <<>>

Judging == phase = "judge" /\ g <= Len(groups)
Item    == groups[g].items[k]
Judged  == Append(rows, [call |-> Item, verdict |-> Evaluate(Item)])

(* mutant: only calls that match a rule get a row                          *)
MutJudgeItem ==
  /\ Judging /\ k <= Len(groups[g].items)
  /\ rows' = IF IsCall(Item) /\ Evaluate(Item) # "allow" THEN Judged ELSE rows
  /\ blocked' = IF IsCall(Item) /\ Evaluate(Item) = "block" THEN blocked \cup {k} ELSE blocked
  /\ k' = k + 1
  /\ UNCHANGED <<conf, original, groups, g, phase, cause>>

(* One item: a call is evaluated, its ledger row written, and put with the *)
(* kept or the blocked ones.                                               *)
JudgeItem ==
  /\ Judging /\ k <= Len(groups[g].items)
  /\ rows' = IF IsCall(Item) THEN Judged ELSE rows
  /\ blocked' = IF IsCall(Item) /\ Evaluate(Item) = "block" THEN blocked \cup {k} ELSE blocked
  /\ k' = k + 1
  /\ UNCHANGED <<conf, original, groups, g, phase, cause>>

NextGroup ==
  /\ g' = g + 1 /\ k' = 1
  /\ blocked' = {}
  /\ phase' = "judge"

(* All items of the group have their verdicts.                             *)
GroupJudged ==
  /\ Judging /\ k > Len(groups[g].items)
  /\ \/ /\ blocked = {}
        /\ NextGroup
     \/ /\ blocked # {}
        /\ phase' = IF Rewrites THEN "rewrite" ELSE "strip"
        /\ UNCHANGED <<g, k, blocked>>
  /\ UNCHANGED <<conf, original, groups, cause, rows>>

(* mutant: the rewriting stops after the first blocked call                *)
MutRewriteCall ==
  /\ phase = "rewrite" /\ blocked # {}
  /\ LET i == CHOOSE j \in blocked : \A l \in blocked : j <= l IN
       /\ groups' = [groups EXCEPT ![g].items[i] = Echo]
       /\ blocked' = {}
  /\ UNCHANGED <<conf, original, g, k, phase, cause, rows>>

(* One blocked call is rewritten in place.                                 *)
RewriteCall ==
  /\ phase = "rewrite" /\ blocked # {}
  /\ LET i == CHOOSE j \in blocked : \A l \in blocked : j <= l IN
       /\ groups' = [groups EXCEPT ![g].items[i] = Echo]
       /\ blocked' = blocked \ {i}
  /\ UNCHANGED <<conf, original, g, k, phase, cause, rows>>

GroupRewritten ==
  /\ phase = "rewrite" /\ blocked = {}
  /\ NextGroup
  /\ UNCHANGED <<conf, original, groups, cause, rows>>

StripGroup ==
  /\ phase = "strip"
  /\ groups' = [groups EXCEPT ![g] = Stripped(groups[g])]
  /\ NextGroup
  /\ UNCHANGED <<conf, original, cause, rows>>

Return ==
  /\ phase \in {"judge", "drop"} /\ g > Len(groups)
  /\ phase' = "done"
  /\ UNCHANGED <<conf, original, groups, g, k, blocked, cause, rows>>

(* The guard fails on a call, before or behind its ledger row, or while it *)
(* makes a replacement or the note.                                        *)
GuardError ==
  /\ \/ Judging /\ k <= Len(groups[g].items) /\ IsCall(Item) /\ rows' \in {rows, Judged}
     \/ phase = "rewrite" /\ blocked # {} /\ UNCHANGED rows
     \/ phase = "strip" /\ UNCHANGED rows
  /\ cause' = "guard"
  /\ phase' = IF conf.fail = "closed" THEN "drop" ELSE "done"
  /\ g' = 1
  /\ UNCHANGED <<conf, original, groups, k, blocked>>

(* _strip_all goes through the reply as it stands by now ...               *)
DropGroup ==
  /\ phase = "drop" /\ g <= Len(groups)
  /\ groups' = [groups EXCEPT ![g] = Dropped(groups[g])]
  /\ g' = g + 1
  /\ UNCHANGED <<conf, original, k, blocked, phase, cause, rows>>

(* ... and its own failure is only logged.                                 *)
DropError ==
  /\ phase = "drop" /\ g <= Len(groups)
  /\ cause' = "strip"
  /\ phase' = "done"
  /\ UNCHANGED <<conf, original, groups, g, k, blocked, rows>>

Over == phase = "done" /\ UNCHANGED vars

Next ==
  \/ JudgeItem
  \/ GroupJudged
  \/ RewriteCall
  \/ GroupRewritten
  \/ StripGroup
  \/ Return
  \/ GuardError
  \/ DropGroup
  \/ DropError
  \/ Over

Spec == Init /\ [][Next]_vars
-----------------------------------------------------------------------------
TypeOK ==
  /\ conf \in Conf
  /\ original \in Replies
  /\ groups \in Seq(Group) /\ Len(groups) = Len(original.groups)
  /\ g \in 1..(Len(groups) + 1)
  /\ Judging => k \in 1..(Len(groups[g].items) + 1)
  /\ phase \in {"judge", "rewrite", "strip"} /\ g <= Len(groups) =>
       blocked \subseteq 1..Len(original.groups[g].items)
  /\ phase \in {"judge", "rewrite", "strip", "drop", "done"}
  /\ cause \in {"none", "guard", "strip"}
  /\ rows \in Seq(Row)

Returned == phase = "done" /\ original.shape # "other"

(* What is left of a group when every call is dealt with by its verdict.   *)
Bad(items)     == {i \in CallsIn(items) : Evaluate(items[i]) = "block"}
Outcome(items) ==
  IF Rewrites THEN [i \in 1..Len(items) |-> IF i \in Bad(items) THEN Echo ELSE items[i]]
  ELSE At(items, (1..Len(items)) \ Bad(items))

(* A reply that was screened to its end has every call as its verdict      *)
(* demands, in all of its choices; one that failed closed has none.        *)
CallsAsJudged ==
  Returned =>
    /\ cause = "none" =>
         \A i \in 1..Len(groups) : groups[i].items = Outcome(original.groups[i].items)
    /\ cause = "guard" /\ conf.fail = "closed" => \A i \in 1..Len(groups) : ~HasCalls(groups[i])

(* Each choice that lost all its calls, whether their verdicts or a        *)
(* failure took them, says so and does not end in tool_calls; one that     *)
(* still has calls ends as the upstream said.                              *)
FinishFits ==
  Returned /\ cause # "strip" /\ ~(cause = "guard" /\ conf.fail = "open") =>
    \A i \in 1..Len(groups) :
      /\ HasCalls(original.groups[i]) /\ ~HasCalls(groups[i]) =>
           groups[i].notes > 0 /\ groups[i].fin # "tool_calls"
      /\ HasCalls(groups[i]) => groups[i].fin = original.groups[i].fin

(* Nothing but calls is ever taken from the reply, however the screening   *)
(* ends and wherever it failed.                                            *)
OtherKept ==
  \A i \in 1..Len(groups) :
    At(groups[i].items, OthersIn(groups[i].items)) =
      At(original.groups[i].items, OthersIn(original.groups[i].items))

(* The rows are those of the first calls of the reply, in order, each with *)
(* its verdict; a reply screened to its end has them all.  Unless the      *)
(* guard failed closed, a group is changed only once all of its calls have *)
(* theirs, and never loses a call that is not blocked.                     *)
CallsOf(s) ==
  LET items == FlattenSeq([i \in 1..Len(s) |-> s[i].items]) IN At(items, CallsIn(items))
Clear(items) ==
  At(items, {i \in CallsIn(items) : items[i] # Echo /\ Evaluate(items[i]) # "block"})
RowsFirst ==
  LET calls == CallsOf(original.groups)
  IN  /\ Len(rows) <= Len(calls)
      /\ \A i \in 1..Len(rows) : rows[i] = [call |-> calls[i], verdict |-> Evaluate(calls[i])]
      /\ cause = "none" \/ conf.fail = "open" =>
           \A i \in 1..Len(groups) :
             /\ Clear(groups[i].items) = Clear(original.groups[i].items)
             /\ groups[i] # original.groups[i] =>
                  Len(rows) >= Len(CallsOf(SubSeq(original.groups, 1, i)))
      /\ Returned /\ cause = "none" => Len(rows) = Len(calls)

(* Wherever a reply is in its screening, or failed in it, the ledger has   *)
(* the calls that were judged so far, and no other call is gone.           *)
Inv == TypeOK /\ RowsFirst
=============================================================================
