------------------------- MODULE MCResponsesStream -------------------------
(* Small instances of ResponsesStream for TLC: "x" matches a block rule    *)
(* when tool "f" gets it, and so does "a" followed by "b".                 *)
EXTENDS ResponsesStream

CONSTANTS tool, echo, nothing

MCPieces      == {"f", "g", "a", "b", "x"}
MCBlockedArgs == {<<"f", "x">>, <<"f", "a", "b">>}
MCFlaggedArgs == {<<"g", "x">>}

Ev(type, call) == [type |-> type, call |-> call]
Deltas(c)  == [k \in 1..(Len(c) - 1) |-> Ev("delta", <<c[k + 1]>>)]
(* As OpenAI streams it; with the arguments in deltas only; or in the done *)
(* event only.                                                             *)
Full(c)    == <<Ev("added", <<c[1]>>)>> \o Deltas(c) \o
                <<Ev("args_done", Tail(c)), Ev("done", c)>>
ByDelta(c) == <<Ev("added", <<c[1]>>)>> \o Deltas(c) \o <<Ev("done", <<c[1]>>)>>
AtOnce(c)  == <<Ev("added", <<c[1]>>), Ev("done", c)>>

Call(c, script) == [kind |-> "call", call |-> c, script |-> script]
Text == [kind |-> "text", call |-> <<>>,
         script |-> <<Ev("added", <<>>), Ev("delta", <<>>), Ev("done", <<>>)>>]

FX  == <<"f", "x">>
FAB == <<"f", "a", "b">>
FA  == <<"f", "a">>
GX  == <<"g", "x">>

(* A text beside a call; two calls one after the other, of which none, the *)
(* first, the second or both are blocked, or that share their arguments.   *)
MainReplies ==
  {<<Text, Call(FAB, Full(FAB))>>, <<Call(FX, Full(FX)), Text>>, <<Call(FA, ByDelta(FA)), Text>>,
   <<Call(FAB, ByDelta(FAB)), Call(GX, AtOnce(GX))>>, <<Call(FA, AtOnce(FA)), Call(FX, ByDelta(FX))>>,
   <<Call(FX, AtOnce(FX)), Call(FAB, ByDelta(FAB))>>, <<Call(GX, Full(GX)), Call(FX, AtOnce(FX))>>}

(* Two calls.                                                              *)
PairReplies == {<<Call(FA, Full(FA)), Call(FX, Full(FX))>>}
=============================================================================
