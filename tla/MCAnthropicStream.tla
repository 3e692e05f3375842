------------------------- MODULE MCAnthropicStream -------------------------
(* Small instances of AnthropicStream for TLC: "x" alone matches a block   *)
(* rule, and so does "a" followed by "b", which no single event shows.     *)
EXTENDS AnthropicStream

CONSTANTS none, echo, nothing

MCPieces      == {"a", "b", "c", "x"}
MCBlockedArgs == {<<"x">>, <<"a", "b">>}
MCFlaggedArgs == {<<"c">>, <<"x">>}

Ev(type, i, arg, reason) == [type |-> type, ix |-> i, arg |-> arg, reason |-> reason]
TextStart(i)    == Ev("text_start", i, none, "none")
ToolStart(i, a) == Ev("tool_start", i, a, "none")
Delta(i, a)     == Ev("delta", i, a, "none")
Stop(i)         == Ev("stop", i, none, "none")
Reason(r)       == Ev("message_delta", 0, none, r)
UpPing          == Ev("ping", 0, none, "none")

(* Two blocks: a call spelled over its start and a delta, then a call or   *)
(* text, a ping anywhere, the stop reason.                                 *)
MainEvents ==
  {ToolStart(0, "a"), ToolStart(0, "x"), Delta(0, "b"), Stop(0),
   ToolStart(1, "c"), ToolStart(1, "x"), Stop(1), TextStart(1),
   Reason("tool_use"), UpPing}

(* A text reply, whose deltas may straddle.                                *)
TextEvents == {TextStart(0), Delta(0, none), Stop(0), Reason("end_turn")}
=============================================================================
