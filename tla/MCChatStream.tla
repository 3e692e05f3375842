---------------------------- MODULE MCChatStream ----------------------------
(* Small instances of ChatStream for TLC: calls of one or two fragments,   *)
(* "x" alone matches a block rule, and so does "a" followed by "b", which  *)
(* no single delta shows; "c" is flagged.                                  *)
EXTENDS ChatStream

CONSTANTS c0, usage, none, echo

MCIndices     == {0, 1}
MCPieces      == {"a", "b", "c", "x"}
MCBlockedArgs == {<<"x">>, <<"a", "b">>}
MCFlaggedArgs == {<<"c">>, <<"x">>}

Text(ch)      == [ch |-> ch, tcs |-> NoDeltas, text |-> "text", fin |-> "none"]
Finish(ch, f) == [ch |-> ch, tcs |-> NoDeltas, text |-> "", fin |-> f]
Usage         == [ch |-> usage, tcs |-> NoDeltas, text |-> "", fin |-> "none"]

(* One delta; two deltas of parallel calls in one chunk; a delta that      *)
(* shares its chunk with text; one that shares it with the finish reason.  *)
Tool(ch, i, a, id) ==
  [ch |-> ch, tcs |-> [j \in {i} |-> [arg |-> a, id |-> id]], text |-> "", fin |-> "none"]
Both(ch, a, b) ==
  [ch |-> ch, text |-> "", fin |-> "none",
   tcs |-> [j \in {0, 1} |-> [arg |-> IF j = 0 THEN a ELSE b, id |-> TRUE]]]
Mixed(ch, i, a)    == [Tool(ch, i, a, FALSE) EXCEPT !.text = "text"]
WithFinish(ch, i, a) == [Tool(ch, i, a, TRUE) EXCEPT !.fin = "tool_calls"]

(* What a chat model streams: text, calls, a finish reason, the usage; the *)
(* id of a call may come with its second delta, the finish reason with the *)
(* last delta of a call.                                                   *)
MainShapes ==
  {Text(c0), Usage, Mixed(c0, 0, "a"), Finish(c0, "tool_calls"),
   Tool(c0, 0, none, TRUE), Tool(c0, 0, "b", TRUE), Tool(c0, 1, "x", FALSE), Both(c0, "c", "x"),
   WithFinish(c0, 0, "b")}

(* Two parallel calls, of which one is blocked.                            *)
ParallelShapes == {Tool(c0, 0, "c", TRUE), Tool(c0, 1, "x", TRUE), Finish(c0, "tool_calls")}

(* Both upstreams are of the kind the theorems on assembled calls and      *)
(* finish reasons ask for.                                                 *)
ASSUME UpstreamAssumption == OwnIndices /\ FinishApart
=============================================================================
