---------------------------- MODULE MCReplyGate ----------------------------
(* Replies of up to two choices with up to two calls each, and lists of up *)
(* to three items: "x" matches a block rule, "f" a flag rule.              *)
EXTENDS ReplyGate

MCCalls   == {"a", "f", "x"}
MCBlocked == {"x"}
MCFlagged == {"f", "x"}

G(items, fin) == [items |-> items, fin |-> fin, notes |-> 0]
Fin(items, r) == IF items = <<>> THEN "stop" ELSE r

ChoiceItems == SeqOf({"a", "x"}, 2) \cup {<<"f">>}
MCReplies ==
  {[shape |-> "chat", groups |-> <<G(p, Fin(p, "tool_calls")), G(q, Fin(q, "tool_calls"))>>] :
     p, q \in ChoiceItems}
  \cup {[shape |-> "chat", groups |-> <<>>], [shape |-> "other", groups |-> <<G(<<"x">>, "tool_calls")>>]}
  \cup {[shape |-> "responses", groups |-> <<G(s, "none")>>] : s \in SeqOf({Text, "a", "x"}, 3)}
  \cup {[shape |-> "anthropic", groups |-> <<G(s, IF \E i \in DOMAIN s : s[i] # Text
                                                  THEN "tool_calls" ELSE "stop")>>] :
          s \in SeqOf({Text, "a", "x"}, 3)}
=============================================================================
