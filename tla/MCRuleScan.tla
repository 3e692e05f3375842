----------------------------- MODULE MCRuleScan -----------------------------
(* Two patterns, one secret value, rules of every kind, lists of up to     *)
(* three rules.                                                            *)
EXTENDS RuleScan

MCTokens  == {"bash", "curl", "env", "key"}
MCSecrets == {"key"}

R(a, k, f) == [action |-> a, kind |-> k, finds |-> f]

Regexes ==
  {R("block", "regex", {"env"}), R("block", "regex", {"curl", "env"}),
   R("flag", "regex", {"curl"}), R("flag", "regex", {"env", "bash"})}
PythonOnly == {R("block", "python", {"curl"}), R("flag", "python", {"env"})}
Working == Regexes \cup PythonOnly \cup {R("block", "secret", {}), R("flag", "secret", {})}

MCRuleLists == SeqOf(Working \cup {R("block", "dunder", {"env"})}, 3)
MCBuiltIn == <<R("block", "secret", {}), R("block", "regex", {"env"})>>

MCToolCalls ==
  {[tool |-> "bash", strings |-> s, raw |-> s, json |-> j] :
     s \in {{"curl"}, {"env"}, {"curl", "env"}, {"key", "curl"}}, j \in {TRUE}}
  \cup {[tool |-> "bash", strings |-> {}, raw |-> r, json |-> j] :
          r \in {{}, {"env"}}, j \in BOOLEAN}
=============================================================================
