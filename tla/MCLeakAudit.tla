---------------------------- MODULE MCLeakAudit ----------------------------
(* Two sessions, one secret, a model maker's own host, an intermediary and *)
(* an upstream without api_base.                                           *)
EXTENDS LeakAudit

CONSTANTS s1, s2, key, maker, reseller

MCSessions == {s1, s2}
MCSymmetry == {[s \in {s1, s2} |-> s], [s \in {s1, s2} |-> IF s = s1 THEN s2 ELSE s1]}
=============================================================================
