--------------------------- MODULE MCMaskRequest ---------------------------
(* A small instance of MaskRequest for TLC: the same value in two strings, *)
(* next to another one.                                                    *)
EXTENDS MaskRequest, TLC

CONSTANTS garbled, p1, p2, v1, v2

MCValues   == {v1, v2}
MCContents == {{v1}, {v2}, garbled}
MCRequests == {<<v1 :> 1 @@ v2 :> 0, v1 :> 2 @@ v2 :> 1>>}
=============================================================================
