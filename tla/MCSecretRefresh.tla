-------------------------- MODULE MCSecretRefresh --------------------------
(* Two files, two values, and files that are not UTF-8.                    *)
EXTENDS SecretRefresh

CONSTANTS p1, p2, k1, k2, garbled

MCPaths    == {p1, p2}
MCValues   == {k1, k2}
MCContents == {{}, {k1}, {k2}, garbled}
=============================================================================
