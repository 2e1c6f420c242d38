------------------------------ MODULE MCFront ------------------------------
(***************************************************************************)
(* An instance of Front for TLC: two visitors, a proxy and one behind it,  *)
(* either of which the operator may have forgotten to name; a visitor who  *)
(* claims to be the other one, a proxy or nothing readable; and a list of  *)
(* proxies so wide that it takes in one of the visitors.                   *)
(***************************************************************************)
EXTENDS Front, TLC

CONSTANTS v1, v2, p1, p2

MCVisitor == {v1, v2}
MCProxy == {p1, p2}
MCAddr == MCVisitor \cup MCProxy
MCPaths == {<<>>, <<p2>>, <<p1, p2>>}
MCHeaders == {<<>>, <<v2, Junk, p1>>}
MCRealIPs == {v1, Junk}

Nothing == [x \in {} |-> 0]
Set(field, value) == [x \in {field} |-> value]

MCSources ==
    {Nothing,
     Set("trusted_proxies", {p2}),
     Set("trusted_proxies", {p1, p2}),
     Set("trusted_proxies", {p1, p2, v2}),
     Set("trusted_proxies", {Junk}),
     [store_enabled |-> FALSE, cert |-> TRUE, key |-> TRUE],
     Set("metrics_path", "/api/ping"),
     Set("grace_seconds", 10)}

Symmetry == Permutations(Stream)
=============================================================================
