------------------------------- MODULE MCP2P -------------------------------
(* A small instance of P2P for TLC. *)
EXTENDS P2P, TLC

CONSTANTS u1, u2, r1, r2, c1, c2, c3, c4, a1, a2

Symmetry == Permutations({u1, u2}) \union Permutations({r1, r2})
            \union Permutations({c1, c2, c3, c4}) \union Permutations({a1, a2})
=============================================================================
