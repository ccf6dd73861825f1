---------------------------- MODULE MCVaultAccess ----------------------------
(* Finite instances of VaultAccess. *)
EXTENDS VaultAccess, TLC

CONSTANTS c1, c2, v1, v2, v3

\* Round 1 has two members, round 2 has three.
MCMembers == [r \in Rounds |-> IF r = 1 THEN {v1, v2} ELSE {v1, v2, v3}]

\* One partial is enough for the chain; with the ratio 2/5 round 2 asks for two.
MCLowThreshold == [r \in Rounds |-> 1]

MCThreshold == [r \in Rounds |-> 2]

\* Nobody of round 1 attests, so a call with attestationConfig can end well only in
\* round 2, and there only without v1.
MCTrusted == [r \in Rounds |-> IF r = 1 THEN {} ELSE {v2, v3}]

\* v1 and v3 have another pid in round 2, v2 keeps its own.
MCPid == [r \in Rounds |-> IF r = 1 THEN v1 :> 1 @@ v2 :> 2 @@ v3 :> 3
                                    ELSE v1 :> 3 @@ v2 :> 2 @@ v3 :> 1]

Versions1And2 == Permutations({c1, c2})
=============================================================================
