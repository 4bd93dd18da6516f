------------------------------ MODULE MCWriteback ------------------------------
(* Instances of Writeback for TLC.                                               *)
EXTENDS Writeback, TLC

CONSTANTS i1, i2, a1, a2, k1, k2, k3, d1, d2, c1, c2

MCTwoIntents == {i1, i2}
MCActors == {a1, a2}
MCKeys == {k1, k2}
MCProviderKeys == {k1, k2, k3}
\* k2 is the compensation key of k1, and a client may choose it for an intent.
MCCompensationKey == [k \in MCKeys |-> IF k = k1 THEN k2 ELSE k3]
MCPayloads == {d1, d2}
\* Two makers whose intents share a key and differ in payload, one whose key is the others'
\* compensation key, and one with the feature off.
MCProposals ==
    {[requested_by |-> a1, idempotency_key |-> k1, payload_digest |-> d1, feature_enabled |-> TRUE],
     [requested_by |-> a2, idempotency_key |-> k1, payload_digest |-> d2, feature_enabled |-> TRUE],
     [requested_by |-> a2, idempotency_key |-> k2, payload_digest |-> d1, feature_enabled |-> TRUE],
     [requested_by |-> a2, idempotency_key |-> k1, payload_digest |-> d1, feature_enabled |-> FALSE]}
MCCalls == {c1, c2}
MCSymmetry == Permutations({i1, i2}) \cup Permutations({c1, c2})
=============================================================================
