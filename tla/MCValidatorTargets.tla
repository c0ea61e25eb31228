------------------------ MODULE MCValidatorTargets ------------------------
(***************************************************************************)
(* Small instances of ValidatorTargets for TLC.                            *)
(***************************************************************************)
EXTENDS ValidatorTargets, TLC

CONSTANTS i1, p1, w1, b1, seed,   \* ids: index, pubkey, address, malformed
          v0, v1, v2, v3          \* validators

MCValidator == {v0, v1, v2, v3}
\* Index i1 is one of the two validators of the address w1.
MCMembers == seed :> {v0} @@ i1 :> {v1} @@ p1 :> {v2} @@ w1 :> {v1, v3}
             @@ b1 :> {}
MCIndexId == {i1, seed}
MCPubkeyId == {p1}
MCWithdrawalId == {w1}
MCInvalidId == {b1}

Plain(id) == [id |-> id, seedLabels |-> FALSE]
Seed == [id |-> seed, seedLabels |-> TRUE]

\* The sample configuration, and what clients import in the runs.
MCConfig == {Seed}
ReqIndexPubkey == {Plain(i1), Plain(p1)}
ReqSeedInvalid == {Plain(i1), Plain(w1), Seed, Plain(b1)}
ReqIndexAddress == {Plain(i1), Plain(w1)}

\* Concurrent requests are interchangeable.
ImporterSymmetry == Permutations(Importer)

=============================================================================
