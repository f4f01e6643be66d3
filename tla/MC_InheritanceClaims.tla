------------------------ MODULE MC_InheritanceClaims ------------------------
(* Instantiation of InheritanceClaims for TLC: two relationships, the     *)
(* second with a lite beneficiary; two request tasks; two claim ids.      *)
EXTENDS InheritanceClaims, TLC

CONSTANTS r1, r2, c1, c2, p1, p2, a1, a2, t1, t2, t3, t4

MCRels == {r1, r2}
MCClaimIds == {c1, c2}
MCProcs == {p1, p2}
\* The concurrent run: two tasks, and only the relationship that can hold
\* claims (its beneficiary is a full account).
MCOneProc == {p1}
MCClaimableRels == {r1}
\* In the concurrent run only valid sweeps are submitted: the rejected
\* ones only reply, and the serial run covers them.
MCValidTxs == {t1, t2}
MCAddresses == {a1, a2}
MCBlocked == {a2}
MCTxs == {t1, t2, t3, t4}
\* t1, t2: valid sweeps (t2 a fee bump of t1); t3: two signed inputs;
\* t4: pays a blocked address.
MCTxOutput == (t1 :> a1) @@ (t2 :> a1) @@ (t3 :> a1) @@ (t4 :> a2)
MCTxSignedInputs == (t1 :> 1) @@ (t2 :> 1) @@ (t3 :> 2) @@ (t4 :> 1)
MCBeneficiaryType == (r1 :> "Full") @@ (r2 :> "Lite")

\* Bound: r2 exists to supply a lite beneficiary and, through its
\* benefactor, an external full account; its registry entry stays as created.
OtherRelationshipsUntouched ==
  \A r \in Rels \ {r1} : ~endorsed[r] /\ packages[r] = 0 /\ keyset[r] = 0

\* The request tasks are interchangeable.
MCSymmetry == Permutations(MCProcs)
=============================================================================
