---------------------------- MODULE MCNegotiation ----------------------------
(* Instances of Negotiation for TLC.                                        *)
EXTENDS Negotiation, TLC

CONSTANTS read, write, create, derivation, alice, sources, notes, remote

\* Permissions on two resources; reading the sources takes an access token of
\* the server they are derived from, and something may be derived from notes.
MCDerivedFrom == read :> {derivation} @@ write :> {} @@ create :> {}
MCResourceOf ==
  read :> sources @@ write :> notes @@ create :> notes @@ derivation :> remote
MCCreation == notes :> create

\* What is open to everybody, and what alice may do on top of that.
Says(everybody, hers) ==
  [S \in SUBSET Credential |-> IF alice \in S THEN everybody \cup hers ELSE everybody]

MCPolicies == {Says({write}, {read, create}), Says({}, {})}

MCPushes == {{alice}, {alice, derivation}}

\* The handlers are alike.
Symmetry == Permutations(Handler)
=============================================================================
