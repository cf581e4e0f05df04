----------------------------- MODULE MCUmaClient -----------------------------
(****************************************************************************)
(* Instances of UmaClient for TLC: small trees of resources and accounts.   *)
(****************************************************************************)
EXTENDS UmaClientRefinements, TLC

CONSTANTS root, pod, doc, other, aside, alice, bob, as1, as2

\* One pod with two documents: root / pod / doc, root / pod / other, and the
\* pod of another account: root / aside.
Docs == {root, pod, doc, other, aside}
DocsParent == pod :> root @@ doc :> pod @@ other :> pod @@ aside :> root
DocsOwner == pod :> alice @@ doc :> alice @@ other :> alice @@ aside :> bob

\* Two pods of two accounts next to each other in the root container.
Pods == {root, pod, other}
PodsParent == pod :> root @@ other :> root
PodsOwner == pod :> alice @@ other :> bob

OneIssuer == alice :> as1 @@ bob :> as1
TwoIssuers == alice :> as1 @@ bob :> as2
=============================================================================
