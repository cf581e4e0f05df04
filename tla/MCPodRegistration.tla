-------------------------- MODULE MCPodRegistration --------------------------
(****************************************************************************)
(* The pod of one account, which gets settings for one or two issuers.      *)
(****************************************************************************)
EXTENDS PodRegistration, UmaClientRefinements, TLC

CONSTANTS root, pod, doc, alice1, alice2, as1, as2

Tree == {root, pod, doc}
TreeParent == pod :> root @@ doc :> pod
TreeOwner == [r \in Tree \ {root} |-> alice1]
IssuerOfSettings == alice1 :> as1 @@ alice2 :> as2

\* The user moves from one issuer to another.
TwoIssuers == <<alice1, alice2>>
=============================================================================
