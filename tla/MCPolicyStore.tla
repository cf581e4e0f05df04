---------------------------- MODULE MCPolicyStore ----------------------------
(* Instances of PolicyStore for TLC: a request for access, the policy it    *)
(* leads to, a policy of its owner, and two edits that may overlap.         *)
EXTENDS PolicyStore

CONSTANTS q, p, made, read

MCPolicyOf == [r \in Request |-> made]

\* Clients post and put a policy, alone or with the request as a constraint of
\* its rule and a status of that request.
Plain   == {<<p, read>>}
Telling == {<<p, read>>, <<p, q>>, <<q, "denied">>}

MCPosted == {Plain, Telling}

\* They patch a policy to have the rule of the other one instead of its own.
MCUpdate == {<<Plain, {<<p, made>>}>>}
=============================================================================
