------------------------- MODULE RegistrationPromise -------------------------
(****************************************************************************)
(* What resource registration promises to the rest of the resource server   *)
(* (documentation/collections.md, "Parent containers not yet registered"):  *)
(* a resource that was created gets registered, once, and is linked to its  *)
(* parent container as soon as that one is registered as well.              *)
(****************************************************************************)
CONSTANTS Resource, Root, Parent

VARIABLES
  wanted,      \* resources the server has asked to register
  registered,  \* resources the issuer knows
  linked       \* resources the issuer has linked to their parent

vars == <<wanted, registered, linked>>

Init == wanted = {} /\ registered = {} /\ linked = {}

\* The server asks for a set of resources: a new one and its ancestors.
Want(S) ==
  /\ wanted' = wanted \cup S
  /\ UNCHANGED <<registered, linked>>

Linkable(r) == r # Root /\ Parent[r] \in registered

Register(r) ==
  /\ r \notin registered
  /\ registered' = registered \cup {r}
  /\ \/ UNCHANGED linked
     \/ Linkable(r) /\ linked' = linked \cup {r}
  /\ UNCHANGED wanted

Link(r) ==
  /\ r \in registered
  /\ r \notin linked
  /\ Linkable(r)
  /\ linked' = linked \cup {r}
  /\ UNCHANGED <<wanted, registered>>

Next ==
  \/ \E S \in SUBSET Resource : Want(S)
  \/ \E r \in Resource : Register(r) \/ Link(r)

Safety == Init /\ [][Next]_vars

\* What was asked for gets registered, and what is registered gets linked.
Spec ==
  /\ Safety
  /\ \A r \in Resource :
       WF_vars(r \in wanted /\ Register(r)) /\ WF_vars(Link(r))
=============================================================================
