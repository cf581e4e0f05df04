--------------------------- MODULE PolicyEvaluation ---------------------------
(****************************************************************************)
(* How the authorization server decides by the ODRL rules of its owners:    *)
(* policies/authorizers/SimpleOdrlAuthorizer.ts under packages/uma/src,     *)
(* which looks at the triples itself and leaves what it finds too difficult *)
(* to OdrlAuthorizer.ts, the front of a full ODRL evaluator.                *)
(* NamespacedAuthorizer.ts in front of both takes out the resources whose   *)
(* names alone decide on the access.                                        *)
(*                                                                          *)
(* The simple authorizer decides on a whole query in one go.  The full one  *)
(* runs a reasoner per scope, and reads the policies again for each: others *)
(* write in between.                                                        *)
(*                                                                          *)
(* Triples come in no particular order, and the code returns as soon as it  *)
(* can, so what it returns may depend on that order: Walk and Verdicts say  *)
(* what it can be.                                                          *)
(****************************************************************************)
EXTENDS Naturals

CONSTANTS
  Resource, AssetCollection, User, PartyCollection,
  Scope,        \* the actions clients ask for
  Modify,       \* odrl:modify
  Modifying,    \* odrl:append and odrl:write
  Anonymous,    \* the assignee that stands for everybody
  Key,          \* left operands other than the two the code knows
  Value,        \* what claims say, and right operands
  NoType,       \* a credential constraint that wants no type
  Listed,       \* the users of the WebIdAuthorizer
  Named,        \* the resources that are registered or get other names
  Rules,        \* the rules owners write
  Memberships,  \* who can be in which collection
  Claims,       \* the claim sets of requests
  Queries,      \* the sets of permissions of requests
  MaxClock,     \* bound: the moments rules tell apart
  MaxChanges    \* bound: changes of policies, collections or time

VARIABLES
  rules,    \* the rules in the policy store
  partOf,   \* the odrl:partOf triples
  namespace, \* where the names in the registrations put the resources
  clock,
  changes,
  pc,       \* where the authorizer is
  request   \* its parameters and local variables

policies == <<rules, partOf, clock, namespace>>
vars == <<policies, changes, pc, request>>

-----------------------------------------------------------------------------
Permission == [resource : Resource, scope : Scope]

\* "missing": the operator or an operand is not there.
Operator == {"lt", "lteq", "eq", "neq", "gt", "gteq", "missing"}

Constraint == [operand : Key \cup {"dateTime", "deliveryChannel"},
               operator : Operator, value : Value \cup 0..MaxClock]

CredentialConstraint == [operand : Key, operator : Operator, value : Value,
                         type : Value \cup {NoType}]

\* types: by which properties policies point to the rule.
Rule == [targets : SUBSET (Resource \cup AssetCollection),
         actions : SUBSET (Scope \cup {Modify}),
         assignees : SUBSET (User \cup PartyCollection \cup {Anonymous}),
         types : SUBSET {"permission", "prohibition", "obligation"},
         constraints : SUBSET Constraint,
         credentials : SUBSET CredentialConstraint]

\* A verifiable credential: what is found at its paths, and its types.
Credential == [says : SUBSET (Key \X Value), types : SUBSET Value]

\* The claims by key: users, verifiable credentials and all others.
ClaimSet == [webids : SUBSET User, vcs : SUBSET Credential,
             values : SUBSET ((Key \cup {"deliveryChannel"}) \X Value)]

\* A namespace that is open to everybody, one for the listed users, anything
\* else or no registration at all, and a name that is no URL.
Namespace == {"open", "listed", "elsewhere", "unreadable"}

ASSUME PolicyAssumption ==
  /\ MaxClock \in Nat /\ MaxChanges \in Nat
  /\ Modifying \subseteq Scope /\ Modify \notin Scope
  /\ Rules \subseteq Rule
  /\ \A r \in Rules : \A k \in r.constraints :
       k.operand = "dateTime" <=> k.value \in Nat
  /\ Claims \subseteq ClaimSet
  /\ Queries \subseteq SUBSET Permission
  /\ Listed \subseteq User /\ Named \subseteq Resource

ASSUME KeyAssumption == Key \cap {"dateTime", "deliveryChannel"} = {}

Request == [claims : ClaimSet, query : SUBSET Permission,
            pending : SUBSET Permission, granted : SUBSET Permission,
            now : Nat, since : Nat]   \* the clock, and changes, at its start

NoClaims == [webids |-> {}, vcs |-> {}, values |-> {}]
Idle == [claims |-> NoClaims, query |-> {},
         pending |-> {}, granted |-> {}, now |-> 0, since |-> 0]

-----------------------------------------------------------------------------
(* Which rules match (getPermissions).                                      *)

Targets(resource) ==
  {resource} \cup {a \in AssetCollection : <<resource, a>> \in partOf}

Covers(actions, scope) ==
  scope \in actions \/ (scope \in Modifying /\ Modify \in actions)

Assignees(c) ==
  {Anonymous} \cup c.webids
    \cup {g \in PartyCollection : \E u \in c.webids : <<u, g>> \in partOf}

Matching(p, c) ==
  {r \in rules :
     /\ r.targets \cap Targets(p.resource) # {}
     /\ Covers(r.actions, p.scope)
     /\ r.assignees = {} \/ r.assignees \cap Assignees(c) # {}}

-----------------------------------------------------------------------------
(* Which of them are fulfilled.                                             *)

\* The values of a claim; none if the claim was not made.
Given(c, key) == {v \in Value : <<key, v>> \in c.values}

\* dateComparators.  Two Date objects are never identical.
Compare(a, operator, b) ==
  \/ operator = "lt" /\ a < b
  \/ operator = "lteq" /\ a <= b
  \/ operator = "gt" /\ a > b
  \/ operator = "gteq" /\ a >= b

Fulfilled(k, c) ==
  IF k.operand = "dateTime" THEN Compare(clock, k.operator, k.value)
  ELSE k.operator = "eq" /\ k.value \in Given(c, k.operand)

Complex(k, c) ==
  /\ k.operand \notin {"dateTime", "deliveryChannel"}
  /\ k.operator # "eq" \/ Given(c, k.operand) = {}

\* The results of going through the constraints S, of which fulfilled and
\* complex are what these say, until one ends the loop.
Walk(S, fulfilled, complex) ==
  IF S \subseteq fulfilled THEN {"valid"}
  ELSE {o \in {"invalid", "complex"} :
          \/ o = "invalid" /\ ~(S \subseteq fulfilled \cup complex)
          \/ o = "complex" /\ S \cap complex # {}}

Incomplete(S) == \E k \in S : k.operator = "missing"

ValidateConstraints(r, c) ==
  LET S == r.constraints IN
  IF Incomplete(S) THEN {"complex"}
  ELSE Walk(S, {k \in S : Fulfilled(k, c)}, {k \in S : Complex(k, c)})

MatchedBy(k, vc) ==
  /\ <<k.operand, k.value>> \in vc.says
  /\ k.type = NoType \/ k.type \in vc.types

ValidateOvcConstraints(r, c) ==
  LET S == r.credentials IN
  IF Incomplete(S) THEN {"complex"}
  ELSE IF S # {} /\ c.vcs = {} THEN {"invalid"}
  ELSE Walk(S, {k \in S : k.operator = "eq" /\ \E vc \in c.vcs : MatchedBy(k, vc)},
               {k \in S : k.operator # "eq"})

\* Both are called for each rule; one that gives up makes the caller give up.
Valid(r, c) ==
  ValidateConstraints(r, c) = {"valid"} /\ ValidateOvcConstraints(r, c) = {"valid"}
MayGiveUp(r, c) ==
  "complex" \in ValidateConstraints(r, c) \cup ValidateOvcConstraints(r, c)
GivesUp(r, c) ==
  ValidateConstraints(r, c) = {"complex"} \/ ValidateOvcConstraints(r, c) = {"complex"}

-----------------------------------------------------------------------------
(* The decision on one scope.                                               *)

Supported(r) == r.types \cap {"permission", "prohibition"} # {}

\* Mutant: only if there is nothing but prohibitions is the request refused.
ProhibitedOnly(S) == \A r \in S : "prohibition" \in r.types

Prohibited(S) == S = {} \/ \E r \in S : "prohibition" \in r.types

Verdicts(p, c) ==
  LET M == Matching(p, c)
      V == {r \in M : Valid(r, c)}
      through == \A r \in M : ~GivesUp(r, c) IN
  {v \in {"granted", "refused", "fallback"} :
     \/ v = "refused" /\ through /\ Prohibited(V)
     \/ v = "granted" /\ through /\ ~Prohibited(V) /\ \A r \in V : Supported(r)
     \/ v = "fallback" /\ \/ \E r \in M : MayGiveUp(r, c)
                          \/ \E r \in V : ~Supported(r)}

-----------------------------------------------------------------------------
(* What the rules say: the reference, and, but for credentials, what the    *)
(* full evaluator is taken to find at the time `now' it is told.            *)

Satisfied(k, c, now) ==
  IF k.operand = "dateTime"
  THEN Compare(now, k.operator, k.value) \/ (k.operator = "eq" /\ now = k.value)
  ELSE \/ k.operator = "eq" /\ <<k.operand, k.value>> \in c.values
       \/ k.operator = "neq" /\ <<k.operand, k.value>> \notin c.values

\* Everything but the credentials that the rule wants.
Suits(r, p, c, parties, now) ==
  /\ \E a \in r.targets :
       a = p.resource \/ (a \in AssetCollection /\ <<p.resource, a>> \in partOf)
  /\ Covers(r.actions, p.scope)
  /\ r.assignees # {} =>
       \E s \in r.assignees :
         s \in parties \/ (s \in PartyCollection /\ \E u \in c.webids : <<u, s>> \in partOf)
  /\ \A k \in r.constraints : Satisfied(k, c, now)

Applies(r, p, c, parties, now) ==
  /\ Suits(r, p, c, parties, now)
  /\ \A k \in r.credentials : k.operator = "eq" /\ \E vc \in c.vcs : MatchedBy(k, vc)

\* PrioritizeProhibitionStrategy, for the rules that apply.
Permitted(S) ==
  (\E r \in S : "permission" \in r.types) /\ \A r \in S : "prohibition" \notin r.types

Allowed(p, c, parties, now) == Permitted({r \in rules : Applies(r, p, c, parties, now)})

\* The sets of rules the full evaluator may find to apply.  It is told nothing
\* of credentials: what it makes of rules that want some is left open.
Findings(p, c, parties, now) ==
  LET S == {r \in rules : Suits(r, p, c, parties, now)} IN
  {{r \in S : r.credentials = {}} \cup F : F \in SUBSET {r \in S : r.credentials # {}}}

\* Whoever is known also counts as anonymous (SimpleOdrlAuthorizer).
Everybody(c) == {Anonymous} \cup c.webids

\* Nobody is anonymous who is known (OdrlAuthorizer, subjects).
Subjects(c) == IF c.webids = {} THEN {Anonymous} ELSE c.webids

-----------------------------------------------------------------------------
(* A request.                                                               *)

\* findNamespace: a name that is no URL fails the whole request.
Readable(q) == \A p \in q : namespace[p.resource] # "unreadable"

\* What is left to the fallback of the NamespacedAuthorizer.
Elsewhere(q) == {p \in q : namespace[p.resource] = "elsewhere"}

\* AllAuthorizer and WebIdAuthorizer grant all or nothing of what they get.
ByNamespace(q, c) ==
  {p \in q : \/ namespace[p.resource] = "open"
             \/ namespace[p.resource] = "listed" /\ c.webids \cap Listed # {}}

Asked(c, q) == [claims |-> c, query |-> q, pending |-> {}, granted |-> {},
                now |-> clock, since |-> changes]

\* NamespacedAuthorizer.permissions merges what the others grant, and
\* SimpleOdrlAuthorizer.permissions decides.
Decide(c, q) ==
  /\ pc = "free"
  /\ Readable(q)
  /\ \E g \in SUBSET Elsewhere(q) :
       /\ \A p \in Elsewhere(q) :
            (IF p \in g THEN "granted" ELSE "refused") \in Verdicts(p, c)
       /\ request' = [Asked(c, q) EXCEPT !.granted = ByNamespace(q, c) \cup g]
  /\ pc' = "answered"
  /\ UNCHANGED <<policies, changes>>

\* Mutant: only the permissions that are too difficult are handed over.
RestHandedOver(q, c) == {p \in q : "fallback" \in Verdicts(p, c)}

\* Mutant: it is asked about every scope of the resources.
ResourcesHandedOver(q, c) ==
  {p \in Permission : \E asked \in q : asked.resource = p.resource}

HandedOver(q, c) == q

\* It gives up on one of the scopes: the full authorizer gets all it got.
FallBack(c, q) ==
  /\ pc = "free"
  /\ Readable(q)
  /\ \E p \in Elsewhere(q) : "fallback" \in Verdicts(p, c)
  /\ request' = [Asked(c, q) EXCEPT !.pending = HandedOver(Elsewhere(q), c),
                                    !.granted = ByNamespace(q, c)]
  /\ pc' = "evaluate"
  /\ UNCHANGED <<policies, changes>>

\* OdrlAuthorizer.permissions evaluates one scope.
Evaluate(p) ==
  /\ pc = "evaluate"
  /\ p \in request.pending
  /\ \E S \in Findings(p, request.claims, Subjects(request.claims), request.now) :
       request' = [request EXCEPT !.pending = @ \ {p},
                     !.granted = IF Permitted(S) THEN @ \cup {p} ELSE @]
  /\ UNCHANGED <<policies, changes, pc>>

Evaluated ==
  /\ pc = "evaluate"
  /\ request.pending = {}
  /\ pc' = "answered"
  /\ UNCHANGED <<policies, changes, request>>

\* The answer is used (see Negotiation).
Return ==
  /\ pc = "answered"
  /\ pc' = "free"
  /\ request' = Idle
  /\ UNCHANGED <<policies, changes>>

-----------------------------------------------------------------------------
(* The environment.                                                         *)

Change ==
  /\ changes < MaxChanges
  /\ changes' = changes + 1
  /\ UNCHANGED <<pc, request>>

\* Policies are written and removed (see PolicyStore).
WriteRule(r) == r \notin rules /\ rules' = rules \cup {r} /\ UNCHANGED <<partOf, clock, namespace>> /\ Change
RemoveRule(r) == r \in rules /\ rules' = rules \ {r} /\ UNCHANGED <<partOf, clock, namespace>> /\ Change

\* Collections change (see ResourceRegistry).
Enter(m) == m \notin partOf /\ partOf' = partOf \cup {m} /\ UNCHANGED <<rules, clock, namespace>> /\ Change
Leave(m) == m \in partOf /\ partOf' = partOf \ {m} /\ UNCHANGED <<rules, clock, namespace>> /\ Change

Tick ==
  /\ clock < MaxClock
  /\ clock' = clock + 1
  /\ UNCHANGED <<rules, partOf, namespace>>
  /\ Change

\* A registration is made, updated with another name or deleted.
Rename(a, n) ==
  /\ namespace[a] # n
  /\ namespace' = [namespace EXCEPT ![a] = n]
  /\ UNCHANGED <<rules, partOf, clock>>
  /\ Change

Init ==
  /\ rules \in SUBSET Rules
  /\ partOf \in SUBSET Memberships
  /\ namespace = [a \in Resource |-> "elsewhere"]
  /\ clock = 0
  /\ changes = 0
  /\ pc = "free"
  /\ request = Idle

Permissions == \E c \in Claims, q \in Queries : Decide(c, q) \/ FallBack(c, q)

Environment ==
  \/ \E r \in Rules : WriteRule(r) \/ RemoveRule(r)
  \/ \E m \in Memberships : Enter(m) \/ Leave(m)
  \/ \E a \in Named, n \in Namespace : Rename(a, n)
  \/ Tick

Next ==
  \/ Permissions
  \/ (\E p \in Permission : Evaluate(p)) \/ Evaluated \/ Return
  \/ Environment

Spec == Init /\ [][Next]_vars

-----------------------------------------------------------------------------
(* Properties.                                                              *)

\* The type invariant of policies and request: what is looked at and granted
\* was asked for.
TypeOK ==
  /\ rules \subseteq Rules
  /\ partOf \subseteq Memberships
  /\ namespace \in [Resource -> Namespace]
  /\ clock \in Nat /\ changes \in Nat
  /\ pc \in {"free", "evaluate", "answered"}
  /\ request \in Request
  /\ request.pending \cup request.granted \subseteq request.query
  /\ request.since <= changes

\* Constraints on times and clients whose operator the code knows.  It takes
\* a constraint with any other one to be violated, even if it is fulfilled.
Understood(r) ==
  \A k \in r.constraints :
    /\ k.operand = "dateTime" => k.operator \in {"lt", "lteq", "gt", "gteq", "missing"}
    /\ k.operand = "deliveryChannel" => k.operator \in {"eq", "missing"}

\* What the simple authorizer decides itself is what the rules say, however
\* many rules of whatever kinds match, and in whatever order it meets them.
FastPathExact ==
  (\A r \in rules : Understood(r)) =>
    \A c \in Claims, p \in UNION Queries :
      /\ "granted" \in Verdicts(p, c) => Allowed(p, c, Everybody(c), clock)
      /\ "refused" \in Verdicts(p, c) => ~Allowed(p, c, Everybody(c), clock)

\* What a request is to get.
Entitled(p, c) ==
  \/ namespace[p.resource] = "open"
  \/ namespace[p.resource] = "listed" /\ c.webids \cap Listed # {}
  \/ namespace[p.resource] = "elsewhere" /\ Allowed(p, c, Everybody(c), clock)

\* An answer has exactly what names and rules allow of what was asked, whatever
\* the mix of resources and whichever of the authorizers decided on which of
\* them, unless something changed in the meantime.  The two for rules do not
\* agree on whom a rule for the anonymous party is about, nor do they both see
\* credentials (FastPathExact is about those, too).
AnswersFollowPolicies ==
  /\ pc = "answered" /\ request.since = changes
  /\ \A r \in rules : Understood(r) /\ Anonymous \notin r.assignees /\ r.credentials = {}
  => request.granted = {p \in request.query : Entitled(p, request.claims)}

==============================================================================
