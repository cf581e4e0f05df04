------------------------ MODULE PolicyEvaluationProofs ------------------------
(****************************************************************************)
(* Proofs about PolicyEvaluation, for every set of rules and claims.  A rule *)
(* that is found valid applies; one that applies is found valid, unless the *)
(* authorizer gives up on it.  What it decides follows rule by rule.        *)
(****************************************************************************)
EXTENDS PolicyEvaluation, TLAPS

-----------------------------------------------------------------------------
(* One constraint, one rule.                                                *)

\* What is true of the constraints of rules of owners.
LEMMA ConstraintTyped ==
  ASSUME NEW r \in Rules, NEW k \in r.constraints
  PROVE  /\ k.operand \in Key \cup {"dateTime", "deliveryChannel"}
         /\ k.operator \in Operator
         /\ k.operand # "dateTime" => k.value \in Value
<1>1. r \in Rule
  BY PolicyAssumption
<1>2. k \in Constraint
  BY <1>1 DEF Rule
<1>3. k.operand = "dateTime" <=> k.value \in Nat
  BY PolicyAssumption
<1>4. k.value \in Value \cup 0..MaxClock
  BY <1>2 DEF Constraint
<1>5. 0..MaxClock \subseteq Nat
  BY PolicyAssumption
<1> QED
  BY <1>2, <1>3, <1>4, <1>5 DEF Constraint

LEMMA FulfilledIsSatisfied ==
  ASSUME NEW r \in Rules, NEW k \in r.constraints, NEW c, Fulfilled(k, c)
  PROVE  Satisfied(k, c, clock)
BY DEF Fulfilled, Satisfied, Given

\* A constraint that holds is found fulfilled, or too difficult.
LEMMA SatisfiedIsFulfilled ==
  ASSUME NEW r \in Rules, Understood(r), NEW k \in r.constraints, NEW c,
         Satisfied(k, c, clock), k.operator # "missing"
  PROVE  Fulfilled(k, c) \/ Complex(k, c)
<1>1. CASE k.operand = "dateTime"
  <2>1. k.operator # "eq"
    BY <1>1 DEF Understood
  <2> QED
    BY <1>1, <2>1 DEF Satisfied, Fulfilled
<1>2. CASE k.operand # "dateTime" /\ k.operator = "eq"
  BY <1>2, ConstraintTyped DEF Satisfied, Fulfilled, Given
<1>3. CASE k.operand # "dateTime" /\ k.operator # "eq"
  <2>1. k.operand # "deliveryChannel"
    BY <1>3 DEF Understood
  <2> QED
    BY <1>3, <2>1 DEF Complex
<1> QED
  BY <1>1, <1>2, <1>3

LEMMA WalkValid ==
  ASSUME NEW S, NEW F, NEW X, Walk(S, F, X) = {"valid"}
  PROVE  S \subseteq F
BY DEF Walk

\* If nothing is simply not fulfilled, the loop ends well or gives up.
LEMMA WalkEnds ==
  ASSUME NEW S, NEW F, NEW X, S \subseteq F \cup X, Walk(S, F, X) # {"complex"}
  PROVE  Walk(S, F, X) = {"valid"}
BY DEF Walk

\* A rule for a request (Matching) applies to it if all it asks for is given.
LEMMA MatchingIsApplying ==
  ASSUME NEW r \in rules, NEW p, NEW c
  PROVE  r \in Matching(p, c) <=>
           /\ \E a \in r.targets :
                a = p.resource \/ (a \in AssetCollection /\ <<p.resource, a>> \in partOf)
           /\ Covers(r.actions, p.scope)
           /\ r.assignees # {} =>
                \E s \in r.assignees :
                  \/ s \in Everybody(c)
                  \/ s \in PartyCollection /\ \E u \in c.webids : <<u, s>> \in partOf
<1>1. r.targets \cap Targets(p.resource) # {} <=>
        \E a \in r.targets :
          a = p.resource \/ (a \in AssetCollection /\ <<p.resource, a>> \in partOf)
  BY DEF Targets
<1>2. r.assignees \cap Assignees(c) # {} <=>
        \E s \in r.assignees :
          \/ s \in Everybody(c)
          \/ s \in PartyCollection /\ \E u \in c.webids : <<u, s>> \in partOf
  BY DEF Assignees, Everybody
<1> QED
  BY <1>1, <1>2 DEF Matching

LEMMA ValidRuleApplies ==
  ASSUME NEW r \in Rules, r \in rules, NEW p, NEW c,
         r \in Matching(p, c), Valid(r, c)
  PROVE  Applies(r, p, c, Everybody(c), clock)
<1>1. ASSUME NEW k \in r.constraints PROVE Satisfied(k, c, clock)
  <2>1. ~Incomplete(r.constraints)
    BY DEF Valid, ValidateConstraints
  <2>2. r.constraints \subseteq {l \in r.constraints : Fulfilled(l, c)}
    BY <2>1, WalkValid DEF Valid, ValidateConstraints
  <2> QED
    BY <2>2, <1>1, FulfilledIsSatisfied
<1>2. ASSUME NEW k \in r.credentials
      PROVE  k.operator = "eq" /\ \E vc \in c.vcs : MatchedBy(k, vc)
  <2>1. ~Incomplete(r.credentials) /\ ~(r.credentials # {} /\ c.vcs = {})
    BY DEF Valid, ValidateOvcConstraints
  <2>2. r.credentials \subseteq
          {l \in r.credentials : l.operator = "eq" /\ \E vc \in c.vcs : MatchedBy(l, vc)}
    BY <2>1, WalkValid DEF Valid, ValidateOvcConstraints
  <2> QED
    BY <2>2, <1>2
<1> QED
  BY <1>1, <1>2, MatchingIsApplying DEF Applies, Suits

LEMMA ApplyingRuleIsValid ==
  ASSUME NEW r \in Rules, r \in rules, Understood(r), NEW p, NEW c,
         Applies(r, p, c, Everybody(c), clock),
         r \in Matching(p, c) => ~GivesUp(r, c)
  PROVE  r \in Matching(p, c) /\ Valid(r, c)
<1>1. r \in Matching(p, c)
  BY MatchingIsApplying DEF Applies, Suits
<1>2. ~GivesUp(r, c)
  BY <1>1
<1>3. ~Incomplete(r.constraints) /\ ~Incomplete(r.credentials)
  BY <1>2 DEF GivesUp, ValidateConstraints, ValidateOvcConstraints
<1>4. ValidateConstraints(r, c) = {"valid"}
  <2> DEFINE F == {k \in r.constraints : Fulfilled(k, c)}
             X == {k \in r.constraints : Complex(k, c)}
  <2>1. \A k \in r.constraints : Satisfied(k, c, clock)
    BY DEF Applies, Suits
  <2>2. r.constraints \subseteq F \cup X
    BY <2>1, <1>3, SatisfiedIsFulfilled DEF Incomplete
  <2>3. ValidateConstraints(r, c) = Walk(r.constraints, F, X)
    BY <1>3 DEF ValidateConstraints
  <2>4. Walk(r.constraints, F, X) # {"complex"}
    BY <2>3, <1>2 DEF GivesUp
  <2> HIDE DEF F, X
  <2> QED
    BY <2>2, <2>3, <2>4, WalkEnds
<1>5. ValidateOvcConstraints(r, c) = {"valid"}
  <2> DEFINE F == {k \in r.credentials :
                     k.operator = "eq" /\ \E vc \in c.vcs : MatchedBy(k, vc)}
             X == {k \in r.credentials : k.operator # "eq"}
  <2>1. r.credentials \subseteq F
    BY DEF Applies
  <2>2. ~(r.credentials # {} /\ c.vcs = {})
    BY DEF Applies
  <2>3. ValidateOvcConstraints(r, c) = Walk(r.credentials, F, X)
    BY <1>3, <2>2 DEF ValidateOvcConstraints
  <2> HIDE DEF F, X
  <2> QED
    BY <2>1, <2>3 DEF Walk
<1> QED
  BY <1>1, <1>4, <1>5 DEF Valid

\* The decision on a scope, for rules whose operators are all known.
LEMMA VerdictsExact ==
  ASSUME rules \subseteq Rules, \A r \in rules : Understood(r), NEW p, NEW c
  PROVE  /\ "granted" \in Verdicts(p, c) => Allowed(p, c, Everybody(c), clock)
         /\ "refused" \in Verdicts(p, c) => ~Allowed(p, c, Everybody(c), clock)
<1> DEFINE M == Matching(p, c)
           V == {r \in M : Valid(r, c)}
           through == \A r \in M : ~GivesUp(r, c)
<1>1. M \subseteq rules
  BY DEF Matching
<1>2. \A r \in V : Applies(r, p, c, Everybody(c), clock)
  BY <1>1, ValidRuleApplies
<1>3. ASSUME through
      PROVE  \A r \in rules : Applies(r, p, c, Everybody(c), clock) => r \in V
  BY <1>3, ApplyingRuleIsValid
<1>4. /\ "granted" \in Verdicts(p, c)
           => through /\ ~Prohibited(V) /\ \A r \in V : Supported(r)
      /\ "refused" \in Verdicts(p, c) => through /\ Prohibited(V)
  BY DEF Verdicts
<1> HIDE DEF through
<1>5. ASSUME "granted" \in Verdicts(p, c)
      PROVE  Allowed(p, c, Everybody(c), clock)
  <2>1. PICK r \in V : TRUE
    BY <1>4, <1>5 DEF Prohibited
  <2>2. "permission" \in r.types
    BY <1>4, <1>5 DEF Prohibited, Supported
  <2>3. r \in rules /\ Applies(r, p, c, Everybody(c), clock)
    BY <2>1, <1>1, <1>2
  <2>4. \A s \in rules :
          "prohibition" \in s.types => ~Applies(s, p, c, Everybody(c), clock)
    BY <1>3, <1>4, <1>5 DEF Prohibited
  <2> QED
    BY <2>2, <2>3, <2>4 DEF Allowed, Permitted
<1>6. ASSUME "refused" \in Verdicts(p, c), Allowed(p, c, Everybody(c), clock)
      PROVE  FALSE
  <2>1. PICK r \in rules : Applies(r, p, c, Everybody(c), clock)
    BY <1>6 DEF Allowed, Permitted
  <2>2. V # {}
    BY <2>1, <1>3, <1>4, <1>6
  <2>3. PICK s \in V : "prohibition" \in s.types
    BY <2>2, <1>4, <1>6 DEF Prohibited
  <2> QED
    BY <2>3, <1>1, <1>2, <1>6 DEF Allowed, Permitted
<1> QED
  BY <1>5, <1>6

-----------------------------------------------------------------------------
(* The request.                                                             *)

\* What the full authorizer has found so far is what the rules allow.
EvaluatesExactly ==
  /\ pc = "evaluate" /\ request.since = changes
  /\ \A r \in rules : Understood(r) /\ Anonymous \notin r.assignees /\ r.credentials = {}
  => /\ request.now = clock
     /\ request.pending \subseteq Elsewhere(request.query)
     /\ request.granted =
          {p \in request.query \ request.pending : Entitled(p, request.claims)}

EvaluationInv == TypeOK /\ EvaluatesExactly /\ AnswersFollowPolicies

LEMMA IdleTyped == Idle \in Request
BY DEF Idle, Request, NoClaims, ClaimSet

LEMMA AskedTyped ==
  ASSUME TypeOK, NEW c \in Claims, NEW q \in Queries
  PROVE  Asked(c, q) \in Request
BY PolicyAssumption DEF Asked, Request, TypeOK

\* Without rules for the anonymous party the two mean the same people.
LEMMA PartiesAgree ==
  ASSUME \A r \in rules : Anonymous \notin r.assignees, NEW p, NEW c
  PROVE  Allowed(p, c, Subjects(c), clock) <=> Allowed(p, c, Everybody(c), clock)
<1>1. ASSUME NEW r \in rules, NEW s \in r.assignees
      PROVE  s \in Subjects(c) <=> s \in Everybody(c)
  BY <1>1 DEF Subjects, Everybody
<1>2. ASSUME NEW r \in rules
      PROVE  Applies(r, p, c, Subjects(c), clock) <=> Applies(r, p, c, Everybody(c), clock)
  BY <1>1, <1>2 DEF Applies, Suits
<1> QED
  BY <1>2 DEF Allowed

\* Without rules that want credentials the full evaluator sees all there is.
LEMMA FindingsAllow ==
  ASSUME \A r \in rules : r.credentials = {}, NEW p, NEW c, NEW parties, NEW now,
         NEW S \in Findings(p, c, parties, now)
  PROVE  Permitted(S) <=> Allowed(p, c, parties, now)
<1>1. S = {r \in rules : Suits(r, p, c, parties, now)}
  BY DEF Findings
<1>2. S = {r \in rules : Applies(r, p, c, parties, now)}
  BY <1>1 DEF Applies
<1> QED
  BY <1>2 DEF Allowed

\* What is allowed depends on the policies only.
LEMMA AllowedUnchanged ==
  ASSUME UNCHANGED policies
  PROVE  /\ \A p, c, parties, now :
              Allowed(p, c, parties, now)' <=> Allowed(p, c, parties, now)
         /\ \A p, c : Entitled(p, c)' <=> Entitled(p, c)
<1>1. \A r, p, c, parties, now :
        Applies(r, p, c, parties, now)' <=> Applies(r, p, c, parties, now)
  BY DEF policies, Applies, Suits, Covers, Satisfied, MatchedBy, Compare
<1>2. \A p, c, parties, now : Allowed(p, c, parties, now)' <=> Allowed(p, c, parties, now)
  BY <1>1 DEF Allowed, policies
<1> QED
  BY <1>2 DEF Entitled, Everybody, policies

\* Resources elsewhere are decided on by the rules, all others by their names.
LEMMA NamesDecide ==
  ASSUME NEW q, NEW c, Readable(q), namespace \in [Resource -> Namespace],
         q \subseteq Permission
  PROVE  /\ Elsewhere(q) \subseteq q /\ ByNamespace(q, c) \subseteq q
         /\ ByNamespace(q, c) = {p \in q \ Elsewhere(q) : Entitled(p, c)}
         /\ \A p \in Elsewhere(q) :
              Entitled(p, c) <=> Allowed(p, c, Everybody(c), clock)
<1>1. \A p \in q : namespace[p.resource] \in Namespace
  BY DEF Permission
<1> QED
  BY <1>1 DEF Readable, Elsewhere, ByNamespace, Entitled, Namespace

LEMMA InitInv == Init => EvaluationInv
<1> SUFFICES ASSUME Init PROVE EvaluationInv
  OBVIOUS
<1>1. TypeOK
  BY IdleTyped DEF Init, TypeOK, Idle, Namespace
<1> QED
  BY <1>1 DEF Init, EvaluationInv, EvaluatesExactly, AnswersFollowPolicies

LEMMA DecideInv ==
  ASSUME EvaluationInv, NEW c \in Claims, NEW q \in Queries, Decide(c, q)
  PROVE  EvaluationInv'
<1> USE DEF EvaluationInv
<1> DEFINE rest == Elsewhere(q)
           named == ByNamespace(q, c)
<1>1. PICK g \in SUBSET rest :
        /\ \A p \in rest : (IF p \in g THEN "granted" ELSE "refused") \in Verdicts(p, c)
        /\ request' = [Asked(c, q) EXCEPT !.granted = named \cup g]
  BY DEF Decide
<1>2. q \subseteq Permission
  BY PolicyAssumption
<1>3. /\ rest \subseteq q /\ named \subseteq q
      /\ named = {p \in q \ rest : Entitled(p, c)}
      /\ \A p \in rest : Entitled(p, c) <=> Allowed(p, c, Everybody(c), clock)
  BY <1>2, NamesDecide DEF Decide, TypeOK
<1> HIDE DEF rest, named
<1>4. /\ request' \in Request
      /\ request'.claims = c /\ request'.query = q /\ request'.granted = named \cup g
      /\ request'.pending = {} /\ request'.since = changes
  BY <1>1, <1>2, <1>3, AskedTyped DEF Asked, Request
<1>5. TypeOK'
  BY <1>3, <1>4 DEF TypeOK, Decide, policies
<1>6. ASSUME \A r \in rules : Understood(r)
      PROVE  named \cup g = {p \in q : Entitled(p, c)}
  <2>1. rules \subseteq Rules
    BY DEF TypeOK
  <2>2. \A p \in rest : p \in g <=> Allowed(p, c, Everybody(c), clock)
    BY <1>1, <1>6, <2>1, VerdictsExact
  <2>3. \A p \in rest : p \in g <=> Entitled(p, c)
    BY <1>3, <2>2
  <2> QED
    BY <1>1, <1>3, <2>3
<1>7. AnswersFollowPolicies'
  BY <1>4, <1>6, AllowedUnchanged
     DEF AnswersFollowPolicies, Decide, policies, Understood
<1>8. EvaluatesExactly'
  BY DEF EvaluatesExactly, Decide
<1> QED
  BY <1>5, <1>7, <1>8

LEMMA FallBackInv ==
  ASSUME EvaluationInv, NEW c \in Claims, NEW q \in Queries, FallBack(c, q)
  PROVE  EvaluationInv'
<1> USE DEF EvaluationInv
<1> DEFINE rest == Elsewhere(q)
           named == ByNamespace(q, c)
<1>1. q \subseteq Permission
  BY PolicyAssumption
<1>2. /\ rest \subseteq q /\ named \subseteq q
      /\ named = {p \in q \ rest : Entitled(p, c)}
  BY <1>1, NamesDecide DEF FallBack, TypeOK
<1>3. request' = [Asked(c, q) EXCEPT !.pending = rest, !.granted = named]
  BY DEF FallBack, HandedOver
<1>4. /\ pc' = "evaluate" /\ rest' = rest
      /\ UNCHANGED policies /\ UNCHANGED changes
  BY DEF FallBack, policies, Elsewhere
<1> HIDE DEF rest, named
<1>5. /\ request' \in Request
      /\ request'.claims = c /\ request'.query = q
      /\ request'.granted = named /\ request'.pending = rest
      /\ request'.now = clock /\ request'.since = changes
  BY <1>1, <1>2, <1>3, AskedTyped DEF Asked, Request
<1>6. TypeOK'
  BY <1>2, <1>4, <1>5 DEF TypeOK, policies
<1>7. EvaluatesExactly'
  <2>1. request'.now = clock'
    BY <1>4, <1>5 DEF policies
  <2>2. Elsewhere(request.query)' = rest
    BY <1>4, <1>5 DEF rest, Elsewhere, policies
  <2>3. request'.granted = {p \in request'.query \ request'.pending : Entitled(p, c)'}
    BY <1>2, <1>4, <1>5, AllowedUnchanged
  <2> QED
    BY <1>5, <2>1, <2>2, <2>3 DEF EvaluatesExactly
<1>8. AnswersFollowPolicies'
  BY <1>4 DEF AnswersFollowPolicies
<1> QED
  BY <1>6, <1>7, <1>8

LEMMA EvaluateInv ==
  ASSUME EvaluationInv, NEW p \in Permission, Evaluate(p)
  PROVE  EvaluationInv'
<1> USE DEF EvaluationInv
<1> DEFINE Now(x) == Entitled(x, request.claims)
<1>1. request \in Request /\ p \in request.pending
  BY DEF TypeOK, Evaluate
<1>2. PICK S \in Findings(p, request.claims, Subjects(request.claims), request.now) :
        request' = [request EXCEPT !.pending = @ \ {p},
                      !.granted = IF Permitted(S) THEN @ \cup {p} ELSE @]
  BY DEF Evaluate
<1>3. /\ request' \in Request
      /\ request'.claims = request.claims /\ request'.query = request.query
      /\ request'.pending = request.pending \ {p}
      /\ request'.now = request.now /\ request'.since = request.since
      /\ request'.granted =
           IF Permitted(S) THEN request.granted \cup {p} ELSE request.granted
  BY <1>1, <1>2 DEF Request
<1>4. TypeOK'
  BY <1>1, <1>3 DEF TypeOK, Evaluate, policies
<1>5. ASSUME request.since = changes,
             \A r \in rules :
               Understood(r) /\ Anonymous \notin r.assignees /\ r.credentials = {}
      PROVE  /\ request'.now = clock
             /\ request'.pending \subseteq Elsewhere(request'.query)
             /\ request'.granted = {x \in request'.query \ request'.pending : Now(x)}
  <2>1. /\ request.now = clock
        /\ request.pending \subseteq Elsewhere(request.query)
        /\ request.granted = {x \in request.query \ request.pending : Now(x)}
    BY <1>5 DEF EvaluatesExactly, Evaluate
  <2>2. Permitted(S) <=> Allowed(p, request.claims, Subjects(request.claims), request.now)
    BY <1>5, FindingsAllow
  <2>3. Permitted(S) <=> Now(p)
    <3>1. namespace[p.resource] = "elsewhere"
      BY <1>1, <2>1 DEF Elsewhere
    <3> QED
      BY <1>5, <2>1, <2>2, <3>1, PartiesAgree DEF Entitled
  <2>4. p \in request.query
    BY <1>1 DEF TypeOK
  <2> HIDE DEF Now
  <2> QED
    BY <1>1, <1>3, <2>1, <2>3, <2>4
<1>6. EvaluatesExactly'
  BY <1>3, <1>5, AllowedUnchanged
     DEF EvaluatesExactly, Evaluate, policies, Understood, Elsewhere
<1>7. AnswersFollowPolicies'
  BY DEF AnswersFollowPolicies, Evaluate
<1> QED
  BY <1>4, <1>6, <1>7

LEMMA EvaluatedInv == ASSUME EvaluationInv, Evaluated PROVE EvaluationInv'
<1> USE DEF EvaluationInv
<1>1. TypeOK'
  BY DEF TypeOK, Evaluated, policies
<1>2. EvaluatesExactly'
  BY DEF EvaluatesExactly, Evaluated
<1>3. AnswersFollowPolicies'
  BY AllowedUnchanged
     DEF AnswersFollowPolicies, EvaluatesExactly, Evaluated, TypeOK, policies,
         Understood
<1> QED
  BY <1>1, <1>2, <1>3

LEMMA ReturnInv == ASSUME EvaluationInv, Return PROVE EvaluationInv'
<1>1. TypeOK'
  BY IdleTyped DEF EvaluationInv, TypeOK, Return, Idle, policies
<1> QED
  BY <1>1 DEF EvaluationInv, EvaluatesExactly, AnswersFollowPolicies, Return

\* After a change no answer is bound to follow the policies of the moment.
LEMMA EnvironmentInv == ASSUME EvaluationInv, Environment PROVE EvaluationInv'
<1>1. Change
  BY DEF Environment, WriteRule, RemoveRule, Enter, Leave, Rename, Tick
<1>2. /\ rules' \subseteq Rules /\ partOf' \subseteq Memberships /\ clock' \in Nat
      /\ namespace' \in [Resource -> Namespace]
  BY DEF EvaluationInv, TypeOK, Environment, WriteRule, RemoveRule, Enter, Leave,
         Rename, Tick
<1>3. TypeOK' /\ request'.since # changes'
  BY <1>1, <1>2 DEF EvaluationInv, TypeOK, Request, Change
<1> QED
  BY <1>3 DEF EvaluationInv, EvaluatesExactly, AnswersFollowPolicies

LEMMA StepInv == EvaluationInv /\ [Next]_vars => EvaluationInv'
<1> SUFFICES ASSUME EvaluationInv, [Next]_vars PROVE EvaluationInv'
  OBVIOUS
<1>1. CASE Permissions
  BY <1>1, DecideInv, FallBackInv DEF Permissions
<1>2. CASE \E p \in Permission : Evaluate(p)
  BY <1>2, EvaluateInv
<1>3. CASE Evaluated
  BY <1>3, EvaluatedInv
<1>4. CASE Return
  BY <1>4, ReturnInv
<1>5. CASE Environment
  BY <1>5, EnvironmentInv
<1>6. CASE UNCHANGED vars
  <2> USE <1>6 DEF EvaluationInv, vars, policies
  <2>1. TypeOK'
    BY DEF TypeOK
  <2>2. EvaluatesExactly'
    BY AllowedUnchanged DEF EvaluatesExactly, Understood, Elsewhere
  <2>3. AnswersFollowPolicies'
    BY AllowedUnchanged DEF AnswersFollowPolicies, Understood
  <2> QED
    BY <2>1, <2>2, <2>3
<1> QED
  BY <1>1, <1>2, <1>3, <1>4, <1>5, <1>6 DEF Next

-----------------------------------------------------------------------------
(* The theorems.                                                            *)

THEOREM EvaluationInvariant == Spec => []EvaluationInv
BY InitInv, StepInv, PTL DEF Spec

\* Policies and requests keep their types, and nothing is granted that was not
\* asked for (permissions of both authorizers).
THEOREM EvaluationTyped == Spec => []TypeOK
<1>1. EvaluationInv => TypeOK
  BY DEF EvaluationInv
<1> QED
  BY <1>1, EvaluationInvariant, PTL

\* The simple authorizer only decides what the rules say, whatever the rules,
\* claims and collections are (getPermissions).
THEOREM FastPathAlwaysExact == Spec => []FastPathExact
<1>1. TypeOK => FastPathExact
  BY VerdictsExact DEF TypeOK, FastPathExact
<1> QED
  BY <1>1, EvaluationTyped, PTL

\* Whole answers follow names and policies, on either path (permissions of
\* NamespacedAuthorizer and those behind it).
THEOREM AnswersAlwaysFollowPolicies == Spec => []AnswersFollowPolicies
<1>1. EvaluationInv => AnswersFollowPolicies
  BY DEF EvaluationInv
<1> QED
  BY <1>1, EvaluationInvariant, PTL
==============================================================================
