------------------------------ MODULE Negotiation ------------------------------
(****************************************************************************)
(* How an authorization server turns requested permissions and pushed       *)
(* claims into access tokens: the permission endpoint (routes/Ticket.ts),   *)
(* the UMA grant (dialog/BaseNegotiator.ts behind AggregatorNegotiator.ts,  *)
(* or dialog/ContractNegotiator.ts) with its ticketing strategies, and the  *)
(* refresh grant (routes/token/RefreshTokenHandler.ts), all under           *)
(* packages/uma/src.                                                        *)
(*                                                                          *)
(* Requests are handled concurrently by one Node.js process.  The stores    *)
(* are in memory; what a handler really waits for, and where other requests *)
(* run, is the verification of a credential, the evaluation of a policy and *)
(* the signature of a token.                                                *)
(*                                                                          *)
(* A dialog is a ticket object.  Its identifier changes from one exchange   *)
(* to the next; the object, and the claims collected in it, stay.           *)
(****************************************************************************)
EXTENDS Naturals

CONSTANTS
  Permission,  \* pairs of a resource and a scope a client can ask for
  Derived,     \* derivation-read permissions on resources of other servers
  DerivedFrom, \* [Permission -> SUBSET Derived], derived_from of the resource
  Resource,    \* the resources
  ResourceOf,  \* [Permission \cup Derived -> Resource]
  Creation,    \* derivation-creation on the resources of this server
  Convertible, \* permissions with a scope of the ODRL or the CSS vocabulary
  Negotiators, \* the negotiators the server may be configured with
  Requests,    \* the sets of permissions asked for in one request
  Claim,       \* the claims an identity token proves
  Pushes,      \* the sets of credentials pushed in one request
  Policies,    \* what the policies of the server may say, see policy
  AllowPartial,\* ImmediateAuthorizerStrategy.allowPartialSuccess
  Dialog,      \* bound: the ticket objects
  TicketId,    \* identifiers of tickets
  RefreshId,   \* bound: refresh tokens stored at the same time
  Handler,     \* identities for requests handled at the same time
  None,        \* no dialog, no refresh token, nothing stored
  MaxChanges   \* bound: changes of the policies

\* The access tokens of other servers are pushed as credentials too: each
\* grants one derivation-read permission (OidcVerifier).
Credential == Claim \cup Derived
Wanted == Permission \cup Derived

ASSUME RequestAssumption ==
  /\ Derived \cap Permission = {} /\ Derived \cap Claim = {}
  /\ DerivedFrom \in [Permission -> SUBSET Derived]
  /\ ResourceOf \in [Wanted -> Resource]
  /\ DOMAIN Creation \subseteq Resource
  /\ \A r \in DOMAIN Creation : Creation[r] \in Permission /\ ResourceOf[Creation[r]] = r
  /\ \A p, q \in Permission :
       ResourceOf[p] = ResourceOf[q] => DerivedFrom[p] = DerivedFrom[q]
  /\ \A p \in Permission, q \in Derived : ResourceOf[p] # ResourceOf[q]
  /\ Requests \subseteq SUBSET Permission
  /\ Pushes \subseteq SUBSET Credential
  /\ Policies # {}
  /\ Policies \subseteq [SUBSET Credential -> SUBSET Wanted]
  /\ AllowPartial \in BOOLEAN
  /\ Negotiators \subseteq {"base", "contract"}

ASSUME NameAssumption ==
  /\ None \notin Dialog /\ None \notin RefreshId
  /\ MaxChanges \in Nat

VARIABLES
  negotiator,   \* the negotiator of the server: BaseNegotiator behind
                \*   AggregatorNegotiator, or ContractNegotiator
  opened,       \* the dialogs there have been
  ticket,       \* the ticket object of each dialog
  ticketStore,  \* the dialog stored under each identifier, or None
  refreshStore, \* the claims and permissions of each refresh token, or None
  minted,       \* how many access tokens each dialog has led to
  policy,       \* the permissions the policies give to a set of credentials
  changes,      \* how often the policies have changed
  pc,           \* where each handler is
  frame         \* the local variables of each handler

stores == <<opened, ticket, ticketStore, refreshStore, minted>>
server == <<negotiator, policy, changes>>
vars   == <<stores, server, pc, frame>>

-----------------------------------------------------------------------------
Ticket == [requested : SUBSET Wanted, provided : SUBSET Credential]
NoTicket == [requested |-> {}, provided |-> {}]

RefreshInformation == [claims : SUBSET Credential, permissions : SUBSET Wanted,
                       expired : BOOLEAN]

ASSUME NoInformation == None \notin RefreshInformation

\* free      not in use
\* verify    processCredentials, credentials left to verify
\* evaluate  authorizer.permissions, permissions left to decide on
\* mint      tokenFactory.serialize, the token is being signed
Point == {"free", "verify", "evaluate", "mint"}

Kind == {"none", "ticket", "grant", "refresh"}

Frame == [kind    : Kind,
          dialog  : Dialog \cup {None},
          refresh : RefreshId \cup {None},  \* the token being refreshed
          pushed  : SUBSET Credential,      \* credentials left to verify
          needed  : SUBSET Wanted,          \* permissions of the updated ticket
          pending : SUBSET Wanted,          \* permissions left to evaluate
          granted : SUBSET Wanted,          \* permissions found to be allowed
          since   : Nat]                    \* changes when the request came in

Idle == [kind |-> "none", dialog |-> None, refresh |-> None, pushed |-> {},
         needed |-> {}, pending |-> {}, granted |-> {}, since |-> 0]

Working(h, d) == pc[h] # "free" /\ frame[h].dialog = d
Stored(i, d) == ticketStore[i] = d

Unused == Dialog \ opened
FreeIds == {i \in TicketId : ticketStore[i] = None}
\* A refresh token that is being used keeps its identifier, even when another
\* request has removed it.
FreeRefreshIds ==
  {r \in RefreshId : refreshStore[r] = None /\ \A h \in Handler : frame[h].refresh # r}
Pick(S) == CHOOSE x \in S : TRUE

\* AggregatorStrategy.initializeTicket: the resources it is derived from have
\* to be readable as well.
Initialized(asked) == asked \cup UNION {DerivedFrom[p] : p \in asked}

\* AggregatorStrategy.validateClaims: an access token settles its derivation.
Unsettled(wanted, claims) == wanted \ (claims \cap Derived)

-----------------------------------------------------------------------------
(* A request comes in.                                                      *)

Start(h, kind, d, r, pushed, needed) ==
  /\ pc' = [pc EXCEPT ![h] = IF pushed = {} THEN "evaluate" ELSE "verify"]
  /\ frame' = [frame EXCEPT ![h] =
       [kind |-> kind, dialog |-> d, refresh |-> r, pushed |-> pushed,
        needed |-> needed, pending |-> needed, granted |-> {}, since |-> changes]]
  /\ UNCHANGED <<minted, server>>

\* A new ticket object.
Open(d, wanted, claims) ==
  /\ opened' = opened \cup {d}
  /\ ticket' = [ticket EXCEPT ![d] = [requested |-> wanted, provided |-> claims]]

\* TicketRequestHandler.handle: the resource server asks for a ticket.
RequestTicket(h, asked) ==
  LET d == Pick(Unused) IN
  /\ pc[h] = "free"
  /\ Unused # {}
  /\ Open(d, Initialized(asked), {})
  /\ Start(h, "ticket", d, None, {}, Initialized(asked))
  /\ UNCHANGED <<ticketStore, refreshStore>>

\* BaseNegotiator.getTicket with permissions in place of a ticket.
RequestToken(h, asked, pushed) ==
  LET d == Pick(Unused) IN
  /\ pc[h] = "free"
  /\ Unused # {}
  /\ Open(d, Initialized(asked), {})
  /\ Start(h, "grant", d, None, pushed, Initialized(asked))
  /\ UNCHANGED <<ticketStore, refreshStore>>

\* Mutant: the ticket stays valid until the dialog has ended.
TakenKept(i) == ticketStore

Taken(i) == [ticketStore EXCEPT ![i] = None]

\* BaseNegotiator.getTicket: a ticket is used up by the request that has it,
\* before any of its credentials is verified.
RedeemTicket(h, i, pushed) ==
  LET d == ticketStore[i] IN
  /\ pc[h] = "free"
  /\ d # None
  /\ ticketStore' = Taken(i)
  /\ Start(h, "grant", d, None, pushed, ticket[d].requested)
  /\ UNCHANGED <<opened, ticket, refreshStore>>

\* AggregatorNegotiator: a client that wants to derive something from the one
\* resource of its ticket asks for one more scope, which stays in the ticket.
RedeemForDerivation(h, i, r, pushed) ==
  LET d == ticketStore[i]
      wanted == ticket[d].requested \cup {Creation[r]} IN
  /\ negotiator = "base"
  /\ pc[h] = "free"
  /\ d # None
  /\ {ResourceOf[p] : p \in ticket[d].requested} = {r}
  /\ ticket' = [ticket EXCEPT ![d].requested = wanted]
  /\ ticketStore' = Taken(i)
  /\ Start(h, "grant", d, None, pushed, wanted)
  /\ UNCHANGED <<opened, refreshStore>>

\* Mutant: the refresh token is used up by the request that presents it.
RefreshUsed(r) == [refreshStore EXCEPT ![r] = None]

RefreshRead(r) == refreshStore

\* Mutant: the permissions of the refresh token are taken as they are.
StartTrusting(h, d, r, wanted, needed) ==
  /\ pc' = [pc EXCEPT ![h] = "mint"]
  /\ frame' = [frame EXCEPT ![h] =
       [kind |-> "refresh", dialog |-> d, refresh |-> r, pushed |-> {},
        needed |-> needed, pending |-> {}, granted |-> wanted, since |-> changes]]
  /\ UNCHANGED <<minted, server>>

StartRefresh(h, d, r, wanted, needed) == Start(h, "refresh", d, r, {}, needed)

\* RefreshTokenHandler.handle up to the evaluation: the stored claims take the
\* place of credentials (RefreshTokenVerifier), the token stays for now.
RefreshToken(h, r) ==
  LET d == Pick(Unused)
      wanted == Initialized(refreshStore[r].permissions \cap Permission)
      claims == refreshStore[r].claims IN
  /\ pc[h] = "free"
  /\ Unused # {}
  /\ refreshStore[r] # None
  /\ ~refreshStore[r].expired
  /\ refreshStore' = RefreshRead(r)
  /\ Open(d, wanted, claims)
  /\ StartRefresh(h, d, r, wanted, Unsettled(wanted, claims))
  /\ UNCHANGED ticketStore

-----------------------------------------------------------------------------
(* Credentials.                                                             *)

\* ImmediateAuthorizerStrategy.validateClaims adds to the ticket object.
Collected(d, c) == [ticket EXCEPT ![d].provided = @ \cup {c}]

\* One turn of the loop of processCredentials.
Verify(h, c) ==
  LET d == frame[h].dialog
      left == frame[h].pushed \ {c}
      needed == Unsettled(frame[h].needed, {c}) IN
  /\ pc[h] = "verify"
  /\ c \in frame[h].pushed
  /\ ticket' = Collected(d, c)
  /\ frame' = [frame EXCEPT ![h].pushed = left, ![h].needed = needed,
                            ![h].pending = needed]
  /\ pc' = [pc EXCEPT ![h] = IF left = {} THEN "evaluate" ELSE "verify"]
  /\ UNCHANGED <<opened, ticketStore, refreshStore, minted, server>>

Finish(h) ==
  /\ pc' = [pc EXCEPT ![h] = "free"]
  /\ frame' = [frame EXCEPT ![h] = Idle]

\* verifier.verify throws, or the issuer of a derivation is not known any more
\* (AggregatorStrategy.resolveTicket): the ticket was used up for nothing.
Refuse(h) ==
  /\ pc[h] \in {"verify", "evaluate"}
  /\ Finish(h)
  /\ UNCHANGED <<stores, server>>

-----------------------------------------------------------------------------
(* Permissions.                                                             *)

\* OdrlAuthorizer.permissions decides on one scope after the other, each by
\* the policies of that moment.
Evaluate(h, p) ==
  /\ pc[h] = "evaluate"
  /\ p \in frame[h].pending
  /\ frame' = [frame EXCEPT
       ![h].pending = @ \ {p},
       ![h].granted = IF p \in policy[ticket[frame[h].dialog].provided]
                      THEN @ \cup {p} ELSE @]
  /\ UNCHANGED <<stores, server, pc>>

Evaluated(h) == pc[h] = "evaluate" /\ frame[h].pending = {}

\* Mutant: what the authorizer allows is granted without looking further.
NothingMissing(h) == {}

\* Derivation permissions for which no access token was pushed.
Missing(h) == frame[h].needed \cap Derived

\* ImmediateAuthorizerStrategy.resolveTicket behind AggregatorStrategy.
Resolved(h) ==
  /\ Missing(h) = {}
  /\ frame[h].granted # {}
  /\ AllowPartial \/ frame[h].needed \subseteq frame[h].granted

\* No requirement is left that the client could still meet.
Hopeless(h) == frame[h].granted = {} /\ Missing(h) = {}

\* The resource is public: the resource server needs no ticket.
Public(h) ==
  /\ Evaluated(h) /\ frame[h].kind = "ticket"
  /\ Resolved(h)
  /\ Finish(h)
  /\ UNCHANGED <<stores, server>>

\* The ticket object is stored under a new identifier: for the resource server
\* to pass on, or with the requirements a client has to meet (denyRequest).
StoreTicket(h) ==
  /\ Evaluated(h)
  /\ ~Resolved(h)
  /\ frame[h].kind = "ticket" \/ ~Hopeless(h)
  /\ FreeIds # {}
  /\ ticketStore' = [ticketStore EXCEPT ![Pick(FreeIds)] = frame[h].dialog]
  /\ Finish(h)
  /\ UNCHANGED <<opened, ticket, refreshStore, minted, server>>

\* denyRequest: the dialog is over.
Deny(h) ==
  /\ Evaluated(h) /\ frame[h].kind \in {"grant", "refresh"}
  /\ Hopeless(h)
  /\ Finish(h)
  /\ UNCHANGED <<stores, server>>

\* ContractManager.createContract has a word for every scope.
Writable(h) ==
  negotiator = "contract" /\ frame[h].kind = "grant" => frame[h].granted \subseteq Convertible

\* It throws for another scope (switchODRLandCSSPermission): the ticket was
\* used up for nothing.
Unwritable(h) ==
  /\ Evaluated(h)
  /\ Resolved(h)
  /\ ~Writable(h)
  /\ Finish(h)
  /\ UNCHANGED <<stores, server>>

\* The token is handed to the token factory, which signs it.
Grant(h) ==
  /\ Evaluated(h) /\ frame[h].kind \in {"grant", "refresh"}
  /\ Resolved(h)
  /\ Writable(h)
  /\ pc' = [pc EXCEPT ![h] = "mint"]
  /\ UNCHANGED <<stores, server, frame>>

\* The token is signed and stored, a refresh token for what was granted is
\* stored (StoredRefreshTokenIssuer), and the one that was used is removed.
Mint(h) ==
  LET d == frame[h].dialog
      new == [claims |-> ticket[d].provided, permissions |-> frame[h].granted,
              expired |-> FALSE] IN
  /\ pc[h] = "mint"
  /\ negotiator = "base" \/ frame[h].kind = "refresh"
  /\ FreeRefreshIds # {}
  /\ minted' = [minted EXCEPT ![d] = @ + 1]
  /\ refreshStore' = [r \in RefreshId |->
       IF r = Pick(FreeRefreshIds) THEN new
       ELSE IF r = frame[h].refresh THEN None
       ELSE refreshStore[r]]
  /\ Finish(h)
  /\ UNCHANGED <<opened, ticket, ticketStore, server>>

\* ContractNegotiator.toResponse: what the contract says, converted back, is
\* signed; there is no refresh token.
MintContract(h) ==
  /\ pc[h] = "mint"
  /\ negotiator = "contract" /\ frame[h].kind = "grant"
  /\ minted' = [minted EXCEPT ![frame[h].dialog] = @ + 1]
  /\ Finish(h)
  /\ UNCHANGED <<opened, ticket, ticketStore, refreshStore, server>>

-----------------------------------------------------------------------------
(* The environment.                                                         *)

\* A refresh token is stored for 7 days.
ExpireRefresh(r) ==
  /\ refreshStore[r] # None
  /\ ~refreshStore[r].expired
  /\ refreshStore' = [refreshStore EXCEPT ![r].expired = TRUE]
  /\ UNCHANGED <<opened, ticket, ticketStore, minted, server, pc, frame>>

\* The storage drops what has expired, or the handler that reads it.
DropExpired(r) ==
  /\ refreshStore[r] # None
  /\ refreshStore[r].expired
  /\ refreshStore' = [refreshStore EXCEPT ![r] = None]
  /\ UNCHANGED <<opened, ticket, ticketStore, minted, server, pc, frame>>

ChangePolicy ==
  /\ changes < MaxChanges
  /\ changes' = changes + 1
  /\ policy' \in Policies \ {policy}
  /\ UNCHANGED <<negotiator, stores, pc, frame>>

Init ==
  /\ negotiator \in Negotiators
  /\ opened = {}
  /\ ticket = [d \in Dialog |-> NoTicket]
  /\ ticketStore = [i \in TicketId |-> None]
  /\ refreshStore = [r \in RefreshId |-> None]
  /\ minted = [d \in Dialog |-> 0]
  /\ policy \in Policies
  /\ changes = 0
  /\ pc = [h \in Handler |-> "free"]
  /\ frame = [h \in Handler |-> Idle]

Receive(h) ==
  \/ \E asked \in Requests :
       \/ RequestTicket(h, asked)
       \/ \E pushed \in Pushes : RequestToken(h, asked, pushed)
  \/ \E i \in TicketId, pushed \in Pushes :
       \/ RedeemTicket(h, i, pushed)
       \/ \E r \in DOMAIN Creation : RedeemForDerivation(h, i, r, pushed)
  \/ \E r \in RefreshId : RefreshToken(h, r)

Handle(h) ==
  \/ \E c \in Credential : Verify(h, c)
  \/ Refuse(h)
  \/ \E p \in Wanted : Evaluate(h, p)
  \/ Public(h) \/ StoreTicket(h) \/ Deny(h) \/ Unwritable(h) \/ Grant(h)
  \/ Mint(h) \/ MintContract(h)

Next ==
  \/ \E h \in Handler : Receive(h) \/ Handle(h)
  \/ \E r \in RefreshId : ExpireRefresh(r) \/ DropExpired(r)
  \/ ChangePolicy

Spec == Init /\ [][Next]_vars

-----------------------------------------------------------------------------
(* Properties.                                                              *)

\* The type invariant of the stores and the handlers.
TypeOK ==
  /\ negotiator \in {"base", "contract"}
  /\ opened \subseteq Dialog
  /\ ticket \in [Dialog -> Ticket]
  /\ ticketStore \in [TicketId -> Dialog \cup {None}]
  /\ refreshStore \in [RefreshId -> RefreshInformation \cup {None}]
  /\ minted \in [Dialog -> Nat]
  /\ policy \in Policies
  /\ changes \in Nat
  /\ pc \in [Handler -> Point]
  /\ frame \in [Handler -> Frame]
  /\ \A h \in Handler : pc[h] # "free" => frame[h].dialog \in opened

\* A dialog leads to one access token at most: its ticket is stored once or
\* worked on by one handler, and neither once the token is minted, whatever
\* requests present the ticket at the same time (BaseNegotiator.getTicket).
TicketSingleUse ==
  \A d \in Dialog :
    /\ \A i, j \in TicketId : Stored(i, d) /\ Stored(j, d) => i = j
    /\ \A g, h \in Handler : Working(g, d) /\ Working(h, d) => g = h
    /\ \A i \in TicketId, h \in Handler : ~(Stored(i, d) /\ Working(h, d))
    /\ minted[d] <= 1
    /\ minted[d] = 1 => /\ \A i \in TicketId : ~Stored(i, d)
                        /\ \A h \in Handler : ~Working(h, d)

\* A token that is about to be signed has what the policies allow to the claims
\* of its dialog, unless the policies changed while the request was handled.
TokensReflectPolicy ==
  \A h \in Handler :
    pc[h] = "mint" /\ frame[h].since = changes =>
      frame[h].granted \subseteq policy[ticket[frame[h].dialog].provided]

\* A client that refreshes is never left without a refresh token: one that has
\* not expired is removed only together with the storage of its successor.
RotationKeepsAccess ==
  [][\A r \in RefreshId :
       refreshStore[r] # None /\ ~refreshStore[r].expired /\ refreshStore'[r] = None
       => \E s \in RefreshId : refreshStore[s] = None /\ refreshStore'[s] # None]_vars

\* No token is signed for a resource that is derived from others unless access to
\* each of those was proven in the dialog, over however many exchanges and by
\* whatever refresh token it came about (AggregatorStrategy.resolveTicket).
DerivationsProven ==
  \A h \in Handler :
    pc[h] = "mint" =>
      UNION {DerivedFrom[p] : p \in frame[h].granted \cap Permission}
        \subseteq ticket[frame[h].dialog].provided

=============================================================================
