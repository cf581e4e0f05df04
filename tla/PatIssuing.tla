------------------------------ MODULE PatIssuing ------------------------------
(****************************************************************************)
(* How an authorization server hands out PATs, the tokens resource servers  *)
(* authenticate with: the registration of clients                           *)
(* (routes/ClientRegistration.ts), the grants for PATs                      *)
(* (routes/token/UmaProtection.ts) and their validation                     *)
(* (util/http/validate/PatRequestValidator.ts), all under packages/uma/src. *)
(*                                                                          *)
(* Clients and PATs are in one in-memory storage, so that a handler only    *)
(* gives way to others when it verifies a credential, which registration    *)
(* does before it looks at anything, and when it signs a PAT, which is      *)
(* between looking up what to replace and replacing it.                     *)
(*                                                                          *)
(* A PAT and the refresh token that comes with it are made at the same time *)
(* and stored in the same entry: both are <<client, serial>> here.          *)
(****************************************************************************)
EXTENDS Naturals, FiniteSets

CONSTANTS
  Client,    \* identifiers of clients; each has one secret
  User,      \* WebIDs that register clients
  Server,    \* the client_uri of resource servers
  Row,       \* identifiers of entries for PATs in the storage
  Handler,   \* identities for token requests handled at the same time
  None,      \* no entry, no client
  MaxSerial  \* bound: PATs signed for one client

ASSUME PatAssumption ==
  /\ None \notin Client \cup Row
  /\ MaxSerial \in Nat

VARIABLES
  registered,  \* the clients in the storage
  removed,     \* clients there were: identifiers are never used again
  client,      \* the user and the resource server of each client
  pats,        \* the entry of each Row, or None
  signed,      \* how many PATs have been signed for each client
  frame,       \* the request each handler is signing a PAT for
  overlapped   \* history: clients with two requests at the same time

storage == <<registered, removed, client, pats>>
vars == <<storage, signed, frame, overlapped>>

-----------------------------------------------------------------------------
Registration == [user : User, server : Server]

Entry == [client : Client, serial : Nat, expired : BOOLEAN]

ASSUME NoneAssumption == None \notin Entry \cup Registration

\* client is None when the handler is free, row when there is nothing to replace.
Frame == [client : Client \cup {None}, row : Row \cup {None}]

Idle == [client |-> None, row |-> None]

RowsOf(c) == {r \in Row : pats[r] # None /\ pats[r].client = c}

FreeRows == {r \in Row : pats[r] = None}

Signing(c) == {h \in Handler : frame[h].client = c}

\* PatRequestValidator: an entry with this PAT that has not expired, of a
\* client that is still there.
Accepted(c, n) ==
  /\ c \in registered
  /\ \E r \in RowsOf(c) : pats[r].serial = n /\ ~pats[r].expired

-----------------------------------------------------------------------------
(* Clients.                                                                 *)

\* registerClient: 409 if the user has a client for this resource server.
RegisterClient(c, u, s) ==
  /\ c \notin registered \cup removed
  /\ [user |-> u, server |-> s] \notin {client[d] : d \in registered}
  /\ registered' = registered \cup {c}
  /\ client' = [client EXCEPT ![c] = [user |-> u, server |-> s]]
  /\ UNCHANGED <<removed, pats, signed, frame, overlapped>>

\* deleteClient, by the user who registered it: 404 and 403 otherwise.  The
\* storage removes the PATs with the client they refer to.
RemoveClient(c, u) ==
  /\ c \in registered
  /\ client[c].user = u
  /\ registered' = registered \ {c}
  /\ removed' = removed \cup {c}
  /\ pats' = [r \in Row |-> IF r \in RowsOf(c) THEN None ELSE pats[r]]
  /\ UNCHANGED <<client, signed, frame, overlapped>>

-----------------------------------------------------------------------------
(* PATs.                                                                    *)

\* The request has passed its checks; generateToken starts to sign.
Sign(h, c, r) ==
  /\ frame[h] = Idle
  /\ frame' = [frame EXCEPT ![h] = [client |-> c, row |-> r]]
  /\ overlapped' = IF Signing(c) = {} THEN overlapped ELSE overlapped \cup {c}
  /\ UNCHANGED <<storage, signed>>

\* Mutant: every token request leads to a new entry.
NothingToReplace(c) == {None}

\* matches[0] of the entries of the client; the storage gives them in any order.
ToReplace(c) == IF RowsOf(c) = {} THEN {None} ELSE RowsOf(c)

\* handleClientCredentials, with the secret of client c.
RequestPat(h, c) ==
  /\ c \in registered
  /\ \E r \in ToReplace(c) : Sign(h, c, r)

\* Mutant: any client can use the refresh token.
AnyCredentials(c, d) == TRUE

\* 403 if the refresh token is not one of the client that presents it.
OwnCredentials(c, d) == c = d

\* handleRefreshToken: client d, with its secret, presents refresh token
\* <<c, n>>; one that has been replaced is not found.
RefreshPat(h, d, c, n) ==
  /\ d \in registered
  /\ OwnCredentials(c, d)
  /\ \E r \in RowsOf(c) : pats[r].serial = n /\ Sign(h, d, r)

\* Mutant: the PAT is stored whatever became of the client meanwhile.
AlwaysStorable(h) == frame[h].client # None

\* The storage only takes an entry for a client that is there; the entry to
\* replace is there as long as its client is.
Storable(h) == frame[h].client \in registered

\* The end of generateToken: the PAT is signed and replaces the one that was
\* found before, or makes a new entry.
StorePat(h, r) ==
  LET c == frame[h].client IN
  /\ Storable(h)
  /\ r \in (IF frame[h].row # None THEN {frame[h].row} ELSE FreeRows)
  /\ signed[c] < MaxSerial
  /\ signed' = [signed EXCEPT ![c] = @ + 1]
  /\ pats' = [pats EXCEPT ![r] =
       [client |-> c, serial |-> signed[c] + 1, expired |-> FALSE]]
  /\ frame' = [frame EXCEPT ![h] = Idle]
  /\ UNCHANGED <<registered, removed, client, overlapped>>

\* The client was removed meanwhile: the storage throws.
StoreFails(h) ==
  /\ frame[h].client # None
  /\ ~Storable(h)
  /\ frame' = [frame EXCEPT ![h] = Idle]
  /\ UNCHANGED <<storage, signed, overlapped>>

Expired(e) == [e EXCEPT !.expired = TRUE]

\* The entry stays; the validator and nobody else looks at its expiration.
ExpirePat(r) ==
  /\ pats[r] # None
  /\ ~pats[r].expired
  /\ pats' = [pats EXCEPT ![r] = Expired(@)]
  /\ UNCHANGED <<registered, removed, client, signed, frame, overlapped>>

-----------------------------------------------------------------------------
Init ==
  /\ registered = {}
  /\ removed = {}
  /\ client = [c \in Client |-> None]
  /\ pats = [r \in Row |-> None]
  /\ signed = [c \in Client |-> 0]
  /\ frame = [h \in Handler |-> Idle]
  /\ overlapped = {}

Clients ==
  \E c \in Client, u \in User :
    \/ \E s \in Server : RegisterClient(c, u, s)
    \/ RemoveClient(c, u)

Tokens(h) ==
  \/ \E c \in Client : RequestPat(h, c)
  \/ \E c, d \in Client, n \in 1..MaxSerial : RefreshPat(h, d, c, n)
  \/ \E r \in Row : StorePat(h, r)
  \/ StoreFails(h)

Next ==
  \/ Clients
  \/ \E h \in Handler : Tokens(h)
  \/ \E r \in Row : ExpirePat(r)

Spec == Init /\ [][Next]_vars

-----------------------------------------------------------------------------
(* Properties.                                                              *)

\* The type invariant of the storage and the handlers.
TypeOK ==
  /\ registered \subseteq Client
  /\ removed \subseteq Client
  /\ client \in [Client -> Registration \cup {None}]
  /\ \A c \in registered : client[c] # None
  /\ pats \in [Row -> Entry \cup {None}]
  /\ signed \in [Client -> Nat]
  /\ frame \in [Handler -> Frame]
  /\ overlapped \subseteq Client

\* A client that was removed is out for good: no PAT of it is stored, not even
\* one that was being signed when it was removed (generateToken).
RemovedStaysOut == \A c \in removed : c \notin registered /\ RowsOf(c) = {}

\* A client has one PAT, which the next one replaces, unless requests of it
\* overlapped (handleClientCredentials looks for the entry before it signs).
SinglePat == \A c \in Client \ overlapped : \A q, r \in RowsOf(c) : q = r

Replaced(r) == pats[r] # None /\ ~pats[r].expired /\ pats'[r] # pats[r]

OwnDoing(r) ==
  \/ pats'[r] = Expired(pats[r])
  \/ \E h \in Signing(pats[r].client) : frame'[h] = Idle

\* 'The current implementation of the AS allows the PAT to be reused until it
\* is expired' (getting-started.md): a PAT is accepted until it expires, its
\* client is removed, or a request made with the secret of its own client ends.
OthersKeepPats ==
  [][\A r \in Row :
       Replaced(r) /\ pats[r].client \in registered' => OwnDoing(r)]_vars

=============================================================================
