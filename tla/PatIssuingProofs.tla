--------------------------- MODULE PatIssuingProofs ---------------------------
(****************************************************************************)
(* Proofs about PatIssuing, for any number of clients, entries and handlers.*)
(* What has to be shown with the properties is what a handler remembers     *)
(* while it signs: the entry it is going to replace stays the one its       *)
(* client has.                                                              *)
(****************************************************************************)
EXTENDS PatIssuing, TLAPS

\* What is stored, and what is being signed, belongs to a client there is or was.
ClientsKnown ==
  /\ registered \cap removed = {}
  /\ \A r \in Row : pats[r] # None => pats[r].client \in registered
  /\ \A h \in Handler :
       frame[h].client # None => frame[h].client \in registered \cup removed

\* The entry to replace is one of the client the PAT is for.
RowKept ==
  \A h \in Handler :
    frame[h].row # None /\ frame[h].client \in registered
      => frame[h].row \in RowsOf(frame[h].client)

\* A request nothing overlaps with is alone, and has seen all entries.
Undisturbed ==
  \A c \in Client \ overlapped :
    /\ \A g, h \in Signing(c) : g = h
    /\ \A h \in Signing(c) :
         c \in registered => RowsOf(c) \subseteq {frame[h].row}

PatInv == TypeOK /\ ClientsKnown /\ RowKept /\ Undisturbed /\ SinglePat

-----------------------------------------------------------------------------
LEMMA InitHolds == Init => PatInv
  BY PatAssumption, NoneAssumption
  DEF Init, PatInv, TypeOK, ClientsKnown, RowKept, Undisturbed, SinglePat,
      RowsOf, Signing, Idle, Frame

LEMMA RegisterClientStep ==
  ASSUME PatInv, NEW c \in Client, NEW u \in User, NEW s \in Server,
         RegisterClient(c, u, s)
  PROVE  PatInv'
<1> USE DEF RegisterClient, PatInv
<1>1. TypeOK'
  BY PatAssumption, NoneAssumption DEF TypeOK, Registration
<1>2. ClientsKnown'
  BY DEF ClientsKnown, TypeOK
<1>3. RowKept'
  BY PatAssumption DEF RowKept, ClientsKnown, TypeOK, RowsOf
<1>4. Undisturbed'
  BY PatAssumption DEF Undisturbed, ClientsKnown, TypeOK, RowsOf, Signing
<1>5. SinglePat'
  BY DEF SinglePat, RowsOf
<1> QED BY <1>1, <1>2, <1>3, <1>4, <1>5

LEMMA RemoveClientStep ==
  ASSUME PatInv, NEW c \in Client, NEW u \in User, RemoveClient(c, u)
  PROVE  PatInv'
<1> USE DEF RemoveClient, PatInv
<1>1. TypeOK'
  BY DEF TypeOK
<1>2. \A d \in Client : RowsOf(d)' \subseteq RowsOf(d)
  BY DEF RowsOf, TypeOK
<1>3. \A d \in registered' : RowsOf(d)' = RowsOf(d)
  BY DEF RowsOf, TypeOK
<1>4. ClientsKnown'
  BY DEF ClientsKnown, RowsOf, TypeOK
<1>5. RowKept'
  BY <1>3 DEF RowKept, TypeOK
<1>6. Undisturbed'
  BY <1>3 DEF Undisturbed, Signing, TypeOK
<1>7. SinglePat'
  BY <1>2 DEF SinglePat
<1> QED BY <1>1, <1>4, <1>5, <1>6, <1>7

LEMMA SignStep ==
  ASSUME PatInv, NEW h \in Handler, NEW c \in registered,
         NEW r \in RowsOf(c) \cup {None}, r = None => RowsOf(c) = {},
         Sign(h, c, r)
  PROVE  PatInv'
<1> USE DEF Sign, PatInv
<1>1. c \in Client /\ c # None
  BY PatAssumption DEF TypeOK
<1>2. TypeOK'
  BY <1>1 DEF TypeOK, Frame, storage, RowsOf
<1>3. ClientsKnown'
  BY <1>1 DEF ClientsKnown, TypeOK, Frame, storage
<1>4. \A d \in Client : RowsOf(d)' = RowsOf(d)
  BY DEF RowsOf, storage
<1>5. RowKept'
  BY <1>1, <1>4 DEF RowKept, TypeOK, Frame, storage
<1>6. \A d \in Client : d # c => Signing(d)' = Signing(d)
  BY <1>1, PatAssumption DEF Signing, TypeOK, Frame, Idle
<1>7. c \notin overlapped' => Signing(c) = {} /\ c \notin overlapped
  OBVIOUS
<1>8. c \notin overlapped' => Signing(c)' = {h} /\ frame'[h].row = r
  BY <1>1, <1>7 DEF Signing, TypeOK, Frame
<1>9. c \notin overlapped' => RowsOf(c) \subseteq {r}
  BY <1>1, <1>7 DEF SinglePat
<1>10. ASSUME NEW d \in (Client \ overlapped)'
       PROVE  /\ \A g, k \in Signing(d)' : g = k
              /\ \A k \in Signing(d)' :
                   d \in registered' => RowsOf(d)' \subseteq {frame'[k].row}
  <2>1. CASE d = c
    BY <2>1, <1>1, <1>4, <1>8, <1>9
  <2>2. CASE d # c
    <3>1. d \in Client \ overlapped /\ Signing(d)' = Signing(d) /\ RowsOf(d)' = RowsOf(d)
      BY <2>2, <1>4, <1>6
    <3>2. \A k \in Signing(d) : frame'[k] = frame[k]
      BY <2>2, <1>1, PatAssumption DEF Signing, TypeOK, Frame, Idle
    <3> QED BY <3>1, <3>2 DEF Undisturbed, storage
  <2> QED BY <2>1, <2>2
<1>11. Undisturbed'
  BY <1>10 DEF Undisturbed
<1>12. SinglePat'
  BY <1>4 DEF SinglePat
<1> QED BY <1>2, <1>3, <1>5, <1>11, <1>12

LEMMA StoreStep ==
  ASSUME PatInv, NEW h \in Handler, NEW r \in Row, StorePat(h, r)
  PROVE  PatInv'
<1> USE DEF PatInv
<1>1. PICK c \in registered : c = frame[h].client
  BY DEF StorePat, Storable
<1>c. c \in Client /\ c # None
  BY PatAssumption DEF TypeOK
<1> DEFINE e == [client |-> c, serial |-> signed[c] + 1, expired |-> FALSE]
<1>2. e \in Entry /\ e # None /\ e.client = c
  <2>1. signed[c] + 1 \in Nat
    BY <1>c DEF TypeOK
  <2>2. e \in Entry
    BY <1>c, <2>1 DEF Entry
  <2> QED BY <2>2, NoneAssumption
<1>3. pats[r] = None \/ pats[r].client = c
  BY <1>1, <1>c, PatAssumption DEF RowKept, RowsOf, FreeRows, StorePat
<1>s. /\ pats' = [pats EXCEPT ![r] = e]
      /\ frame' = [frame EXCEPT ![h] = Idle]
      /\ signed' = [signed EXCEPT ![c] = @ + 1]
      /\ UNCHANGED <<registered, removed, client, overlapped>>
      /\ frame[h].row # None => r = frame[h].row
      /\ frame[h].row = None => r \in FreeRows
  BY <1>1 DEF StorePat
<1> HIDE DEF e
<1>4. RowsOf(c)' = RowsOf(c) \cup {r}
  BY <1>2, <1>s DEF RowsOf, TypeOK
<1>5. \A d \in Client : d # c => RowsOf(d)' = RowsOf(d)
  BY <1>2, <1>3, <1>s DEF RowsOf, TypeOK
<1>6. TypeOK'
  BY <1>1, <1>c, <1>2, <1>s DEF TypeOK, Frame, Idle
<1>7. ClientsKnown'
  BY <1>1, <1>c, <1>2, <1>s, PatAssumption DEF ClientsKnown, TypeOK, Frame, Idle
<1>8. RowKept'
  BY <1>1, <1>c, <1>4, <1>5, <1>s, PatAssumption DEF RowKept, TypeOK, Frame, Idle
<1>9. c \notin overlapped => Signing(c) = {h} /\ Signing(c)' = {}
  BY <1>1, <1>c, <1>s, PatAssumption DEF Signing, Undisturbed, TypeOK, Frame, Idle
<1>10. \A d \in Client : d # c => Signing(d)' = Signing(d)
  BY <1>1, <1>c, <1>s, PatAssumption DEF Signing, TypeOK, Frame, Idle
<1>11. ASSUME NEW d \in Client \ overlapped
       PROVE  /\ \A g, k \in Signing(d)' : g = k
              /\ \A k \in Signing(d)' :
                   d \in registered => RowsOf(d)' \subseteq {frame'[k].row}
  <2>1. CASE d = c
    BY <2>1, <1>9
  <2>2. CASE d # c
    <3>1. \A k \in Signing(d) : frame'[k] = frame[k]
      BY <2>2, <1>1, <1>s DEF Signing, TypeOK, Frame
    <3> QED BY <2>2, <3>1, <1>5, <1>10, <1>s DEF Undisturbed
  <2> QED BY <2>1, <2>2
<1>12. Undisturbed'
  BY <1>11, <1>s DEF Undisturbed
<1>13. ASSUME c \notin overlapped
       PROVE  RowsOf(c)' = {r}
  <2>1. h \in Signing(c) /\ RowsOf(c) \subseteq {frame[h].row}
    BY <1>1, <1>c, <1>9, <1>13 DEF Undisturbed
  <2>2. CASE frame[h].row = None
    BY <2>1, <2>2, <1>4, PatAssumption DEF RowsOf
  <2>3. CASE frame[h].row # None
    BY <2>1, <2>3, <1>4, <1>s
  <2> QED BY <2>2, <2>3
<1>14. SinglePat'
  BY <1>5, <1>13, <1>s DEF SinglePat
<1> QED BY <1>6, <1>7, <1>8, <1>12, <1>14

LEMMA StoreFailsStep ==
  ASSUME PatInv, NEW h \in Handler, StoreFails(h)
  PROVE  PatInv'
<1> USE DEF StoreFails, PatInv, storage
<1>1. TypeOK'
  BY DEF TypeOK, Frame, Idle
<1>2. ClientsKnown'
  BY PatAssumption DEF ClientsKnown, TypeOK, Idle
<1>3. \A d \in Client : RowsOf(d)' = RowsOf(d) /\ Signing(d)' \subseteq Signing(d)
  BY PatAssumption DEF RowsOf, Signing, TypeOK, Idle
<1>4. RowKept'
  BY <1>3, PatAssumption DEF RowKept, TypeOK, Idle
<1>5. \A d \in Client : \A k \in Signing(d)' : frame'[k] = frame[k]
  BY PatAssumption DEF Signing, TypeOK, Idle
<1>6. Undisturbed'
  BY <1>3, <1>5 DEF Undisturbed
<1>7. SinglePat'
  BY <1>3 DEF SinglePat
<1> QED BY <1>1, <1>2, <1>4, <1>6, <1>7

LEMMA ExpiredEntry ==
  ASSUME NEW e \in Entry
  PROVE  Expired(e) \in Entry /\ Expired(e).client = e.client
  BY DEF Expired, Entry

LEMMA ExpireStep ==
  ASSUME PatInv, NEW r \in Row, ExpirePat(r)
  PROVE  PatInv'
<1> USE DEF ExpirePat, PatInv
<1>1. /\ TypeOK'
      /\ \A q \in Row : /\ pats'[q] = None <=> pats[q] = None
                        /\ pats[q] # None => pats'[q].client = pats[q].client
  <2>1. pats[r] \in Entry /\ pats[r] # None
    BY DEF TypeOK
  <2>2. pats' = [pats EXCEPT ![r] = Expired(pats[r])]
    OBVIOUS
  <2>3. /\ Expired(pats[r]) \in Entry /\ Expired(pats[r]) # None
        /\ Expired(pats[r]).client = pats[r].client
    BY <2>1, ExpiredEntry, NoneAssumption
  <2> QED BY <2>1, <2>2, <2>3 DEF TypeOK
<1>2. ASSUME NEW c \in Client PROVE RowsOf(c)' = RowsOf(c)
  <2>1. \A q \in Row : (pats'[q] # None /\ pats'[q].client = c)
                       <=> (pats[q] # None /\ pats[q].client = c)
    BY <1>1
  <2> QED BY <2>1 DEF RowsOf
<1>3. ClientsKnown'
  BY <1>1 DEF ClientsKnown
<1>4. RowKept' /\ Undisturbed' /\ SinglePat'
  BY <1>2 DEF RowKept, Undisturbed, SinglePat, Signing, TypeOK
<1> QED BY <1>1, <1>3, <1>4

LEMMA StutterStep == PatInv /\ UNCHANGED vars => PatInv'
  BY DEF PatInv, TypeOK, ClientsKnown, RowKept, Undisturbed, SinglePat, RowsOf,
         Signing, vars, storage

\* Requests that pass their checks are the only ones that sign.
LEMMA TokensStep ==
  ASSUME PatInv, NEW h \in Handler, Tokens(h)
  PROVE  PatInv'
<1>1. CASE \E c \in Client : RequestPat(h, c)
  <2>1. PICK c \in Client : RequestPat(h, c)
    BY <1>1
  <2>2. PICK r \in ToReplace(c) : c \in registered /\ Sign(h, c, r)
    BY <2>1 DEF RequestPat
  <2>3. r \in RowsOf(c) \cup {None} /\ (r = None => RowsOf(c) = {})
    BY <2>2, PatAssumption DEF ToReplace, RowsOf
  <2> HIDE DEF PatInv
  <2> QED BY <2>2, <2>3, SignStep, Zenon
<1>2. CASE \E c, d \in Client, n \in 1..MaxSerial : RefreshPat(h, d, c, n)
  <2>1. PICK c, d \in Client, n \in 1..MaxSerial : RefreshPat(h, d, c, n)
    BY <1>2
  <2>2. PICK r \in RowsOf(c) : c \in registered /\ Sign(h, c, r)
    BY <2>1 DEF RefreshPat, OwnCredentials
  <2>3. r # None
    BY PatAssumption DEF RowsOf
  <2> QED BY <2>2, <2>3, SignStep
<1>3. CASE \E r \in Row : StorePat(h, r)
  BY <1>3, StoreStep
<1>4. CASE StoreFails(h)
  BY <1>4, StoreFailsStep
<1> QED BY <1>1, <1>2, <1>3, <1>4 DEF Tokens

LEMMA NextHolds == PatInv /\ [Next]_vars => PatInv'
<1> SUFFICES ASSUME PatInv, [Next]_vars PROVE PatInv'
  OBVIOUS
<1>1. CASE Clients
  BY <1>1, RegisterClientStep, RemoveClientStep DEF Clients
<1>2. CASE \E h \in Handler : Tokens(h)
  BY <1>2, TokensStep
<1>3. CASE \E r \in Row : ExpirePat(r)
  BY <1>3, ExpireStep
<1>4. CASE UNCHANGED vars
  BY <1>4, StutterStep
<1> QED BY <1>1, <1>2, <1>3, <1>4 DEF Next

LEMMA PatInvHolds == Spec => []PatInv
  BY InitHolds, NextHolds, PTL DEF Spec

-----------------------------------------------------------------------------
\* The storage and the handlers stay well typed.
THEOREM PatsTyped == Spec => []TypeOK
<1>1. PatInv => TypeOK
  BY DEF PatInv
<1> QED BY <1>1, PatInvHolds, PTL

\* No PAT of a client that was removed is stored, whenever it was asked for
\* (the storage refuses what generateToken signs for it).
THEOREM RemovedClientStaysOut == Spec => []RemovedStaysOut
<1>1. PatInv => RemovedStaysOut
  BY DEF PatInv, ClientsKnown, RemovedStaysOut, RowsOf
<1> QED BY <1>1, PatInvHolds, PTL

\* A client whose requests never overlapped has one PAT at most.
THEOREM OnePatPerClient == Spec => []SinglePat
<1>1. PatInv => SinglePat
  BY DEF PatInv
<1> QED BY <1>1, PatInvHolds, PTL

LEMMA KeepStep ==
  ASSUME PatInv, Next, NEW r \in Row, Replaced(r), pats[r].client \in registered'
  PROVE  OwnDoing(r)
<1>1. CASE Clients
  <2>1. PICK c \in Client, u \in User :
          (\E s \in Server : RegisterClient(c, u, s)) \/ RemoveClient(c, u)
    BY <1>1 DEF Clients
  <2>2. pats'[r] = pats[r]
    BY <2>1 DEF RegisterClient, RemoveClient, RowsOf, PatInv, TypeOK
  <2> QED BY <2>2 DEF Replaced
<1>2. CASE \E h \in Handler : Tokens(h)
  <2>1. PICK h \in Handler : Tokens(h)
    BY <1>2
  <2>2. PICK q \in Row : StorePat(h, q)
    BY <2>1 DEF Tokens, RequestPat, RefreshPat, Sign, StoreFails, storage, Replaced
  <2>3. r = q /\ frame[h].row = r /\ frame'[h] = Idle /\ frame[h].client \in registered
    BY <2>2 DEF StorePat, Storable, Replaced, FreeRows, PatInv, TypeOK
  <2>4. h \in Signing(pats[r].client)
    BY <2>3, PatAssumption DEF PatInv, RowKept, RowsOf, Signing
  <2> QED BY <2>3, <2>4 DEF OwnDoing
<1>3. CASE \E q \in Row : ExpirePat(q)
  BY <1>3 DEF ExpirePat, Replaced, OwnDoing, PatInv, TypeOK
<1> QED BY <1>1, <1>2, <1>3 DEF Next

\* A PAT a client may use stays as it is until the client itself has asked for
\* another one, or it expires (generateToken replaces an entry in place).
THEOREM PatsAreKept == Spec => OthersKeepPats
<1> DEFINE Kept == \A r \in Row :
             Replaced(r) /\ pats[r].client \in registered' => OwnDoing(r)
<1>1. PatInv /\ [Next]_vars => [Kept]_vars
  BY KeepStep
<1> HIDE DEF Kept
<1>2. Spec => [][Kept]_vars
  BY <1>1, PatInvHolds, PTL DEF Spec
<1> QED BY <1>2 DEF OthersKeepPats, Kept

=============================================================================
