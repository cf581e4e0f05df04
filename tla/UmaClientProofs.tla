--------------------------- MODULE UmaClientProofs ---------------------------
(****************************************************************************)
(* Theorems about UmaClient, for every tree of resources, every set of      *)
(* accounts and issuers, and any number of concurrent calls.                *)
(****************************************************************************)
EXTENDS UmaClientRefinements, TLAPS

-----------------------------------------------------------------------------
(* Lemmas about the building blocks.                                        *)

\* A call in use, or a free one if there is any.
LEMMA PickInSet == ASSUME NEW S, S # {} PROVE Pick(S) \in S
  BY DEF Pick

\* The frame of a call that is not in use, and of a new registerResource call.
LEMMA IdleType == Idle \in Frame
  BY ResourceAssumption DEF Idle, Frame, Kind

LEMMA RegisteringType ==
  ASSUME NEW r \in Resource, NEW a \in Account \cup {Nobody},
         NEW c \in Call \cup {NoCall}
  PROVE  /\ Registering(r, a, c) \in Frame
         /\ Registering(r, a, c).acct = a
         /\ Registering(r, a, c).kind = "register"
         /\ Registering(r, a, c).res = r
         /\ Registering(r, a, c).pat = 0
  BY ResourceAssumption DEF Registering, Idle, Frame, Kind

\* The local variables of a call and their types.
LEMMA FrameFields ==
  ASSUME NEW f \in Frame
  PROVE  /\ f.kind \in Kind
         /\ f.res \in Resource
         /\ f.acct \in Account \cup {Nobody}
         /\ f.todo \subseteq Resource
         /\ f.body \subseteq Resource
         /\ f.pat \in Nat
         /\ f.for \in Call \cup {NoCall}
         /\ f.known \in BOOLEAN /\ f.linked \in BOOLEAN
         /\ f.ok \in BOOLEAN /\ f.bad \in BOOLEAN
  BY DEF Frame

\* g is the frame f with other values in variables that say neither what the
\* call is for, nor what it works on, nor on whose behalf.
SameWork(f, g) ==
  /\ g \in Frame
  /\ g.kind = f.kind
  /\ g.acct = f.acct

\* Assigning a local variable a value of its type.
LEMMA FrameUpdate ==
  ASSUME NEW f \in Frame
  PROVE  /\ \A b \in BOOLEAN : /\ SameWork(f, [f EXCEPT !.known = b])
                              /\ SameWork(f, [f EXCEPT !.linked = b])
                              /\ SameWork(f, [f EXCEPT !.ok = b])
                              /\ SameWork(f, [f EXCEPT !.bad = b])
         /\ \A n \in Nat : SameWork(f, [f EXCEPT !.pat = n])
         /\ \A c \in Call \cup {NoCall} : SameWork(f, [f EXCEPT !.for = c])
         /\ \A r \in Resource : SameWork(f, [f EXCEPT !.res = r])
         /\ \A r \in Resource : SameWork(f,
              [f EXCEPT !.todo = @ \ {r}, !.body = @ \cup {r}, !.res = r])
  BY DEF Frame, SameWork

\* Assigning one of them changes neither the kind of call nor its resource.
LEMMA FrameKeeps ==
  ASSUME NEW f \in Frame, NEW b
  PROVE  /\ [f EXCEPT !.known = b].res = f.res
         /\ [f EXCEPT !.known = b].kind = f.kind
         /\ [f EXCEPT !.linked = b].res = f.res
         /\ [f EXCEPT !.linked = b].kind = f.kind
         /\ [f EXCEPT !.ok = b].res = f.res
         /\ [f EXCEPT !.ok = b].kind = f.kind
         /\ [f EXCEPT !.bad = b].res = f.res
         /\ [f EXCEPT !.bad = b].kind = f.kind
         /\ [f EXCEPT !.for = b].res = f.res
         /\ [f EXCEPT !.for = b].kind = f.kind
         /\ [f EXCEPT !.pat = b].res = f.res
         /\ [f EXCEPT !.pat = b].kind = f.kind
  BY DEF Frame

LEMMA FieldSet ==
  ASSUME CallsTyped, NEW t \in Call, NEW b,
         \/ UNCHANGED frame
         \/ frame' = [frame EXCEPT ![t].known = b]
         \/ frame' = [frame EXCEPT ![t].linked = b]
         \/ frame' = [frame EXCEPT ![t].ok = b]
         \/ frame' = [frame EXCEPT ![t].pat = b]
  PROVE  \A u \in Call : /\ frame'[u].kind = frame[u].kind
                         /\ frame'[u].res = frame[u].res
  <1> SUFFICES ASSUME NEW u \in Call
               PROVE  /\ frame'[u].kind = frame[u].kind
                      /\ frame'[u].res = frame[u].res
    OBVIOUS
  <1>0. frame \in [Call -> Frame] /\ frame[t] \in Frame
    BY DEF CallsTyped
  <1>1. CASE UNCHANGED frame
    BY <1>1
  <1>2. CASE frame' = [frame EXCEPT ![t].known = b]
    BY <1>0, <1>2, FrameKeeps
  <1>3. CASE frame' = [frame EXCEPT ![t].linked = b]
    BY <1>0, <1>3, FrameKeeps
  <1>4. CASE frame' = [frame EXCEPT ![t].ok = b]
    BY <1>0, <1>4, FrameKeeps
  <1>5. CASE frame' = [frame EXCEPT ![t].pat = b]
    BY <1>0, <1>5, FrameKeeps
  <1>6. QED
    BY <1>1, <1>2, <1>3, <1>4, <1>5

\* The calls stay well typed when one of them moves on, or ends, or starts.
LEMMA MoveType ==
  ASSUME CallsTyped, NEW t \in Call, pc[t] # "free",
         NEW g \in Frame, SameWork(frame[t], g),
         NEW point \in Point,
         pc' = [pc EXCEPT ![t] = point],
         frame' = [frame EXCEPT ![t] = g]
  PROVE  CallsTyped'
  BY DEF CallsTyped, SameWork

LEMMA GotoType ==
  ASSUME CallsTyped, NEW t \in Call, pc[t] # "free", NEW point \in Point,
         Goto(t, point), UNCHANGED frame
  PROVE  CallsTyped'
  BY DEF CallsTyped, Goto

LEMMA LeaveType ==
  ASSUME CallsTyped, NEW t \in Call, NEW b \in BOOLEAN, Leave(t, b)
  PROVE  CallsTyped'
  <1>1. pc' \in [Call -> Point]
    BY DEF Leave, CallsTyped, Point
  <1>2. ASSUME NEW u \in Call
        PROVE  /\ SameWork(frame[u], [frame[u] EXCEPT !.bad = TRUE])
               /\ SameWork(frame[u], [frame[u] EXCEPT !.for = NoCall])
    BY FrameUpdate DEF CallsTyped
  <1>3. frame' \in [Call -> Frame]
    BY <1>2, IdleType DEF Leave, CallsTyped, SameWork
  <1>4. ASSUME NEW u \in Call, pc'[u] # "free"
        PROVE  frame'[u].acct \in Account
    <2>1. u # t /\ pc[u] # "free"
      BY <1>4 DEF Leave, CallsTyped
    <2>2. frame'[u].acct = frame[u].acct
      BY <2>1, <1>2 DEF Leave, SameWork
    <2>3. QED
      BY <2>1, <2>2 DEF CallsTyped
  <1>5. QED
    BY <1>1, <1>3, <1>4 DEF CallsTyped

LEMMA StartType ==
  ASSUME CallsTyped, NEW t \in Call,
         NEW f \in Frame, f.acct \in Account,
         NEW point \in Point,
         pc' = [pc EXCEPT ![t] = point],
         frame' = [frame EXCEPT ![t] = f]
  PROVE  CallsTyped'
  BY DEF CallsTyped

\* An event moves listeners on and starts or ends no call.
LEMMA EmitType ==
  ASSUME CallsTyped, NEW r
  PROVE  /\ Emit(r) \in [Call -> Point] /\ EmitPat \in [Call -> Point]
         /\ \A u \in Call : pc[u] = "free" => Emit(r)[u] = "free" /\ EmitPat[u] = "free"
  BY DEF Emit, EmitPat, CallsTyped, Point

-----------------------------------------------------------------------------
(* The type invariant.                                                      *)

\* Sending a registration starts at most two calls, both of them free ones.
LEMMA SendRegistrationType ==
  ASSUME CallsTyped, NEW t \in Call, SendRegistration(t)
  PROVE  CallsTyped'
  <1> DEFINE r == frame[t].res
             a == frame[t].acct
             again == Pick(Free)
             above == Pick(Free \ {again})
             linked == r # Root /\ ~Orphan(r)
             sent == [frame EXCEPT ![t] = [frame[t] EXCEPT !.linked = linked]]
  <1>1. /\ frame[t] \in Frame /\ r \in Resource /\ a \in Account
        /\ pc[t] # "free"
    BY FrameFields DEF SendRegistration, CallsTyped
  <1>2. SameWork(frame[t], [frame[t] EXCEPT !.linked = linked])
    BY <1>1, FrameUpdate
  <1>3. /\ sent \in [Call -> Frame]
        /\ \A u \in Call : sent[u].acct = frame[u].acct
    BY <1>2 DEF CallsTyped, SameWork
  <1>4. CASE ~Orphan(r)
    BY <1>1, <1>2, <1>4, MoveType DEF SendRegistration, Goto, Point, SameWork
  <1>5. ASSUME Orphan(r), Parent[r] \in inProgress PROVE CallsTyped'
    <2>1. again \in Call
      BY <1>5, PickInSet DEF SendRegistration, Free
    <2>2. /\ Registering(r, a, t) \in Frame
          /\ Registering(r, a, t).acct \in Account
      BY <1>1, RegisteringType
    <2>3. /\ pc' = [pc EXCEPT ![t] = "sent", ![again] = "deferred"]
          /\ frame' = [sent EXCEPT ![again] = Registering(r, a, t)]
      BY <1>5 DEF SendRegistration
    <2>4. QED
      BY <1>1, <1>3, <2>1, <2>2, <2>3 DEF CallsTyped, Point
  <1>6. ASSUME Orphan(r), Parent[r] \notin inProgress PROVE CallsTyped'
    <2>1. again \in Call /\ above \in Call
      BY <1>6, PickInSet DEF SendRegistration, Free
    <2>2. Parent[r] \in Resource
      BY <1>1, <1>6, ResourceAssumption DEF Orphan
    <2>3. /\ Registering(r, a, t) \in Frame
          /\ Registering(r, a, t).acct \in Account
          /\ Registering(Parent[r], a, t) \in Frame
          /\ Registering(Parent[r], a, t).acct \in Account
      BY <1>1, <2>2, RegisteringType
    <2>4. /\ pc' = [pc EXCEPT ![t] = "sent", ![again] = "deferred",
                              ![above] = "config"]
          /\ frame' = [sent EXCEPT ![again] = Registering(r, a, t),
                                   ![above] = Registering(Parent[r], a, t)]
      BY <1>6 DEF SendRegistration
    <2>5. QED
      BY <1>1, <1>3, <2>1, <2>3, <2>4 DEF CallsTyped, Point
  <1>7. QED
    BY <1>4, <1>5, <1>6

\* A registration or ticket is under way at the authorization server.
LEMMA HandleType ==
  ASSUME CallsTyped, NEW t \in Call, pc[t] # "free", Goto(t, "answered"),
         NEW b \in BOOLEAN, frame' = [frame EXCEPT ![t].ok = b]
  PROVE  CallsTyped'
  <1>1. SameWork(frame[t], [frame[t] EXCEPT !.ok = b])
    BY FrameUpdate DEF CallsTyped
  <1>2. QED
    BY <1>1, MoveType DEF Goto, Point, SameWork

LEMMA FoundType ==
  ASSUME CallsTyped, NEW t \in Call, pc[t] # "free", NEW r \in Resource,
         NEW point \in Point, Found(t, r), Goto(t, point)
  PROVE  CallsTyped'
  <1> DEFINE g == [frame[t] EXCEPT !.todo = @ \ {r}, !.body = @ \cup {r}, !.res = r]
  <1>1. SameWork(frame[t], g)
    BY FrameUpdate DEF CallsTyped
  <1>2. frame' = [frame EXCEPT ![t] = g]
    BY DEF Found
  <1>3. QED
    BY <1>1, <1>2, MoveType DEF Goto, SameWork

\* The accounts of the settings are among those of the open environment.
LEMMA SpecIsOpen == Spec => OpenSpec
  <1>1. Next => OpenNext
    BY AccountAssumption DEF Next, OpenNext, Environment
  <1>2. QED
    BY <1>1, PTL DEF Spec, OpenSpec

\* No step of the client, of its issuers or of its callers disturbs the types.
LEMMA TypeStep == TypeOK /\ [OpenNext]_vars => TypeOK'
  <1> SUFFICES ASSUME TypeOK, [OpenNext]_vars PROVE TypeOK'
    OBVIOUS
  <1> USE DEF TypeOK
  <1> USE DEF clientVars, callVars, serverVars, asVars
  <1>0. ASSUME NEW t \in Call
        PROVE  /\ frame[t] \in Frame
               /\ frame[t].res \in Resource
               /\ pc[t] # "free" => frame[t].acct \in Account
    BY FrameFields DEF CallsTyped
  <1>1. ASSUME NEW t \in Call, ConfigFails(t) PROVE TypeOK'
    BY <1>1, LeaveType DEF ConfigFails
  <1>2. ASSUME NEW t \in Call, ConfigRead(t) PROVE TypeOK'
    <2> DEFINE g == [frame[t] EXCEPT !.known = frame[t].res \in umaIdStore]
    <2>1. CASE Goto(t, "pat") /\ frame' = [frame EXCEPT ![t] = g]
      <3>1. SameWork(frame[t], g)
        <4>1. CASE frame[t].res \in umaIdStore
          <5>1. g = [frame[t] EXCEPT !.known = TRUE]
            BY <4>1
          <5>2. QED
            BY <1>0, <5>1, FrameUpdate
        <4>2. CASE frame[t].res \notin umaIdStore
          <5>0. (frame[t].res \in umaIdStore) = FALSE
            BY <4>2
          <5>1. g = [frame[t] EXCEPT !.known = FALSE]
            BY <5>0, Zenon
          <5>2. QED
            BY <1>0, <5>1, FrameUpdate
        <4>3. QED
          BY <4>1, <4>2
      <3>2. CallsTyped'
        BY <3>1, <2>1, <1>2, MoveType DEF ConfigRead, Goto, Point, SameWork
      <3>3. QED
        BY <1>2, <3>2 DEF ConfigRead
    <2>2. CASE Leave(t, TRUE)
      BY <1>2, <2>2, LeaveType DEF ConfigRead
    <2>3. CASE (Goto(t, "pat") \/ Goto(t, "lookup")) /\ UNCHANGED frame
      BY <1>2, <2>3, GotoType DEF ConfigRead, Point
    <2>4. QED
      BY <1>2, <2>1, <2>2, <2>3 DEF ConfigRead
  <1>3. ASSUME NEW t \in Call, GetPat(t) PROVE TypeOK'
    <2> DEFINE g == [frame[t] EXCEPT !.pat = patStorage[frame[t].acct]]
    <2>1. pc[t] # "free" /\ frame[t].acct \in Account
      BY <1>0, <1>3 DEF GetPat
    <2>2. CASE Goto(t, "send") /\ frame' = [frame EXCEPT ![t] = g]
      <3>1. SameWork(frame[t], g)
        BY <1>0, <2>1, FrameUpdate
      <3>2. CallsTyped'
        BY <3>1, <2>1, <2>2, MoveType DEF Goto, Point, SameWork
      <3>3. QED
        BY <1>3, <3>2 DEF GetPat, Claim
    <2>3. CASE (Goto(t, "waitPat") \/ Goto(t, "patConfig")) /\ UNCHANGED frame
      BY <1>3, <2>1, <2>3, GotoType DEF GetPat, Claim, Point
    <2>4. QED
      BY <1>3, <2>2, <2>3 DEF GetPat
  <1>4. ASSUME NEW t \in Call, PatConfigRead(t) \/ PatConfigFails(t) \/ PatRefused(t)
        PROVE  TypeOK'
    <2>1. CASE PatConfigRead(t)
      BY <1>0, <2>1, GotoType DEF PatConfigRead, Point
    <2>2. QED
      BY <1>4, <2>1, LeaveType DEF PatConfigFails, PatRefused
  <1>5. ASSUME NEW t \in Call, PatIssued(t) PROVE TypeOK'
    <2> DEFINE a == frame[t].acct
               g == [frame[t] EXCEPT !.pat = issuedPat[a] + 1]
    <2>1. pc[t] # "free" /\ a \in Account
      BY <1>0, <1>5 DEF PatIssued
    <2>2. SameWork(frame[t], g)
      <3>1. issuedPat[a] + 1 \in Nat
        BY <2>1
      <3>2. QED
        BY <1>0, <3>1, FrameUpdate
    <2>3. CallsTyped'
      BY <1>5, <2>1, <2>2, MoveType DEF PatIssued, Goto, Point, SameWork
    <2>4. QED
      BY <1>5, <2>1, <2>3 DEF PatIssued
  <1>6. ASSUME NEW t \in Call, PatReceived(t) PROVE TypeOK'
    <2>1. pc[t] # "free" /\ frame[t].acct \in Account /\ frame[t].pat \in Nat
      BY <1>0, <1>6, FrameFields DEF PatReceived
    <2>2. CallsTyped'
      BY <1>6, <2>1, EmitType DEF PatReceived, CallsTyped, Point
    <2>3. QED
      BY <1>6, <2>1, <2>2 DEF PatReceived
  <1>7. ASSUME NEW t \in Call, Begin(t) PROVE TypeOK'
    BY <1>0, <1>7, GotoType DEF Begin, Enter, Claim, Point
  <1>8. ASSUME NEW t \in Call, SendRegistration(t) PROVE TypeOK'
    <2>1. inProgress' \subseteq Resource \cup {PatEvent}
      BY <1>0, <1>8, ResourceAssumption DEF SendRegistration, Claim, Orphan
    <2>2. QED
      BY <1>8, <2>1, SendRegistrationType DEF SendRegistration
  <1>9. ASSUME NEW t \in Call, HandleRegistration(t) PROVE TypeOK'
    <2> DEFINE a == frame[t].acct
               i == IssuerOf[a]
               r == frame[t].res
    <2>1. /\ pc[t] # "free"
          /\ a \in Account /\ i \in Issuer /\ r \in Resource
      BY <1>0, <1>9, AccountAssumption DEF HandleRegistration
    <2>2. Acceptable(t) \in BOOLEAN
      BY DEF Acceptable
    <2>3. CallsTyped'
      BY <1>9, <2>1, <2>2, HandleType DEF HandleRegistration
    <2>4. CASE ~Acceptable(t)
      BY <1>9, <2>3, <2>4 DEF HandleRegistration
    <2>5. CASE Acceptable(t)
      <3>1. registrations' \in [Issuer -> [Resource -> Account \cup {Nobody}]]
        <4>1. registrations' = [registrations EXCEPT ![i] =
                                  [registrations[i] EXCEPT ![r] = a]]
          BY <1>9, <2>5 DEF HandleRegistration
        <4>2. QED
          BY <4>1, <2>1
      <3>2. /\ relations' \in [Issuer -> SUBSET Resource]
            /\ collections' \in [Issuer -> SUBSET Resource]
        <4>1. /\ (IF frame[t].linked THEN relations[i] \cup {r}
                                     ELSE relations[i] \ {r}) \subseteq Resource
              /\ collections[i] \cup ({r} \cap Container) \subseteq Resource
          BY <2>1
        <4>2. /\ relations' = [relations EXCEPT ![i] =
                   IF frame[t].linked THEN relations[i] \cup {r}
                                      ELSE relations[i] \ {r}]
              /\ collections' = [collections EXCEPT
                   ![i] = collections[i] \cup ({r} \cap Container)]
          BY <1>9, <2>5 DEF HandleRegistration
        <4>3. QED
          BY <4>1, <4>2
      <3>3. QED
        BY <1>9, <2>3, <3>1, <3>2 DEF HandleRegistration
    <2>6. QED
      BY <2>4, <2>5
  <1>10. ASSUME NEW t \in Call, RegistrationAnswered(t) PROVE TypeOK'
    <2>1. CASE Succeeded(t)
      <3>1. CallsTyped'
        BY <1>10, <2>1, EmitType DEF RegistrationAnswered, CallsTyped, Point
      <3>2. QED
        BY <1>0, <1>10, <2>1, <3>1 DEF RegistrationAnswered, StoredId
    <2>2. CASE ~Succeeded(t)
      BY <1>10, <2>2, LeaveType DEF RegistrationAnswered
    <2>3. QED
      BY <2>1, <2>2
  <1>11. ASSUME NEW t \in Call, Join(t) PROVE TypeOK'
    BY <1>11, LeaveType DEF Join
  <1>12. ASSUME NEW t \in Call, RejectEarly(t) PROVE TypeOK'
    <2> DEFINE u == frame[t].for
               half == [frame EXCEPT ![t] = [frame[t] EXCEPT !.for = NoCall]]
    <2>1. u \in Call
      BY <1>0, <1>12, FrameFields DEF RejectEarly
    <2>2. SameWork(frame[t], [frame[t] EXCEPT !.for = NoCall])
      BY <1>0, FrameUpdate
    <2>3. /\ half \in [Call -> Frame]
          /\ \A v \in Call : half[v].acct = frame[v].acct
      BY <2>2 DEF SameWork, CallsTyped
    <2>4. SameWork(half[u], [half[u] EXCEPT !.bad = TRUE])
      BY <2>1, <2>3, FrameUpdate
    <2>5. frame' = [half EXCEPT ![u] = [half[u] EXCEPT !.bad = TRUE]]
      BY <1>12 DEF RejectEarly
    <2>6. CallsTyped'
      <3>1. frame' \in [Call -> Frame]
        BY <2>1, <2>3, <2>4, <2>5 DEF SameWork
      <3>2. ASSUME NEW v \in Call PROVE frame'[v].acct = frame[v].acct
        BY <2>1, <2>3, <2>4, <2>5 DEF SameWork
      <3>3. QED
        BY <1>12, <3>1, <3>2 DEF RejectEarly, CallsTyped
    <2>7. QED
      BY <1>12, <2>6 DEF RejectEarly
  <1>13. ASSUME NEW t \in Call, Lookup(t) PROVE TypeOK'
    <2>1. CASE Goto(t, "pat") /\ UNCHANGED frame
      BY <1>13, <2>1, GotoType DEF Lookup, Point
    <2>2. CASE \E r \in frame[t].todo : Found(t, r) /\ UNCHANGED pc
      <3>1. PICK r \in frame[t].todo : Found(t, r) /\ UNCHANGED pc
        BY <2>2
      <3>2. r \in Resource /\ pc[t] = "lookup" /\ Goto(t, "lookup")
        BY <1>0, <1>13, <3>1, FrameFields DEF Lookup, Goto, CallsTyped
      <3>3. CallsTyped'
        BY <3>1, <3>2, FoundType DEF Point
      <3>4. QED
        BY <1>13, <3>3 DEF Lookup
    <2>3. CASE \E r \in frame[t].todo :
                 /\ frame' = [frame EXCEPT ![t].res = r]
                 /\ Goto(t, IF r \in inProgress THEN "waitEvent" ELSE "probe")
      <3>1. PICK r \in frame[t].todo :
                 /\ frame' = [frame EXCEPT ![t] = [frame[t] EXCEPT !.res = r]]
                 /\ Goto(t, IF r \in inProgress THEN "waitEvent" ELSE "probe")
        BY <2>3
      <3>2. r \in Resource /\ pc[t] # "free"
        BY <1>0, <1>13, FrameFields DEF Lookup
      <3>3. SameWork(frame[t], [frame[t] EXCEPT !.res = r])
        BY <1>0, <3>2, FrameUpdate
      <3>4. CallsTyped'
        BY <3>1, <3>2, <3>3, MoveType DEF Goto, Point, SameWork
      <3>5. QED
        BY <1>13, <3>4 DEF Lookup
    <2>4. QED
      BY <1>13, <2>1, <2>2, <2>3 DEF Lookup
  <1>14. ASSUME NEW t \in Call, Timeout(t) PROVE TypeOK'
    BY <1>14, LeaveType DEF Timeout
  <1>15. ASSUME NEW t \in Call, Woken(t) PROVE TypeOK'
    BY <1>0, <1>15, FoundType, GotoType DEF Woken, Point
  <1>16. ASSUME NEW t \in Call, Probe(t) PROVE TypeOK'
    <2> DEFINE r == frame[t].res
               a == frame[t].acct
               u == Pick(Free)
    <2>1. CASE r \notin exists
      BY <1>16, <2>1, LeaveType DEF Probe
    <2>2. CASE r \in exists
      <3>1. u \in Call
        BY <1>16, <2>2, PickInSet DEF Probe, Free
      <3>2. a \in Account /\ r \in Resource /\ pc[t] # "free"
        BY <1>0, <1>16 DEF Probe
      <3>3. /\ Registering(r, a, t) \in Frame
            /\ Registering(r, a, t).acct = a
        BY <3>2, RegisteringType
      <3>4. CallsTyped'
        BY <1>16, <2>2, <3>1, <3>2, <3>3
           DEF Probe, Enter, CallsTyped, Point
      <3>5. QED
        BY <1>16, <2>2, <3>2, <3>4 DEF Probe, Claim
    <2>3. QED
      BY <2>1, <2>2
  <1>17. ASSUME NEW t \in Call, Registered(t) PROVE TypeOK'
    BY <1>0, <1>17, LeaveType, FoundType DEF Registered, Point
  <1>18. ASSUME NEW t \in Call, Send(t) PROVE TypeOK'
    BY <1>18, GotoType DEF Send, Point
  <1>19. ASSUME NEW t \in Call, HandleTicket(t) PROVE TypeOK'
    <2>1. CallsTyped'
      BY <1>19, HandleType DEF HandleTicket
    <2>2. QED
      BY <1>19, <2>1 DEF HandleTicket
  <1>20. ASSUME NEW t \in Call, HandleDelete(t) PROVE TypeOK'
    <2> DEFINE i == IssuerOf[frame[t].acct]
               r == frame[t].res
               ok == PatValid(t) /\ registrations[i][r] = frame[t].acct
    <2>1. CallsTyped'
      BY <1>20, HandleType DEF HandleDelete
    <2>2. i \in Issuer /\ r \in Resource
      BY <1>0, <1>20, AccountAssumption DEF HandleDelete
    <2>3. registrations' \in [Issuer -> [Resource -> Account \cup {Nobody}]]
      <3>1. registrations' = IF ok THEN [registrations EXCEPT ![i] =
                                            [registrations[i] EXCEPT ![r] = Nobody]]
                                   ELSE registrations
        BY <1>20 DEF HandleDelete, RelationsWithout
      <3>2. QED
        BY <2>2, <3>1
    <2>4. relations' \in [Issuer -> SUBSET Resource]
      BY <1>20, <2>2 DEF HandleDelete, RelationsWithout
    <2>5. QED
      BY <1>20, <2>1, <2>3, <2>4 DEF HandleDelete, RelationsWithout
  <1>21. ASSUME NEW t \in Call, Answered(t) PROVE TypeOK'
    <2>1. (frame[t].kind = "ticket" /\ ~frame[t].ok) \in BOOLEAN
      OBVIOUS
    <2>2. QED
      BY <1>21, <2>1, LeaveType DEF Answered
  <1>22. ASSUME NEW t \in Call, Retry(t) PROVE TypeOK'
    BY <1>22, GotoType DEF Retry, Point
  <1>23. ASSUME NEW a \in Account, PatExpires(a) PROVE TypeOK'
    BY <1>23 DEF PatExpires, CallsTyped
  <1>24. ASSUME NEW a \in Account, CacheExpires(a) PROVE TypeOK'
    BY <1>24 DEF CacheExpires, CallsTyped
  <1>25. ASSUME NEW point \in Point, NEW f \in Frame, f.acct \in Account,
                NewCall(point, f), exists' \subseteq Resource
         PROVE  TypeOK'
    <2>1. Pick(Free) \in Call
      BY <1>25, PickInSet DEF NewCall, Free
    <2>2. CallsTyped'
      BY <1>25, <2>1, StartType DEF NewCall
    <2>3. QED
      BY <1>25, <2>2 DEF NewCall
  <1>26. ASSUME NEW r \in Resource \ {Root}, NEW a \in Account,
                Create(r, a) \/ Delete(r, a) \/ Reregister(r, a) \/ Unregister(r, a)
         PROVE  TypeOK'
    <2>1. CASE Create(r, a) \/ Reregister(r, a)
      <3>1. /\ Registering(r, a, NoCall) \in Frame
            /\ Registering(r, a, NoCall).acct \in Account
        BY RegisteringType
      <3>2. QED
        BY <1>25, <2>1, <3>1 DEF Create, Reregister, Point
    <2>2. CASE Delete(r, a) \/ Unregister(r, a)
      <3>1. Deleting(r, a) \in Frame /\ Deleting(r, a).acct \in Account
        BY DEF Deleting, Idle, Frame, Kind
      <3>2. NewCall("config", Deleting(r, a)) /\ exists' \subseteq Resource
        BY <2>2 DEF Delete, Unregister
      <3>3. QED
        BY <1>25, <3>1, <3>2 DEF Point
    <2>3. QED
      BY <1>26, <2>1, <2>2
  <1>27. ASSUME NEW T \in Targets, NEW a \in Account, Access(T, a)
         PROVE  TypeOK'
    <2> DEFINE f == [Idle EXCEPT !.kind = "ticket", !.todo = T, !.acct = a]
    <2>0. T \subseteq Resource
      <3>1. CASE T \in TicketTargets
        BY <3>1, EventAssumption
      <3>2. ASSUME NEW r \in Creations, T = FirstExisting(r) PROVE T \subseteq Resource
        <4>1. T \subseteq exists
          BY <3>2 DEF FirstExisting
        <4> QED
          BY <4>1
      <3>3. QED
        BY <3>1, <3>2 DEF Targets
    <2>1. f \in Frame /\ f.acct \in Account
      BY <2>0, ResourceAssumption DEF Idle, Frame, Kind
    <2>2. NewCall("config", f) /\ exists' \subseteq Resource
      BY <1>27 DEF Access
    <2>3. QED
      BY <1>25, <2>1, <2>2 DEF Point
  <1>28. CASE UNCHANGED vars
    BY <1>28 DEF vars, CallsTyped
  <1>30. ASSUME NEW r \in Resource \ {Root}, Unseen(r) PROVE TypeOK'
    BY <1>30 DEF Unseen, CallsTyped
  <1>29. QED
    BY <1>1, <1>2, <1>3, <1>4, <1>5, <1>6, <1>7, <1>8, <1>9, <1>10, <1>11,
       <1>12, <1>13, <1>14, <1>15, <1>16, <1>17, <1>18, <1>19, <1>20, <1>21,
       <1>22, <1>23, <1>24, <1>26, <1>27, <1>28, <1>30
    DEF OpenNext, Step, PatStep, RegisterStep, TicketStep, RequestStep, Environment

\* Every reachable state of the client, its calls and the registries it uses
\* is well typed, whatever the network and the issuers do.
THEOREM TypeCorrect == OpenSpec => []TypeOK
  <1>1. Init => TypeOK
    BY IdleType, ResourceAssumption, EventAssumption
       DEF Init, TypeOK, CallsTyped, Point
  <1>2. QED
    BY <1>1, TypeStep, PTL DEF OpenSpec

-----------------------------------------------------------------------------
(* The locks: inProgress and the events of the emitter.                     *)

\* Only fetchTicket reaches its own points.
Ticketing == {"lookup", "waitEvent", "woken", "probe", "await"}
OnlyTickets == \A t \in Call : pc[t] \in Ticketing => frame[t].kind = "ticket"

LockInv ==
  /\ TypeOK
  /\ OnlyTickets
  /\ ExclusiveRegistration
  /\ ExclusivePat
  /\ NoLostWakeup

\* What all but a few steps do to a call u: it is left alone, or it moves to a
\* point where it waits for nothing, without getting hold of a resource.
Waiting == {"waitRes", "deferred", "waitEvent", "waitPat"}

Quiet(u) ==
  \/ /\ pc'[u] = pc[u]
     /\ frame'[u].kind = frame[u].kind
     /\ frame'[u].res = frame[u].res
  \/ /\ pc'[u] \notin Waiting \cup AskingPat
     /\ frame'[u].kind = "register" /\ pc'[u] \in Working
          => Holds(u, frame'[u].res)
     /\ pc'[u] \in Ticketing => frame'[u].kind = "ticket"

\* Such a step keeps the locks as long as it releases none.
LEMMA QuietStep ==
  ASSUME LockInv, TypeOK', inProgress \subseteq inProgress',
         \A u \in Call : Quiet(u)
  PROVE  LockInv'
  <1>1. OnlyTickets'
    BY DEF LockInv, OnlyTickets, Quiet
  <1>2. \A u \in Call, r \in Resource : Holds(u, r)' => Holds(u, r)
    BY DEF Quiet, Holds
  <1>3. ExclusiveRegistration'
    BY <1>2 DEF LockInv, ExclusiveRegistration
  <1>4. ASSUME NEW u \in Call, pc'[u] \in AskingPat \cup Waiting
        PROVE  pc'[u] = pc[u] /\ frame'[u].res = frame[u].res
    BY <1>4 DEF Quiet
  <1>5. ExclusivePat'
    BY <1>4 DEF LockInv, ExclusivePat, AskingPat
  <1>6. NoLostWakeup'
    BY <1>4 DEF LockInv, NoLostWakeup, Waiting
  <1>7. QED
    BY <1>1, <1>3, <1>5, <1>6 DEF LockInv

LEMMA LeaveQuiet ==
  ASSUME CallsTyped, NEW t \in Call, NEW b, Leave(t, b), NEW u \in Call
  PROVE  Quiet(u)
  <1>1. CASE u = t
    BY <1>1 DEF Leave, CallsTyped, Quiet, Waiting, AskingPat, Ticketing, Working
  <1>2. CASE u # t
    <2>1. pc'[u] = pc[u] /\ frame[u] \in Frame
      BY <1>2 DEF Leave, CallsTyped
    <2>2. frame'[u].kind = frame[u].kind /\ frame'[u].res = frame[u].res
      BY <1>2, <2>1, FrameKeeps DEF Leave
    <2>3. QED
      BY <2>1, <2>2 DEF Quiet
  <1>3. QED
    BY <1>1, <1>2

\* A call t moves on by itself.
LEMMA MoveQuiet ==
  ASSUME CallsTyped, NEW t \in Call, NEW point,
         pc' = [pc EXCEPT ![t] = point],
         \A v \in Call : /\ frame'[v].kind = frame[v].kind
                         /\ frame'[v].res = frame[v].res,
         point \notin Waiting \cup AskingPat,
         \/ frame[t].kind # "register"
         \/ point \in Working => pc[t] \in Working,
         point \in Ticketing => frame[t].kind = "ticket",
         NEW u \in Call
  PROVE  Quiet(u)
  BY DEF CallsTyped, Quiet, Holds

\* The calls the rest of the server makes.
LEMMA NewCallQuiet ==
  ASSUME CallsTyped, NEW point, NEW f, NewCall(point, f),
         point \notin Waiting \cup AskingPat \cup Ticketing,
         f.kind = "register" => point \notin Working,
         NEW u \in Call
  PROVE  Quiet(u)
  <1>1. Pick(Free) \in Call
    BY PickInSet DEF NewCall, Free
  <1>2. QED
    BY <1>1 DEF NewCall, CallsTyped, Quiet

\* A resource is registered by one call at a time and a PAT requested by one,
\* and no call waits for an event that was already emitted: the three are
\* inductive together, since a call that releases a mark is the only one
\* behind it and wakes all who wait for it.
LEMMA LockStep == LockInv /\ TypeOK' /\ [OpenNext]_vars => LockInv'
  <1> SUFFICES ASSUME LockInv, TypeOK', [OpenNext]_vars PROVE LockInv'
    OBVIOUS
  <1> USE DEF clientVars, callVars, serverVars, asVars
  <1>0. /\ CallsTyped
        /\ \A t \in Call : frame[t] \in Frame /\ frame[t].res \in Resource
    BY FrameFields DEF LockInv, TypeOK, CallsTyped
  <1>a. ASSUME NEW t \in Call, NEW b, Leave(t, b), UNCHANGED inProgress
        PROVE  LockInv'
    BY <1>0, <1>a, LeaveQuiet, QuietStep
  <1>b. ASSUME NEW t \in Call, NEW point,
               inProgress \subseteq inProgress',
               pc' = [pc EXCEPT ![t] = point],
               \/ UNCHANGED frame
               \/ \E b : \/ frame' = [frame EXCEPT ![t].known = b]
                        \/ frame' = [frame EXCEPT ![t].linked = b]
                        \/ frame' = [frame EXCEPT ![t].ok = b]
                        \/ frame' = [frame EXCEPT ![t].pat = b],
               point \notin Waiting \cup AskingPat,
               \/ frame[t].kind # "register"
               \/ point \in Working => pc[t] \in Working,
               point \in Ticketing => frame[t].kind = "ticket"
        PROVE  LockInv'
    <2>1. \A u \in Call : /\ frame'[u].kind = frame[u].kind
                          /\ frame'[u].res = frame[u].res
      BY <1>0, <1>b, FieldSet
    <2>2. \A u \in Call : Quiet(u)
      BY <1>0, <1>b, <2>1, MoveQuiet
    <2>3. QED
      BY <1>b, <2>2, QuietStep
  <1>1. ASSUME NEW t \in Call, ConfigFails(t) PROVE LockInv'
    BY <1>1, <1>a DEF ConfigFails
  <1>2. ASSUME NEW t \in Call, ConfigRead(t) PROVE LockInv'
    <2>1. CASE frame[t].kind = "register"
      BY <1>2, <1>b, <2>1 DEF ConfigRead, Goto, Waiting, AskingPat, Working, Ticketing
    <2>2. CASE frame[t].kind = "ticket"
      BY <1>2, <1>b, <2>2 DEF ConfigRead, Goto, Waiting, AskingPat, Working, Ticketing
    <2>3. CASE frame[t].kind = "delete"
      BY <1>2, <1>a, <1>b, <2>3 DEF ConfigRead, Goto, Waiting, AskingPat, Working, Ticketing
    <2>4. QED
      BY <1>2, <2>1, <2>2, <2>3 DEF ConfigRead
  <1>3. ASSUME NEW t \in Call, GetPat(t) PROVE LockInv'
    <2>0. pc[t] = "pat"
      BY <1>3 DEF GetPat
    <2>1. CASE Goto(t, "send") /\ frame' = [frame EXCEPT ![t].pat = patStorage[frame[t].acct]]
      <3>1. inProgress \subseteq inProgress'
        BY <1>3 DEF GetPat, Claim
      <3>2. QED
        BY <1>b, <2>0, <2>1, <3>1 DEF Goto, Waiting, AskingPat, Working, Ticketing
    <2>2. CASE PatUnderway /\ Goto(t, "waitPat") /\ UNCHANGED <<frame, inProgress>>
      <3>1. /\ \A u \in Call : pc'[u] = IF u = t THEN "waitPat" ELSE pc[u]
            /\ PatEvent \in inProgress
        BY <1>0, <2>2 DEF Goto, CallsTyped, PatUnderway
      <3>2. \A u \in Call, r \in Resource : Holds(u, r)' => Holds(u, r)
        BY <2>0, <2>2, <3>1 DEF Holds, Working
      <3>3. QED
        BY <2>0, <2>2, <3>1, <3>2
           DEF LockInv, OnlyTickets, Ticketing, ExclusiveRegistration,
               ExclusivePat, NoLostWakeup, AskingPat
    <2>3. CASE ~PatUnderway /\ Claim(PatEvent) /\ Goto(t, "patConfig") /\ UNCHANGED frame
      <3>1. /\ \A u \in Call : pc'[u] = IF u = t THEN "patConfig" ELSE pc[u]
            /\ PatEvent \notin inProgress
            /\ inProgress' = inProgress \cup {PatEvent}
        BY <1>0, <2>3 DEF Goto, CallsTyped, PatUnderway, Claim
      <3>2. \A u \in Call, r \in Resource : Holds(u, r)' => Holds(u, r)
        BY <2>0, <2>3, <3>1 DEF Holds, Working
      <3>3. QED
        BY <2>0, <2>3, <3>1, <3>2
           DEF LockInv, OnlyTickets, Ticketing, ExclusiveRegistration,
               ExclusivePat, NoLostWakeup, AskingPat
    <2>4. QED
      BY <1>3, <2>1, <2>2, <2>3 DEF GetPat
  <1>4. ASSUME NEW t \in Call, PatConfigFails(t) \/ PatRefused(t) PROVE LockInv'
    BY <1>4, <1>a DEF PatConfigFails, PatRefused
  <1>5. ASSUME NEW t \in Call,
               pc[t] \in AskingPat, Goto(t, "patSent") \/ Goto(t, "patAnswered"),
               \/ UNCHANGED frame
               \/ \E n : frame' = [frame EXCEPT ![t].pat = n],
               UNCHANGED inProgress
        PROVE  LockInv'
    <2>1. /\ pc'[t] \in AskingPat
          /\ \A u \in Call \ {t} : pc'[u] = pc[u]
      BY <1>0, <1>5 DEF Goto, CallsTyped, AskingPat
    <2>2. \A u \in Call : /\ frame'[u].kind = frame[u].kind
                          /\ frame'[u].res = frame[u].res
      BY <1>0, <1>5, FieldSet
    <2>3. \A u \in Call, r \in Resource : Holds(u, r)' => Holds(u, r)
      BY <1>5, <2>1, <2>2 DEF Holds, Working, AskingPat
    <2>4. QED
      BY <1>5, <2>1, <2>2, <2>3
         DEF LockInv, OnlyTickets, Ticketing, ExclusiveRegistration,
             ExclusivePat, NoLostWakeup, AskingPat
  <1>d. ASSUME NEW t \in Call, PatConfigRead(t) PROVE LockInv'
    BY <1>5, <1>d DEF PatConfigRead, AskingPat
  <1>6. ASSUME NEW t \in Call, PatReceived(t) PROVE LockInv'
    <2>1. /\ pc[t] = "patAnswered" /\ UNCHANGED frame
          /\ inProgress' = inProgress \ {PatEvent}
          /\ \A u \in Call : pc'[u] = IF u = t THEN "send"
                                      ELSE IF pc[u] = "waitPat" THEN "pat" ELSE pc[u]
      BY <1>6 DEF PatReceived, EmitPat
    <2>2. \A u \in Call, r \in Resource : Holds(u, r)' => Holds(u, r)
      BY <2>1 DEF Holds, Working
    <2>3. \A u \in Call : pc'[u] \notin AskingPat \cup {"waitPat"}
      BY <2>1 DEF LockInv, ExclusivePat, AskingPat
    <2>4. OnlyTickets' /\ ExclusivePat'
      BY <2>1, <2>3 DEF LockInv, OnlyTickets, Ticketing, ExclusivePat
    <2>5. ExclusiveRegistration'
      BY <2>1, <2>2, ResourceAssumption DEF LockInv, ExclusiveRegistration
    <2>6. NoLostWakeup'
      <3>1. \A r \in Resource : r \in inProgress => r \in inProgress'
        BY <2>1, ResourceAssumption
      <3>2. ASSUME NEW u \in Call, frame[u].res # Root PROVE Parent[frame[u].res] \in Resource
        BY <1>0, <3>2, ResourceAssumption
      <3>3. QED
        BY <1>0, <2>1, <2>3, <3>1, <3>2 DEF LockInv, NoLostWakeup
    <2>7. QED
      BY <2>4, <2>5, <2>6 DEF LockInv
  <1>7. ASSUME NEW t \in Call, Begin(t) PROVE LockInv'
    <2> DEFINE r == frame[t].res
    <2>1. /\ pc[t] = "start" /\ UNCHANGED frame
          /\ inProgress' = inProgress \cup {r}
          /\ \A u \in Call : pc'[u] = IF u # t THEN pc[u]
               ELSE IF r \in inProgress THEN "waitRes" ELSE "config"
      BY <1>0, <1>7 DEF Begin, Enter, Claim, Goto, CallsTyped
    <2>2. \A u \in Call, x \in Resource :
             Holds(u, x)' => Holds(u, x) \/ (u = t /\ x = r /\ r \notin inProgress)
      BY <2>1 DEF Holds, Working
    <2>3. ExclusiveRegistration'
      BY <2>1, <2>2 DEF LockInv, ExclusiveRegistration
    <2>4. QED
      BY <2>1, <2>3
         DEF LockInv, OnlyTickets, Ticketing, ExclusivePat, AskingPat, NoLostWakeup
  <1>8. ASSUME NEW t \in Call, SendRegistration(t) PROVE LockInv'
    <2> DEFINE r == frame[t].res
               a == frame[t].acct
               again == Pick(Free)
               above == Pick(Free \ {again})
               linked == r # Root /\ ~Orphan(r)
               sent == [frame EXCEPT ![t] = [frame[t] EXCEPT !.linked = linked]]
    <2>0. /\ pc[t] = "send" /\ frame[t].kind = "register"
      BY <1>8 DEF SendRegistration
    <2>1. /\ sent \in [Call -> Frame]
          /\ \A u \in Call : sent[u].kind = frame[u].kind /\ sent[u].res = frame[u].res
      <3>1. /\ frame[t] \in Frame
            /\ SameWork(frame[t], [frame[t] EXCEPT !.linked = linked])
        BY <1>0, FrameUpdate
      <3>2. QED
        BY <1>0, <3>1, FrameKeeps DEF CallsTyped, SameWork
    <2>2. CASE ~Orphan(r)
      <3>1. Goto(t, "sent") /\ frame' = sent /\ UNCHANGED inProgress
        BY <1>8, <2>2 DEF SendRegistration
      <3>2. \A u \in Call : Quiet(u)
        BY <1>0, <2>0, <2>1, <3>1
           DEF Goto, CallsTyped, Quiet, Waiting, AskingPat, Working, Ticketing, Holds
      <3>3. QED
        BY <3>1, <3>2, QuietStep
    <2>3. CASE Orphan(r) /\ Parent[r] \in inProgress
      <3>1. /\ pc' = [pc EXCEPT ![t] = "sent", ![again] = "deferred"]
            /\ frame' = [sent EXCEPT ![again] = Registering(r, a, t)]
            /\ UNCHANGED inProgress
            /\ again \in Call /\ pc[again] = "free"
        BY <1>8, <2>3, PickInSet DEF SendRegistration, Free
      <3>2. /\ frame'[again].kind = "register" /\ frame'[again].res = r
            /\ \A u \in Call \ {again} : /\ frame'[u].kind = frame[u].kind
                                          /\ frame'[u].res = frame[u].res
        BY <2>1, <3>1 DEF Registering, Idle
      <3>3. /\ pc'[t] = "sent" /\ pc'[again] = "deferred" /\ again # t
            /\ \A u \in Call \ {t, again} : pc'[u] = pc[u]
        BY <1>0, <2>0, <3>1 DEF CallsTyped
      <3>4. \A u \in Call, x \in Resource : Holds(u, x)' => Holds(u, x)
        BY <2>0, <3>2, <3>3 DEF Holds, Working
      <3>5. r # Root
        BY <2>3 DEF Orphan
      <3>6. ExclusiveRegistration'
        BY <3>1, <3>4 DEF LockInv, ExclusiveRegistration
      <3> HIDE DEF again, sent
      <3>a. again \in Call /\ UNCHANGED inProgress
        BY <3>1
      <3>7. OnlyTickets' /\ ExclusivePat'
        BY <3>a, <3>2, <3>3 DEF LockInv, OnlyTickets, Ticketing, ExclusivePat, AskingPat
      <3>8. NoLostWakeup'
        BY <2>3, <3>a, <3>2, <3>3, <3>5 DEF LockInv, NoLostWakeup
      <3>9. QED
        BY <3>6, <3>7, <3>8 DEF LockInv
    <2>4. CASE Orphan(r) /\ Parent[r] \notin inProgress
      <3>1. /\ pc' = [pc EXCEPT ![t] = "sent", ![again] = "deferred",
                                ![above] = "config"]
            /\ frame' = [sent EXCEPT ![again] = Registering(r, a, t),
                                     ![above] = Registering(Parent[r], a, t)]
            /\ inProgress' = inProgress \cup {Parent[r]}
            /\ again \in Call /\ pc[again] = "free"
            /\ above \in Call /\ pc[above] = "free" /\ above # again
        BY <1>8, <2>4, PickInSet DEF SendRegistration, Free, Claim
      <3>2. /\ frame'[again].kind = "register" /\ frame'[again].res = r
            /\ frame'[above].kind = "register" /\ frame'[above].res = Parent[r]
            /\ \A u \in Call \ {again, above} : /\ frame'[u].kind = frame[u].kind
                                                 /\ frame'[u].res = frame[u].res
        BY <2>1, <3>1 DEF Registering, Idle
      <3>3. /\ pc'[t] = "sent" /\ again # t /\ above # t
            /\ pc'[again] = "deferred" /\ pc'[above] = "config"
            /\ \A u \in Call \ {t, again, above} : pc'[u] = pc[u]
        BY <1>0, <2>0, <3>1 DEF CallsTyped
      <3>4. \A u \in Call, x \in Resource :
               Holds(u, x)' => Holds(u, x) \/ (u = above /\ x = Parent[r])
        BY <2>0, <3>2, <3>3 DEF Holds, Working
      <3>5. r # Root
        BY <2>4 DEF Orphan
      <3>6. ExclusiveRegistration'
        BY <2>4, <3>1, <3>4 DEF LockInv, ExclusiveRegistration
      <3> HIDE DEF again, above, sent
      <3>a. /\ again \in Call /\ above \in Call
            /\ inProgress' = inProgress \cup {Parent[r]}
        BY <3>1
      <3>7. OnlyTickets' /\ ExclusivePat'
        BY <3>a, <3>2, <3>3 DEF LockInv, OnlyTickets, Ticketing, ExclusivePat, AskingPat
      <3>8. NoLostWakeup'
        BY <2>4, <3>a, <3>2, <3>3, <3>5 DEF LockInv, NoLostWakeup
      <3>9. QED
        BY <3>6, <3>7, <3>8 DEF LockInv
    <2>5. QED
      BY <2>2, <2>3, <2>4
  <1>9. ASSUME NEW t \in Call, HandleRegistration(t) PROVE LockInv'
    BY <1>9, <1>b DEF HandleRegistration, Goto, Waiting, AskingPat, Working, Ticketing
  <1>10. ASSUME NEW t \in Call, RegistrationAnswered(t) PROVE LockInv'
    <2> DEFINE r == frame[t].res
    <2>1. CASE Leave(t, TRUE) /\ UNCHANGED inProgress
      BY <1>a, <2>1
    <2>2. CASE /\ inProgress' = inProgress \ {r}
               /\ pc' = [Emit(r) EXCEPT ![t] = "join"]
               /\ UNCHANGED frame
      <3>1. /\ Holds(t, r) /\ pc[t] = "answered"
        BY <1>10 DEF RegistrationAnswered, Holds, Working
      <3>2. \A u \in Call : pc'[u] = IF u = t THEN "join" ELSE Emit(r)[u]
        BY <2>2 DEF Emit
      <3>3. \A u \in Call \ {t} : \/ pc'[u] = pc[u]
                                  \/ pc'[u] \in {"start", "woken"} /\ pc[u] \in Waiting
        BY <3>2 DEF Emit, Waiting
      <3>4. \A u \in Call, x \in Resource : Holds(u, x)' => Holds(u, x) /\ u # t
        BY <2>2, <3>2, <3>3 DEF Holds, Working
      <3>5. ExclusiveRegistration'
        BY <1>0, <2>2, <3>1, <3>4 DEF LockInv, ExclusiveRegistration
      <3>6. OnlyTickets'
        BY <2>2, <3>2 DEF Emit, LockInv, OnlyTickets, Ticketing
      <3>7. ExclusivePat'
        BY <1>0, <2>2, <3>1, <3>2, <3>3, ResourceAssumption
           DEF LockInv, ExclusivePat, AskingPat
      <3>8. NoLostWakeup'
        <4>1. ASSUME NEW u \in Call, pc'[u] \in Waiting
              PROVE  u # t /\ pc'[u] = pc[u]
          BY <3>2, <3>3, <4>1 DEF Waiting
        <4>2. ASSUME NEW u \in Call, pc'[u] \in {"waitRes", "waitEvent"}
              PROVE  frame[u].res # r
          BY <3>2, <4>1, <4>2 DEF Emit, Waiting
        <4>3. ASSUME NEW u \in Call, pc'[u] = "deferred"
              PROVE  Parent[frame[u].res] # r
          BY <3>2, <4>1, <4>3 DEF Emit, Waiting
        <4>4. QED
          BY <1>0, <2>2, <4>1, <4>2, <4>3, ResourceAssumption
             DEF LockInv, NoLostWakeup, Waiting
      <3>9. QED
        BY <3>5, <3>6, <3>7, <3>8 DEF LockInv
    <2>3. QED
      BY <1>10, <2>1, <2>2 DEF RegistrationAnswered
  <1>11. ASSUME NEW t \in Call, Join(t) PROVE LockInv'
    BY <1>11, <1>a DEF Join
  <1>12. ASSUME NEW t \in Call, RejectEarly(t) PROVE LockInv'
    <2> DEFINE v == frame[t].for
    <2>1. v \in Call
      BY <1>0, <1>12, FrameFields DEF RejectEarly
    <2>2. \A u \in Call : /\ frame'[u].kind = frame[u].kind
                          /\ frame'[u].res = frame[u].res
      <3> DEFINE half == [frame EXCEPT ![t] = [frame[t] EXCEPT !.for = NoCall]]
      <3>1. frame' = [half EXCEPT ![v] = [half[v] EXCEPT !.bad = TRUE]]
        BY <1>12 DEF RejectEarly
      <3>2. /\ frame[t] \in Frame
            /\ SameWork(frame[t], [frame[t] EXCEPT !.for = NoCall])
        BY <1>0, FrameUpdate
      <3>3. half \in [Call -> Frame]
        BY <1>0, <3>2 DEF CallsTyped, SameWork
      <3>4. \A u \in Call : half[u].kind = frame[u].kind /\ half[u].res = frame[u].res
        BY <1>0, <3>2, FrameKeeps DEF CallsTyped
      <3>5. /\ [half[v] EXCEPT !.bad = TRUE].kind = half[v].kind
            /\ [half[v] EXCEPT !.bad = TRUE].res = half[v].res
        BY <2>1, <3>3, FrameKeeps
      <3>6. QED
        BY <2>1, <3>1, <3>3, <3>4, <3>5
    <2>3. \A u \in Call : Quiet(u)
      BY <1>12, <2>2 DEF RejectEarly, Quiet
    <2>4. QED
      BY <1>12, <2>3, QuietStep DEF RejectEarly
  <1>c. ASSUME NEW t \in Call, pc[t] \in Ticketing,
               NEW r \in Resource, Found(t, r),
               Goto(t, "lookup") \/ UNCHANGED pc,
               UNCHANGED inProgress,
               pc[t] \notin Waiting
        PROVE  LockInv'
    <2>1. /\ frame[t].kind = "ticket"
          /\ frame'[t].kind = "ticket"
          /\ \A u \in Call \ {t} : frame'[u] = frame[u]
      BY <1>0, <1>c DEF LockInv, OnlyTickets, Found, Frame, CallsTyped
    <2>2. /\ pc'[t] \in Ticketing \ (Waiting \cup AskingPat)
          /\ \A u \in Call \ {t} : pc'[u] = pc[u]
      BY <1>0, <1>c DEF Goto, CallsTyped, Ticketing, Waiting, AskingPat
    <2>3. \A u \in Call : Quiet(u)
      BY <2>1, <2>2 DEF Quiet
    <2>4. QED
      BY <1>c, <2>3, QuietStep
  <1>13. ASSUME NEW t \in Call, Lookup(t) PROVE LockInv'
    <2>0. pc[t] = "lookup" /\ frame[t].kind = "ticket"
      BY <1>13 DEF Lookup, LockInv, OnlyTickets, Ticketing
    <2>1. CASE Goto(t, "pat") /\ UNCHANGED frame
      BY <1>13, <1>b, <2>0, <2>1 DEF Lookup, Goto, Waiting, AskingPat, Ticketing
    <2>2. CASE \E r \in frame[t].todo : Found(t, r) /\ UNCHANGED pc
      <3>1. PICK r \in frame[t].todo : Found(t, r) /\ UNCHANGED pc
        BY <2>2
      <3>2. r \in Resource
        BY <1>0, FrameFields
      <3>3. QED
        BY <1>13, <1>c, <2>0, <3>1, <3>2 DEF Lookup, Waiting, Ticketing
    <2>3. CASE \E r \in frame[t].todo :
                 /\ frame' = [frame EXCEPT ![t].res = r]
                 /\ Goto(t, IF r \in inProgress THEN "waitEvent" ELSE "probe")
      <3>1. PICK r \in frame[t].todo :
                 /\ frame' = [frame EXCEPT ![t].res = r]
                 /\ Goto(t, IF r \in inProgress THEN "waitEvent" ELSE "probe")
        BY <2>3
      <3>2. frame'[t].res = r /\ frame'[t].kind = "ticket"
        BY <1>0, <2>0, <3>1 DEF CallsTyped, Frame
      <3>3. \A u \in Call \ {t} : frame'[u] = frame[u] /\ pc'[u] = pc[u]
        BY <1>0, <3>1 DEF CallsTyped, Goto
      <3>4. pc'[t] = IF r \in inProgress THEN "waitEvent" ELSE "probe"
        BY <1>0, <3>1 DEF CallsTyped, Goto
      <3>5. UNCHANGED inProgress
        BY <1>13 DEF Lookup
      <3>6. \A u \in Call, x \in Resource : Holds(u, x)' => Holds(u, x)
        BY <3>2, <3>3 DEF Holds
      <3>7. QED
        BY <3>2, <3>3, <3>4, <3>5, <3>6
           DEF LockInv, OnlyTickets, Ticketing, ExclusiveRegistration,
               ExclusivePat, AskingPat, NoLostWakeup
    <2>4. QED
      BY <1>13, <2>1, <2>2, <2>3 DEF Lookup
  <1>14. ASSUME NEW t \in Call, Timeout(t) PROVE LockInv'
    BY <1>14, <1>a DEF Timeout
  <1>15. ASSUME NEW t \in Call, Woken(t) PROVE LockInv'
    <2>1. CASE Found(t, frame[t].res) /\ Goto(t, "lookup")
      BY <1>0, <1>15, <1>c, <2>1 DEF Woken, Waiting, Ticketing
    <2>2. CASE Goto(t, "probe") /\ UNCHANGED frame
      BY <1>15, <1>b, <2>2
         DEF Woken, Goto, Waiting, AskingPat, Working, Ticketing, LockInv, OnlyTickets
    <2>3. QED
      BY <1>15, <2>1, <2>2 DEF Woken
  <1>16. ASSUME NEW t \in Call, Probe(t) PROVE LockInv'
    <2> DEFINE r == frame[t].res
               new == Pick(Free)
    <2>1. CASE Leave(t, TRUE) /\ UNCHANGED inProgress
      BY <1>a, <2>1
    <2>2. CASE /\ Free # {}
               /\ pc' = [pc EXCEPT ![t] = "await", ![new] = Enter(r)]
               /\ frame' = [frame EXCEPT ![new] = Registering(r, frame[t].acct, t)]
               /\ Claim(r)
      <3>1. /\ new \in Call /\ pc[new] = "free" /\ pc[t] = "probe"
            /\ frame[t].kind = "ticket"
        BY <1>16, <2>2, PickInSet DEF Probe, Free, LockInv, OnlyTickets, Ticketing
      <3>2. /\ pc'[t] = "await"
            /\ pc'[new] = IF r \in inProgress THEN "waitRes" ELSE "config"
            /\ \A u \in Call \ {t, new} : pc'[u] = pc[u]
        BY <1>0, <2>2, <3>1 DEF Enter, CallsTyped
      <3>3. /\ frame'[new].res = r /\ frame'[new].kind = "register"
            /\ \A u \in Call \ {new} : frame'[u] = frame[u]
        BY <1>0, <2>2, <3>1 DEF CallsTyped, Registering, Idle
      <3>4. inProgress' = inProgress \cup {r}
        BY <2>2 DEF Claim
      <3>5. \A u \in Call, x \in Resource :
               Holds(u, x)' => Holds(u, x) \/ (u = new /\ x = r /\ r \notin inProgress)
        BY <3>1, <3>2, <3>3 DEF Holds, Working
      <3>6. ExclusiveRegistration'
        BY <3>1, <3>4, <3>5 DEF LockInv, ExclusiveRegistration
      <3>7. OnlyTickets' /\ ExclusivePat'
        BY <3>1, <3>2, <3>3, <3>4 DEF LockInv, OnlyTickets, Ticketing, ExclusivePat, AskingPat
      <3>8. NoLostWakeup'
        BY <3>1, <3>2, <3>3, <3>4 DEF LockInv, NoLostWakeup
      <3>9. QED
        BY <3>6, <3>7, <3>8 DEF LockInv
    <2>3. QED
      BY <1>16, <2>1, <2>2 DEF Probe
  <1>17. ASSUME NEW t \in Call, Registered(t) PROVE LockInv'
    <2>1. CASE Found(t, frame[t].res) /\ Goto(t, "lookup")
      BY <1>0, <1>17, <1>c, <2>1 DEF Registered, Waiting, Ticketing
    <2>2. CASE Leave(t, TRUE)
      BY <1>a, <1>17, <2>2 DEF Registered
    <2>3. QED
      BY <1>17, <2>1, <2>2 DEF Registered
  <1>18. ASSUME NEW t \in Call, Send(t) PROVE LockInv'
    BY <1>18, <1>b DEF Send, Goto, Waiting, AskingPat, Working, Ticketing
  <1>19. ASSUME NEW t \in Call, HandleTicket(t) PROVE LockInv'
    BY <1>19, <1>b DEF HandleTicket, Goto, Waiting, AskingPat, Working, Ticketing
  <1>20. ASSUME NEW t \in Call, HandleDelete(t) PROVE LockInv'
    BY <1>20, <1>b DEF HandleDelete, Goto, Waiting, AskingPat, Working, Ticketing
  <1>21. ASSUME NEW t \in Call, Answered(t) PROVE LockInv'
    BY <1>21, <1>a DEF Answered
  <1>22. ASSUME NEW t \in Call, Retry(t) PROVE LockInv'
    <2>1. CASE pc[t] = "answered" /\ Goto(t, "sent")
      BY <1>22, <1>b, <2>1 DEF Retry, Goto, Waiting, AskingPat, Working, Ticketing
    <2>2. CASE pc[t] = "patAnswered" /\ Goto(t, "patSent")
      BY <1>22, <1>5, <2>2 DEF Retry, AskingPat
    <2>3. QED
      BY <1>22, <2>1, <2>2 DEF Retry
  <1>23. ASSUME NEW a \in Account, PatExpires(a) \/ CacheExpires(a) PROVE LockInv'
    <2>1. \A u \in Call : Quiet(u)
      BY <1>23 DEF PatExpires, CacheExpires, Quiet
    <2>2. QED
      BY <1>23, <2>1, QuietStep DEF PatExpires, CacheExpires
  <1>26. ASSUME NEW r \in Resource \ {Root}, NEW a \in Account,
                Create(r, a) \/ Delete(r, a) \/ Reregister(r, a) \/ Unregister(r, a)
         PROVE  LockInv'
    <2>1. CASE Create(r, a) \/ Reregister(r, a)
      <3>1. NewCall("start", Registering(r, a, NoCall))
        BY <2>1 DEF Create, Reregister
      <3>2. QED
        BY <1>0, <3>1, NewCallQuiet, QuietStep
           DEF NewCall, Waiting, AskingPat, Working, Ticketing
    <2>2. CASE Delete(r, a) \/ Unregister(r, a)
      <3>1. NewCall("config", Deleting(r, a))
        BY <2>2 DEF Delete, Unregister
      <3>2. Deleting(r, a).kind # "register"
        BY DEF Deleting, Idle
      <3>3. QED
        BY <1>0, <3>1, <3>2, NewCallQuiet, QuietStep
           DEF NewCall, Waiting, AskingPat, Working, Ticketing
    <2>3. QED
      BY <1>26, <2>1, <2>2
  <1>27. ASSUME NEW T \in Targets, NEW a \in Account, Access(T, a) PROVE LockInv'
    <2> DEFINE f == [Idle EXCEPT !.kind = "ticket", !.todo = T, !.acct = a]
    <2>1. NewCall("config", f)
      BY <1>27 DEF Access
    <2>2. f.kind # "register"
      BY DEF Idle
    <2>3. QED
      BY <1>0, <2>1, <2>2, NewCallQuiet, QuietStep
         DEF NewCall, Waiting, AskingPat, Working, Ticketing
  <1>28. CASE UNCHANGED vars
    <2>1. \A u \in Call : Quiet(u)
      BY <1>28 DEF vars, Quiet
    <2>2. QED
      BY <1>28, <2>1, QuietStep DEF vars
  <1>31. ASSUME NEW r \in Resource \ {Root}, Unseen(r) PROVE LockInv'
    <2>1. \A u \in Call : Quiet(u)
      BY <1>31 DEF Unseen, Quiet
    <2>2. QED
      BY <1>31, <2>1, QuietStep DEF Unseen
  <1>29. ASSUME NEW t \in Call, PatIssued(t) PROVE LockInv'
    BY <1>5, <1>29 DEF PatIssued, AskingPat
  <1>30. ASSUME NEW t \in Call, PatStep(t) PROVE LockInv'
    BY <1>30, <1>3, <1>4, <1>d, <1>6, <1>29 DEF PatStep
  <1>32. QED
    BY <1>1, <1>2, <1>30, <1>7, <1>8, <1>9, <1>10, <1>11, <1>12, <1>13, <1>14,
       <1>15, <1>16, <1>17, <1>18, <1>19, <1>20, <1>21, <1>22, <1>23, <1>26,
       <1>27, <1>28, <1>31
    DEF OpenNext, Step, RegisterStep, TicketStep, RequestStep, Environment

LEMMA InitLocks == Init => LockInv
  BY IdleType, ResourceAssumption, EventAssumption
     DEF Init, LockInv, TypeOK, CallsTyped, Point, OnlyTickets, Ticketing,
         ExclusiveRegistration, Holds, Working, ExclusivePat, AskingPat, NoLostWakeup

LEMMA LocksHold == OpenSpec => []LockInv
  BY InitLocks, LockStep, TypeCorrect, PTL DEF OpenSpec

\* One resource is never registered by two calls at a time (inProgress).
THEOREM RegistrationIsExclusive == OpenSpec => []ExclusiveRegistration
  BY LocksHold, PTL DEF LockInv

\* One PAT request at most is under way at a time (inProgress, PAT_EVENT).
THEOREM PatRequestIsExclusive == OpenSpec => []ExclusivePat
  BY LocksHold, PTL DEF LockInv

\* No call listens for an event of the emitter that has already happened.
THEOREM NoWakeupIsLost == OpenSpec => []NoLostWakeup
  BY LocksHold, PTL DEF LockInv

-----------------------------------------------------------------------------
(* What a step does to each call and to each store, once and for all.       *)

\* The frames f and g agree but for who awaits the call and for rejections.
SameJob(f, g) ==
  /\ g.kind = f.kind /\ g.res = f.res /\ g.acct = f.acct
  /\ g.todo = f.todo /\ g.body = f.body
  /\ g.known = f.known /\ g.linked = f.linked
  /\ g.pat = f.pat /\ g.ok = f.ok

\* u is left alone.
Stays(u) == pc'[u] = pc[u] /\ SameJob(frame[u], frame'[u])

\* The points at which a call may end, and why.
MayEnd(u) ==
  LET f == frame[u] IN
  /\ pc[u] # "free"
  /\ pc[u] = "patConfig" => MayFail(u)
  /\ pc[u] = "patSent" => f.acct \in BadAccount
  /\ f.kind = "register" =>
       \/ pc[u] = "config" /\ MayFail(u)
       \/ pc[u] \in {"patConfig", "patSent"}
       \/ pc[u] = "answered" /\ ~f.ok
       \/ pc[u] = "join"
  /\ f.kind = "delete" =>
       \/ pc[u] = "config" /\ MayFail(u)
       \/ pc[u] = "config" /\ f.res \notin umaIdStore
       \/ pc[u] \in {"patConfig", "patSent", "answered", "join"}

\* u ends, and may.
Ends(u) == pc'[u] = "free" /\ frame'[u] = Idle /\ MayEnd(u)

\* The points a call goes to, and those an event or a retry takes it back to.
Edge(u) ==
  \/ pc[u] = "start" /\ pc'[u] \in {"waitRes", "config"}
  \/ pc[u] \in {"waitRes", "deferred"} /\ pc'[u] = "start"
  \/ pc[u] = "config" /\ pc'[u] \in {"pat", "lookup"}
  \/ pc[u] = "pat" /\ pc'[u] \in {"send", "waitPat", "patConfig"}
  \/ pc[u] = "waitPat" /\ pc'[u] = "pat"
  \/ pc[u] = "patConfig" /\ pc'[u] = "patSent"
  \/ pc[u] = "patSent" /\ pc'[u] = "patAnswered"
  \/ pc[u] = "patAnswered" /\ pc'[u] \in {"send", "patSent"}
  \/ pc[u] = "send" /\ pc'[u] = "sent"
  \/ pc[u] = "sent" /\ pc'[u] = "answered"
  \/ pc[u] = "answered" /\ pc'[u] \in {"join", "sent"}
  \/ pc[u] \in Ticketing /\ pc'[u] \in Ticketing \cup {"pat"}

\* The points of fetchTicket at which it looks for the identifier of res.
Looking == {"waitEvent", "woken", "probe", "await"}

\* What it may look for.
Sought(u) == frame[u].todo \cup (IF pc[u] \in Looking THEN {frame[u].res} ELSE {})

\* The variables of a call that are assigned on the way, and nowhere else.
Assigned(u) ==
  LET f == frame[u]
      g == frame'[u] IN
  /\ g.kind = f.kind /\ g.acct = f.acct
  /\ f.kind # "ticket" => g.res = f.res
  /\ g.known = f.known \/ (pc[u] = "config" /\ pc'[u] = "pat")
  /\ g.linked = f.linked \/ (f.kind = "register" /\ pc[u] = "send" /\ pc'[u] = "sent")
  /\ g.pat = f.pat \/ (pc[u] = "pat" /\ pc'[u] = "send")
                   \/ (pc[u] = "patSent" /\ pc'[u] = "patAnswered")
  /\ g.ok = f.ok \/ (pc[u] = "sent" /\ pc'[u] = "answered")
  /\ g.todo \subseteq f.todo
  /\ g.body \subseteq f.body \cup (umaIdStore \cap Sought(u))
  /\ pc'[u] \in Looking => g.todo = f.todo /\ g.res \in Sought(u)

\* What the issuer does on a request to register or to delete that it accepts.
Accepts(t) ==
  LET i == IssuerOf[frame[t].acct]
      r == frame[t].res IN
  /\ pc[t] = "sent" /\ pc'[t] = "answered"
  /\ frame[t].kind = "register" /\ Acceptable(t) /\ frame'[t].ok
  /\ registrations' = [registrations EXCEPT ![i] =
                         [registrations[i] EXCEPT ![r] = frame[t].acct]]
  /\ relations' = [relations EXCEPT ![i] =
       IF frame[t].linked THEN relations[i] \cup {r} ELSE relations[i] \ {r}]
  /\ collections' = [collections EXCEPT ![i] = collections[i] \cup ({r} \cap Container)]

\* What the issuer does on a request to delete that it carries out.
Deletes(t) ==
  LET i == IssuerOf[frame[t].acct]
      r == frame[t].res IN
  /\ pc[t] = "sent" /\ pc'[t] = "answered"
  /\ frame[t].kind = "delete" /\ registrations[i][r] = frame[t].acct
  /\ registrations' = [registrations EXCEPT ![i] =
                         [registrations[i] EXCEPT ![r] = Nobody]]
  /\ relations' = [relations EXCEPT ![i] = relations[i] \ {r}]
  /\ UNCHANGED collections

\* What holds where a call passes, and what it does there.
Passed(u) ==
  LET f == frame[u]
      g == frame'[u]
      r == frame[u].res
      a == frame[u].acct IN
  /\ pc[u] = "start" => pc'[u] = Enter(r)
  /\ pc[u] = "config" =>
       /\ IssuerOf[a] \notin BrokenIssuer
       /\ f.kind = "ticket" <=> pc'[u] = "lookup"
       /\ f.kind = "delete" => r \in umaIdStore
       /\ f.kind = "register" => g.known = (r \in umaIdStore)
  /\ pc[u] = "pat" /\ pc'[u] = "send" => g.pat = patStorage[a] /\ g.pat # 0
  /\ pc[u] = "pat" /\ pc'[u] = "patConfig" => patStorage[a] = 0 /\ ~PatUnderway
  /\ pc[u] = "patSent" => /\ issuedPat' = [issuedPat EXCEPT ![a] = @ + 1]
                          /\ g.pat = issuedPat[a] + 1
  /\ pc[u] = "patAnswered" /\ pc'[u] = "send" =>
       patStorage' = [patStorage EXCEPT ![a] = f.pat]
  /\ pc[u] = "send" /\ f.kind = "register" =>
       /\ g.linked = (r # Root /\ ~Orphan(r))
       /\ Orphan(r) => \E v \in Call : /\ pc'[v] = "deferred"
                                       /\ frame'[v].kind = "register"
                                       /\ frame'[v].res = r
                                       /\ frame'[v].acct = a
  /\ pc[u] = "sent" /\ f.kind = "register" =>
       g.ok = Acceptable(u) /\ (g.ok => Accepts(u))
  /\ pc[u] = "sent" /\ f.kind = "delete" =>
       g.ok = (PatValid(u) /\ registrations[IssuerOf[a]][r] = a) /\ (g.ok => Deletes(u))
  /\ pc[u] = "sent" /\ f.kind = "ticket" =>
       g.ok = (PatValid(u) /\ \A x \in f.body : registrations[IssuerOf[a]][x] # Nobody)
  /\ pc'[u] = "join" => /\ f.kind = "register" /\ f.ok
                        /\ umaIdStore' = umaIdStore \cup {r}
  /\ pc[u] = "answered" /\ pc'[u] = "sent" => lost' = lost + 1
  /\ pc[u] = "patAnswered" /\ pc'[u] = "patSent" => lost' = lost + 1
  /\ pc'[u] = "await" =>
       /\ g.res = r
       /\ \E v \in Call : /\ pc'[v] # "free" /\ frame'[v].kind = "register"
                         /\ frame'[v].res = r /\ frame'[v].for = u

\* u goes from one point to another.
Moves(u) ==
  /\ pc[u] # "free" /\ pc'[u] # "free"
  /\ Edge(u) /\ Assigned(u) /\ Passed(u)

\* Where new calls come from: the rest of the server, a registration whose
\* parent is not known, and a request for access.
FromServer(u) ==
  /\ frame'[u].for = NoCall
  /\ events' = events + 1
  /\ \/ /\ pc'[u] = "start" /\ frame'[u].kind = "register"
        /\ frame'[u].res # Root
        /\ "create" \in Events \/ "update" \in Events
     \/ /\ pc'[u] = "config" /\ frame'[u].kind = "delete"
        /\ "delete" \in Events \/ "update" \in Events
     \/ /\ pc'[u] = "config" /\ frame'[u].kind = "ticket"
        /\ frame'[u].todo \in Targets
        /\ CommonOwner(frame'[u].todo, frame'[u].acct)

\* A registration makes two calls when the parent is not known: the deferred one
\* of its own resource, and one for the parent that nobody registers yet.
FromChild(u) ==
  /\ frame'[u].kind = "register"
  /\ \E t \in Call :
       /\ pc[t] = "send" /\ frame[t].kind = "register"
       /\ Orphan(frame[t].res)
       /\ frame'[u].acct = frame[t].acct
       /\ frame'[u].for = t
       /\ \/ pc'[u] = "deferred" /\ frame'[u].res = frame[t].res
          \/ /\ pc'[u] = "config" /\ frame'[u].res = Parent[frame[t].res]
             /\ Parent[frame[t].res] \notin inProgress

\* A request for access registers a target that has no identifier.
FromTicket(u) ==
  /\ frame'[u].kind = "register"
  /\ \E t \in Call :
       /\ pc[t] = "probe" /\ frame'[u].res = frame[t].res
       /\ frame'[u].acct = frame[t].acct
       /\ frame'[u].for = t
       /\ pc'[u] = Enter(frame[t].res)

\* u is a new call.
Starts(u) ==
  /\ pc[u] = "free" /\ pc'[u] # "free"
  /\ frame'[u].body = {} /\ ~frame'[u].known /\ ~frame'[u].linked
  /\ frame'[u].pat = 0 /\ ~frame'[u].ok /\ ~frame'[u].bad
  /\ frame'[u].kind # "ticket" => frame'[u].todo = {}
  /\ FromServer(u) \/ FromChild(u) \/ FromTicket(u)

\* What a step does to the calls.
CallStep == \A u \in Call : Stays(u) \/ Ends(u) \/ Moves(u) \/ Starts(u)

-----------------------------------------------------------------------------
\* A call ends where it may; the others keep their jobs.
LEMMA LeaveStep ==
  ASSUME CallsTyped, NEW t \in Call, NEW b, Leave(t, b),
         MayEnd(t)
  PROVE  CallStep
  <1>1. Ends(t)
    BY DEF Leave, CallsTyped, Ends
  <1>2. ASSUME NEW u \in Call \ {t} PROVE Stays(u)
    <2>1. pc'[u] = pc[u] /\ frame[u] \in Frame
      BY DEF Leave, CallsTyped
    <2>2. \/ frame'[u] = frame[u]
          \/ frame'[u] = [frame[u] EXCEPT !.bad = TRUE]
          \/ frame'[u] = [frame[u] EXCEPT !.for = NoCall]
      BY DEF Leave
    <2>3. SameJob(frame[u], frame'[u])
      BY <2>1, <2>2 DEF Frame, SameJob
    <2>4. QED
      BY <2>1, <2>3 DEF Stays
  <1>3. QED
    BY <1>1, <1>2 DEF CallStep

\* A call goes on by itself.
LEMMA MoveStep ==
  ASSUME CallsTyped, NEW t \in Call, NEW point, NEW g,
         pc' = [pc EXCEPT ![t] = point],
         frame' = [frame EXCEPT ![t] = g],
         Moves(t) \/ Stays(t)
  PROVE  CallStep
  <1>1. ASSUME NEW u \in Call \ {t} PROVE Stays(u)
    BY DEF CallsTyped, Stays, SameJob
  <1>2. QED
    BY <1>1 DEF CallStep

\* Nothing happens to the calls.
LEMMA SkipStep ==
  ASSUME UNCHANGED <<pc, frame>>
  PROVE  CallStep
  BY DEF CallStep, Stays, SameJob

\* fetchUmaConfig resolves.
LEMMA ConfigReadStep ==
  ASSUME CallsTyped, NEW t \in Call, ConfigRead(t)
  PROVE  CallStep
  <1>1. CASE frame[t].kind = "register"
    <2> DEFINE b == frame[t].res \in umaIdStore
    <2>1. /\ pc[t] = "config" /\ IssuerOf[frame[t].acct] \notin BrokenIssuer
          /\ pc' = [pc EXCEPT ![t] = "pat"]
          /\ frame' = [frame EXCEPT ![t] = [frame[t] EXCEPT !.known = b]]
      BY <1>1 DEF ConfigRead, MayBeRead, Goto
    <2>2. pc'[t] = "pat" /\ frame'[t] = [frame[t] EXCEPT !.known = b]
      BY <2>1 DEF CallsTyped
    <2>3. Moves(t)
      BY <1>1, <2>1, <2>2 DEF Frame, CallsTyped, Moves, Edge, Assigned, Looking, Passed
    <2>4. QED
      BY <2>1, <2>3, MoveStep
  <1>2. CASE frame[t].kind \in {"ticket", "delete"}
    <2>1. CASE /\ frame[t].kind = "delete" /\ frame[t].res \notin umaIdStore
               /\ Leave(t, TRUE)
      BY <2>1, LeaveStep DEF ConfigRead, MayEnd
    <2>2. CASE /\ UNCHANGED frame
               /\ \/ frame[t].kind = "ticket" /\ Goto(t, "lookup")
                  \/ /\ frame[t].kind = "delete" /\ Goto(t, "pat")
                     /\ frame[t].res \in umaIdStore
      <3>1. Moves(t)
        BY <2>2 DEF ConfigRead, MayBeRead, Goto, CallsTyped, Moves, Edge, Assigned,
                    Looking, Passed
      <3>2. frame' = [frame EXCEPT ![t] = frame[t]]
        BY <2>2 DEF CallsTyped
      <3>3. QED
        BY <2>2, <3>1, <3>2, MoveStep DEF Goto
    <2>3. QED
      BY <1>2, <2>1, <2>2 DEF ConfigRead
  <1>3. QED
    BY <1>1, <1>2 DEF ConfigRead

\* A step that changes at most the point of t.
LEMMA GotoStep ==
  ASSUME CallsTyped, NEW t \in Call, NEW point, Goto(t, point), UNCHANGED frame,
         Moves(t) \/ Stays(t)
  PROVE  CallStep
  <1>1. frame' = [frame EXCEPT ![t] = frame[t]]
    BY DEF CallsTyped
  <1>2. QED
    BY <1>1, MoveStep DEF Goto

\* The steps of getPat.
LEMMA PatStepStep ==
  ASSUME CallsTyped, NEW t \in Call, PatStep(t)
  PROVE  CallStep
  <1>1. CASE GetPat(t)
    <2>1. CASE /\ patStorage[frame[t].acct] # 0
               /\ frame' = [frame EXCEPT ![t].pat = patStorage[frame[t].acct]]
               /\ Goto(t, "send")
      <3> DEFINE g == [frame[t] EXCEPT !.pat = patStorage[frame[t].acct]]
      <3>1. /\ pc' = [pc EXCEPT ![t] = "send"]
            /\ frame' = [frame EXCEPT ![t] = g]
        BY <2>1 DEF Goto
      <3>2. pc'[t] = "send" /\ frame'[t] = g /\ pc[t] = "pat"
        BY <1>1, <3>1 DEF CallsTyped, GetPat
      <3>3. Moves(t)
        BY <2>1, <3>2 DEF Frame, CallsTyped, Moves, Edge, Assigned, Looking, Passed
      <3>4. QED
        BY <3>1, <3>3, MoveStep
    <2>2. CASE /\ patStorage[frame[t].acct] = 0
               /\ Goto(t, "waitPat") \/ (Goto(t, "patConfig") /\ ~PatUnderway)
               /\ UNCHANGED frame
      <3>1. Moves(t)
        BY <1>1, <2>2 DEF GetPat, Goto, CallsTyped, Moves, Edge, Assigned, Looking, Passed
      <3>2. QED
        BY <2>2, <3>1, GotoStep
    <2>3. QED
      BY <1>1, <2>1, <2>2 DEF GetPat
  <1>2. CASE PatConfigFails(t) \/ PatRefused(t)
    BY <1>2, LeaveStep DEF PatConfigFails, PatRefused, MayEnd
  <1>3. CASE PatIssued(t)
    <2> DEFINE a == frame[t].acct
               g == [frame[t] EXCEPT !.pat = issuedPat[a] + 1]
    <2>1. /\ pc' = [pc EXCEPT ![t] = "patAnswered"]
          /\ frame' = [frame EXCEPT ![t] = g]
          /\ issuedPat' = [issuedPat EXCEPT ![a] = @ + 1]
          /\ pc[t] = "patSent"
      BY <1>3 DEF PatIssued, Goto
    <2>2. pc'[t] = "patAnswered" /\ frame'[t] = g
      BY <2>1 DEF CallsTyped
    <2>3. Moves(t)
      BY <2>1, <2>2 DEF Frame, CallsTyped, Moves, Edge, Assigned, Looking, Passed
    <2>4. QED
      BY <2>1, <2>3, MoveStep
  <1>4. CASE PatReceived(t)
    <2>1. /\ pc[t] = "patAnswered" /\ UNCHANGED frame
          /\ patStorage' = [patStorage EXCEPT ![frame[t].acct] = frame[t].pat]
          /\ \A u \in Call : pc'[u] = IF u = t THEN "send"
                                      ELSE IF pc[u] = "waitPat" THEN "pat" ELSE pc[u]
      BY <1>4 DEF PatReceived, EmitPat
    <2>2. ASSUME NEW u \in Call PROVE Moves(u) \/ Stays(u)
      BY <2>1 DEF Moves, Edge, Assigned, Looking, Passed, Stays, SameJob
    <2>3. QED
      BY <2>2 DEF CallStep
  <1>5. CASE PatConfigRead(t)
    <2>1. Moves(t)
      BY <1>5 DEF PatConfigRead, Goto, CallsTyped, Moves, Edge, Assigned, Looking, Passed
    <2>2. QED
      BY <1>5, <2>1, GotoStep DEF PatConfigRead
  <1>6. QED
    BY <1>1, <1>2, <1>3, <1>4, <1>5 DEF PatStep

\* Answers of the authorization server.
LEMMA HandleRegistrationStep ==
  ASSUME CallsTyped, NEW t \in Call, HandleRegistration(t)
  PROVE  /\ CallStep
         /\ Acceptable(t) => Accepts(t)
  <1> DEFINE b == Acceptable(t)
             g == [frame[t] EXCEPT !.ok = b]
  <1>1. /\ pc[t] = "sent" /\ pc' = [pc EXCEPT ![t] = "answered"]
        /\ frame[t].kind = "register"
        /\ frame' = [frame EXCEPT ![t] = g]
    BY DEF HandleRegistration, Goto
  <1>2. pc'[t] = "answered" /\ frame'[t] = g /\ g.ok = b
    BY <1>1 DEF CallsTyped, Frame
  <1>3. b => Accepts(t)
    BY <1>1, <1>2 DEF Accepts, HandleRegistration
  <1>a. /\ g.kind = frame[t].kind /\ g.acct = frame[t].acct /\ g.res = frame[t].res
        /\ g.known = frame[t].known /\ g.linked = frame[t].linked
        /\ g.pat = frame[t].pat /\ g.todo = frame[t].todo /\ g.body = frame[t].body
    BY DEF Frame, CallsTyped
  <1> HIDE DEF g
  <1>4. Moves(t)
    BY <1>1, <1>2, <1>3, <1>a DEF Moves, Edge, Assigned, Looking, Passed
  <1>5. QED
    BY <1>1, <1>3, <1>4, MoveStep

\* The issuer handles a DELETE.
LEMMA HandleDeleteStep ==
  ASSUME CallsTyped, NEW t \in Call, HandleDelete(t)
  PROVE  /\ CallStep
         /\ PatValid(t) /\ registrations[IssuerOf[frame[t].acct]][frame[t].res] =
              frame[t].acct => Deletes(t)
  <1> DEFINE b == /\ PatValid(t)
                  /\ registrations[IssuerOf[frame[t].acct]][frame[t].res] = frame[t].acct
             g == [frame[t] EXCEPT !.ok = b]
  <1>1. /\ pc[t] = "sent" /\ pc' = [pc EXCEPT ![t] = "answered"]
        /\ frame[t].kind = "delete"
        /\ frame' = [frame EXCEPT ![t] = g]
    BY DEF HandleDelete, Goto
  <1>2. pc'[t] = "answered" /\ frame'[t] = g /\ g.ok = b
    BY <1>1 DEF CallsTyped, Frame
  <1>3. b => Deletes(t)
    BY <1>1, <1>2 DEF Deletes, HandleDelete, RelationsWithout
  <1>a. /\ g.kind = frame[t].kind /\ g.acct = frame[t].acct /\ g.res = frame[t].res
        /\ g.known = frame[t].known /\ g.linked = frame[t].linked
        /\ g.pat = frame[t].pat /\ g.todo = frame[t].todo /\ g.body = frame[t].body
    BY DEF Frame, CallsTyped
  <1> HIDE DEF g
  <1>4. Moves(t)
    BY <1>1, <1>2, <1>3, <1>a DEF Moves, Edge, Assigned, Looking, Passed
  <1>5. QED
    BY <1>1, <1>3, <1>4, MoveStep

\* The issuer handles a request for a ticket.
LEMMA HandleTicketStep ==
  ASSUME CallsTyped, NEW t \in Call, HandleTicket(t)
  PROVE  CallStep
  <1> DEFINE b == /\ PatValid(t)
                  /\ \A x \in frame[t].body :
                       registrations[IssuerOf[frame[t].acct]][x] # Nobody
             g == [frame[t] EXCEPT !.ok = b]
  <1>1. /\ pc[t] = "sent" /\ pc' = [pc EXCEPT ![t] = "answered"]
        /\ frame[t].kind = "ticket"
        /\ frame' = [frame EXCEPT ![t] = g]
    BY DEF HandleTicket, Goto
  <1>2. pc'[t] = "answered" /\ frame'[t] = g /\ g.ok = b
    BY <1>1 DEF CallsTyped, Frame
  <1>a. /\ g.kind = frame[t].kind /\ g.acct = frame[t].acct /\ g.res = frame[t].res
        /\ g.known = frame[t].known /\ g.linked = frame[t].linked
        /\ g.pat = frame[t].pat /\ g.todo = frame[t].todo /\ g.body = frame[t].body
    BY DEF Frame, CallsTyped
  <1> HIDE DEF g
  <1>3. Moves(t)
    BY <1>1, <1>2, <1>a DEF Moves, Edge, Assigned, Looking, Passed
  <1>4. QED
    BY <1>1, <1>3, MoveStep

\* What the frame of a new call has to say.
LEMMA NewRegistration ==
  ASSUME NEW r, NEW a, NEW c
  PROVE  LET f == Registering(r, a, c) IN
         /\ f.kind = "register" /\ f.res = r /\ f.acct = a /\ f.for = c
         /\ f.todo = {} /\ f.body = {} /\ ~f.known /\ ~f.linked
         /\ f.pat = 0 /\ ~f.ok /\ ~f.bad
  BY DEF Registering, Idle

\* registerResource sends its request, and may start two more calls.
LEMMA SendStep ==
  ASSUME CallsTyped, NEW t \in Call, SendRegistration(t)
  PROVE  CallStep
  <1> DEFINE r == frame[t].res
             a == frame[t].acct
             again == Pick(Free)
             above == Pick(Free \ {again})
             linked == r # Root /\ ~Orphan(r)
             g == [frame[t] EXCEPT !.linked = linked]
             sent == [frame EXCEPT ![t] = g]
  <1>1. /\ pc[t] = "send" /\ frame[t].kind = "register"
        /\ frame[t] \in Frame /\ frame \in [Call -> Frame]
        /\ pc \in [Call -> Point]
    BY DEF SendRegistration, CallsTyped
  <1>2. /\ g.kind = "register" /\ g.acct = a /\ g.res = r
        /\ g.todo = frame[t].todo /\ g.body = frame[t].body
        /\ g.known = frame[t].known /\ g.pat = frame[t].pat
        /\ g.ok = frame[t].ok /\ g.linked = linked
    BY <1>1 DEF Frame
  <1> HIDE DEF g
  <1>3. ASSUME ~Orphan(r) PROVE CallStep
    <2>1. pc' = [pc EXCEPT ![t] = "sent"] /\ frame' = sent
      BY <1>3 DEF SendRegistration, Goto, g
    <2>2. pc'[t] = "sent" /\ frame'[t] = g
      BY <1>1, <2>1
    <2>3. Moves(t)
      BY <1>1, <1>2, <1>3, <2>2 DEF Moves, Edge, Assigned, Looking, Passed
    <2>4. QED
      BY <2>1, <2>3, MoveStep
  <1>4. ASSUME Orphan(r), Parent[r] \in inProgress PROVE CallStep
    <2>1. /\ pc' = [pc EXCEPT ![t] = "sent", ![again] = "deferred"]
          /\ frame' = [sent EXCEPT ![again] = Registering(r, a, t)]
          /\ again \in Call /\ pc[again] = "free" /\ again # t
      BY <1>1, <1>4, PickInSet DEF SendRegistration, Free, g
    <2> HIDE DEF again
    <2>2. /\ pc'[t] = "sent" /\ frame'[t] = g
          /\ pc'[again] = "deferred" /\ frame'[again] = Registering(r, a, t)
      BY <1>1, <2>1
    <2>3. Starts(again)
      BY <1>1, <1>4, <2>1, <2>2, NewRegistration DEF Starts, FromChild
    <2>4. \E v \in Call : /\ pc'[v] = "deferred" /\ frame'[v].kind = "register"
                          /\ frame'[v].res = r /\ frame'[v].acct = a
      BY <2>1, <2>2, NewRegistration
    <2>5. Moves(t)
      BY <1>1, <1>2, <1>4, <2>2, <2>4 DEF Moves, Edge, Assigned, Looking, Passed
    <2>6. ASSUME NEW u \in Call \ {t, again} PROVE Stays(u)
      BY <1>1, <2>1 DEF Stays, SameJob
    <2>7. QED
      BY <2>3, <2>5, <2>6 DEF CallStep
  <1>5. ASSUME Orphan(r), Parent[r] \notin inProgress PROVE CallStep
    <2>1. /\ pc' = [pc EXCEPT ![t] = "sent", ![again] = "deferred", ![above] = "config"]
          /\ frame' = [sent EXCEPT ![again] = Registering(r, a, t),
                                   ![above] = Registering(Parent[r], a, t)]
          /\ again \in Call /\ pc[again] = "free" /\ again # t
          /\ above \in Call /\ pc[above] = "free" /\ above # t /\ above # again
      BY <1>1, <1>5, PickInSet DEF SendRegistration, Free, g
    <2> HIDE DEF again, above
    <2>2. /\ pc'[t] = "sent" /\ frame'[t] = g
          /\ pc'[again] = "deferred" /\ frame'[again] = Registering(r, a, t)
          /\ pc'[above] = "config" /\ frame'[above] = Registering(Parent[r], a, t)
      BY <1>1, <2>1
    <2>3. Starts(again) /\ Starts(above)
      BY <1>1, <1>5, <2>1, <2>2, NewRegistration DEF Starts, FromChild
    <2>4. \E v \in Call : /\ pc'[v] = "deferred" /\ frame'[v].kind = "register"
                          /\ frame'[v].res = r /\ frame'[v].acct = a
      BY <2>1, <2>2, NewRegistration
    <2>5. Moves(t)
      BY <1>1, <1>2, <1>5, <2>2, <2>4 DEF Moves, Edge, Assigned, Looking, Passed
    <2>6. ASSUME NEW u \in Call \ {t, again, above} PROVE Stays(u)
      BY <1>1, <2>1 DEF Stays, SameJob
    <2>7. QED
      BY <2>3, <2>5, <2>6 DEF CallStep
  <1>6. QED
    BY <1>3, <1>4, <1>5

\* The steps of registerResource.
LEMMA RegisterStepStep ==
  ASSUME CallsTyped, NEW t \in Call, RegisterStep(t)
  PROVE  CallStep
  <1>1. CASE Begin(t)
    <2>1. Moves(t)
      BY <1>1 DEF Begin, Goto, CallsTyped, Enter, Moves, Edge, Assigned, Looking, Passed
    <2>2. QED
      BY <1>1, <2>1, GotoStep DEF Begin
  <1>2. CASE RegistrationAnswered(t)
    <2> DEFINE r == frame[t].res
    <2>1. CASE Succeeded(t)
      <3>1. /\ pc[t] = "answered" /\ UNCHANGED frame
            /\ frame[t].kind = "register" /\ frame[t].ok
            /\ umaIdStore' = umaIdStore \cup {r}
            /\ \A u \in Call : pc'[u] = IF u = t THEN "join" ELSE Emit(r)[u]
        BY <1>2, <2>1 DEF RegistrationAnswered, Succeeded, StoredId, Emit
      <3>2. Moves(t)
        BY <3>1 DEF Moves, Edge, Assigned, Looking, Passed
      <3>3. ASSUME NEW u \in Call \ {t} PROVE Moves(u) \/ Stays(u)
        BY <3>1 DEF Emit, Moves, Edge, Assigned, Looking, Sought, Passed, Stays, SameJob, Ticketing
      <3>4. QED
        BY <3>2, <3>3 DEF CallStep
    <2>2. CASE ~Succeeded(t)
      BY <1>2, <2>2, LeaveStep DEF RegistrationAnswered, Succeeded, MayEnd
    <2>3. QED
      BY <2>1, <2>2
  <1>3. CASE Join(t)
    BY <1>3, LeaveStep DEF Join, MayEnd
  <1>4. CASE RejectEarly(t)
    <2> DEFINE w == frame[t].for
               half == [frame EXCEPT ![t] = [frame[t] EXCEPT !.for = NoCall]]
    <2>1. frame' = [half EXCEPT ![w] = [half[w] EXCEPT !.bad = TRUE]]
      BY <1>4 DEF RejectEarly
    <2>2. \A u \in Call : half[u] \in Frame /\ SameJob(frame[u], half[u])
      <3>1. SameWork(frame[t], [frame[t] EXCEPT !.for = NoCall])
        BY FrameUpdate DEF CallsTyped
      <3>2. SameJob(frame[t], [frame[t] EXCEPT !.for = NoCall])
        BY DEF CallsTyped, Frame, SameJob
      <3>3. \A u \in Call : SameJob(frame[u], frame[u])
        BY DEF SameJob
      <3>4. QED
        BY <3>1, <3>2, <3>3 DEF CallsTyped, SameWork
    <2>3. half \in [Call -> Frame]
      BY <2>2 DEF CallsTyped
    <2> HIDE DEF half
    <2>4. \A u \in Call : SameJob(frame[u], frame'[u])
      BY <2>1, <2>2, <2>3 DEF Frame, SameJob
    <2>5. QED
      BY <1>4, <2>4 DEF RejectEarly, CallStep, Stays
  <1>5. QED
    BY <1>1, <1>2, <1>3, <1>4, SendStep, HandleRegistrationStep DEF RegisterStep

\* fetchTicket has found an identifier it looked for.
LEMMA FoundStep ==
  ASSUME CallsTyped, NEW t \in Call, NEW r, Found(t, r),
         r \in Sought(t), r \in umaIdStore,
         frame[t].kind = "ticket", pc[t] \in Ticketing,
         Goto(t, "lookup") \/ (UNCHANGED pc /\ pc[t] = "lookup")
  PROVE  CallStep
  <1> DEFINE g == [frame[t] EXCEPT !.todo = @ \ {r}, !.body = @ \cup {r}, !.res = r]
  <1>1. /\ frame' = [frame EXCEPT ![t] = g]
        /\ frame' [t] = g
        /\ pc' = [pc EXCEPT ![t] = "lookup"] /\ pc'[t] = "lookup"
    BY DEF Found, Goto, CallsTyped, Ticketing
  <1>2. /\ g.kind = "ticket" /\ g.acct = frame[t].acct /\ g.known = frame[t].known
        /\ g.linked = frame[t].linked /\ g.pat = frame[t].pat /\ g.ok = frame[t].ok
        /\ g.todo = frame[t].todo \ {r} /\ g.body = frame[t].body \cup {r}
        /\ g.res = r
    BY DEF CallsTyped, Frame
  <1> HIDE DEF g
  <1>3. Moves(t)
    BY <1>1, <1>2 DEF Moves, Edge, Assigned, Looking, Sought, Passed, Ticketing
  <1>4. QED
    BY <1>1, <1>3, MoveStep

\* The steps of fetchTicket.
LEMMA TicketStepStep ==
  ASSUME CallsTyped, OnlyTickets, NEW t \in Call, TicketStep(t)
  PROVE  CallStep
  <1>0. frame[t].kind = "ticket" /\ pc[t] \in Ticketing
    BY DEF OnlyTickets, Ticketing, TicketStep, Lookup, Timeout, Woken, Probe, Registered
  <1>1. CASE Lookup(t)
    <2>1. CASE Goto(t, "pat") /\ UNCHANGED frame
      <3>1. Moves(t)
        BY <1>0, <1>1, <2>1 DEF Lookup, Goto, CallsTyped, Moves, Edge, Assigned, Looking, Sought, Passed, Ticketing
      <3>2. QED
        BY <2>1, <3>1, GotoStep
    <2>2. ASSUME NEW r \in frame[t].todo, r \in umaIdStore, Found(t, r), UNCHANGED pc
          PROVE  CallStep
      BY <1>0, <1>1, <2>2, FoundStep DEF Lookup, Sought
    <2>3. ASSUME NEW r \in frame[t].todo, NEW point \in {"waitEvent", "probe"},
                 frame' = [frame EXCEPT ![t].res = r], Goto(t, point)
          PROVE  CallStep
      <3> DEFINE g == [frame[t] EXCEPT !.res = r]
      <3>1. /\ frame' = [frame EXCEPT ![t] = g] /\ frame'[t] = g
            /\ pc' = [pc EXCEPT ![t] = point] /\ pc'[t] = point
        BY <2>3 DEF Goto, CallsTyped
      <3>2. Moves(t)
        BY <1>0, <1>1, <3>1 DEF Lookup, CallsTyped, Frame, Moves, Edge, Assigned, Looking, Sought, Passed, Ticketing
      <3>3. QED
        BY <3>1, <3>2, MoveStep
    <2>4. QED
      BY <1>1, <2>1, <2>2, <2>3 DEF Lookup, Ticketing
  <1>2. CASE Timeout(t)
    BY <1>0, <1>2, LeaveStep DEF Timeout, MayEnd
  <1>3. CASE Woken(t)
    <2>1. CASE frame[t].res \in umaIdStore
      BY <1>0, <1>3, <2>1, FoundStep DEF Woken, Sought, Looking
    <2>2. CASE frame[t].res \notin umaIdStore
      <3>1. Moves(t)
        BY <1>0, <1>3, <2>2 DEF Woken, Goto, CallsTyped, Moves, Edge, Assigned, Looking, Sought, Passed, Ticketing
      <3>2. QED
        BY <1>3, <2>2, <3>1, GotoStep DEF Woken
    <2>3. QED
      BY <2>1, <2>2
  <1>4. CASE Probe(t)
    <2> DEFINE r == frame[t].res
               new == Pick(Free)
    <2>1. CASE r \notin exists
      BY <1>0, <1>4, <2>1, LeaveStep DEF Probe, MayEnd
    <2>2. CASE r \in exists
      <3>1. /\ pc[t] = "probe"
            /\ pc' = [pc EXCEPT ![t] = "await", ![new] = Enter(r)]
            /\ frame' = [frame EXCEPT ![new] = Registering(r, frame[t].acct, t)]
            /\ new \in Call /\ pc[new] = "free" /\ new # t
        BY <1>4, <2>2, PickInSet DEF Probe, Free
      <3> HIDE DEF new
      <3>2. /\ pc'[t] = "await" /\ frame'[t] = frame[t]
            /\ pc'[new] = Enter(r) /\ frame'[new] = Registering(r, frame[t].acct, t)
        BY <3>1 DEF CallsTyped
      <3>a. Enter(r) # "free"
        BY DEF Enter
      <3>b. FromTicket(new)
        BY <3>1, <3>2, NewRegistration DEF FromTicket
      <3>3. Starts(new)
        BY <3>1, <3>2, <3>a, <3>b, NewRegistration DEF Starts
      <3>c. \E v \in Call : /\ pc'[v] # "free" /\ frame'[v].kind = "register"
                            /\ frame'[v].res = r /\ frame'[v].for = t
        BY <3>1, <3>2, <3>a, NewRegistration
      <3>d. Edge(t) /\ Assigned(t)
        BY <1>0, <3>1, <3>2 DEF Edge, Assigned, Looking, Sought, Ticketing
      <3>e. Passed(t)
        BY <1>0, <3>1, <3>2, <3>c DEF Passed
      <3>4. Moves(t)
        BY <3>1, <3>2, <3>d, <3>e DEF Moves
      <3>5. ASSUME NEW u \in Call \ {t, new} PROVE Stays(u)
        BY <3>1 DEF CallsTyped, Stays, SameJob
      <3>6. QED
        BY <3>3, <3>4, <3>5 DEF CallStep
    <2>3. QED
      BY <2>1, <2>2
  <1>5. CASE Registered(t)
    <2>1. CASE Leave(t, TRUE)
      BY <1>0, <1>5, <2>1, LeaveStep DEF Registered, MayEnd
    <2>2. CASE Found(t, frame[t].res) /\ Goto(t, "lookup") /\ frame[t].res \in umaIdStore
      BY <1>0, <1>5, <2>2, FoundStep DEF Registered, Sought, Looking
    <2>3. QED
      BY <1>5, <2>1, <2>2 DEF Registered
  <1>6. QED
    BY <1>1, <1>2, <1>3, <1>4, <1>5 DEF TicketStep

\* The steps of the main request of fetchTicket and deleteResource.
LEMMA RequestStepStep ==
  ASSUME CallsTyped, NEW t \in Call, RequestStep(t)
  PROVE  CallStep
  <1>1. CASE Send(t)
    <2>1. Moves(t)
      BY <1>1 DEF Send, Goto, CallsTyped, Moves, Edge, Assigned, Looking, Passed
    <2>2. QED
      BY <1>1, <2>1, GotoStep DEF Send
  <1>2. CASE Answered(t)
    BY <1>2, LeaveStep DEF Answered, MayEnd
  <1>3. QED
    BY <1>1, <1>2, HandleTicketStep, HandleDeleteStep DEF RequestStep

\* The calls the rest of the server makes.
LEMMA NewCallStep ==
  ASSUME CallsTyped, NEW point, point # "free", NEW f, NewCall(point, f),
         f.for = NoCall, f.body = {}, ~f.known, ~f.linked, f.pat = 0, ~f.ok, ~f.bad,
         f.kind # "ticket" => f.todo = {},
         \/ /\ point = "start" /\ f.kind = "register" /\ f.res # Root
            /\ "create" \in Events \/ "update" \in Events
         \/ /\ point = "config" /\ f.kind = "delete"
            /\ "delete" \in Events \/ "update" \in Events
         \/ /\ point = "config" /\ f.kind = "ticket"
            /\ f.todo \in Targets /\ CommonOwner(f.todo, f.acct)
  PROVE  CallStep
  <1> DEFINE new == Pick(Free)
  <1>1. /\ new \in Call /\ pc[new] = "free"
        /\ pc' = [pc EXCEPT ![new] = point] /\ frame' = [frame EXCEPT ![new] = f]
        /\ events' = events + 1
    BY PickInSet DEF NewCall, Free
  <1> HIDE DEF new
  <1>2. pc'[new] = point /\ frame'[new] = f
    BY <1>1 DEF CallsTyped
  <1>3. Starts(new)
    BY <1>1, <1>2 DEF Starts, FromServer
  <1>4. ASSUME NEW u \in Call \ {new} PROVE Stays(u)
    BY <1>1 DEF CallsTyped, Stays, SameJob
  <1>5. QED
    BY <1>3, <1>4 DEF CallStep

\* Every step, of the client, the issuers or the rest of the server, is one of
\* the four for each call.
LEMMA EveryCallSteps ==
  ASSUME CallsTyped, OnlyTickets, [OpenNext]_vars
  PROVE  CallStep
  <1>1. ASSUME NEW t \in Call, ConfigFails(t) PROVE CallStep
    BY <1>1, LeaveStep DEF ConfigFails, MayEnd
  <1>2. ASSUME NEW t \in Call, Retry(t) PROVE CallStep
    <2>1. PICK point :
            /\ Goto(t, point)
            /\ \/ pc[t] = "answered" /\ point = "sent"
               \/ pc[t] = "patAnswered" /\ point = "patSent"
      BY <1>2 DEF Retry
    <2>a. pc'[t] = point
      BY <2>1 DEF Goto, CallsTyped
    <2>2. UNCHANGED frame /\ lost' = lost + 1
      BY <1>2 DEF Retry
    <2>3. Moves(t)
      BY <2>1, <2>a, <2>2 DEF Moves, Edge, Assigned, Looking, Passed
    <2>4. QED
      BY <2>1, <2>2, <2>3, GotoStep
  <1>3. ASSUME NEW a \in Account, PatExpires(a) \/ CacheExpires(a) PROVE CallStep
    BY <1>3, SkipStep DEF PatExpires, CacheExpires, callVars
  <1>4. ASSUME NEW r \in Resource \ {Root}, Unseen(r) PROVE CallStep
    BY <1>4, SkipStep DEF Unseen, callVars
  <1>5. CASE UNCHANGED vars
    BY <1>5, SkipStep DEF vars, callVars
  <1>6. ASSUME NEW r \in Resource \ {Root}, NEW a \in Account,
               Create(r, a) \/ Reregister(r, a)
        PROVE  CallStep
    BY <1>6, NewRegistration, NewCallStep DEF Create, Reregister
  <1>7. ASSUME NEW r \in Resource \ {Root}, NEW a \in Account,
               Delete(r, a) \/ Unregister(r, a)
        PROVE  CallStep
    <2> DEFINE f == Deleting(r, a)
    <2>1. /\ f.kind = "delete" /\ f.for = NoCall /\ f.body = {} /\ f.todo = {}
          /\ ~f.known /\ ~f.linked /\ f.pat = 0 /\ ~f.ok /\ ~f.bad
      BY DEF Deleting, Idle
    <2> HIDE DEF f
    <2>2. NewCall("config", f) /\ ("delete" \in Events \/ "update" \in Events)
      BY <1>7 DEF Delete, Unregister, f
    <2>3. QED
      BY <2>1, <2>2, NewCallStep
  <1>8. ASSUME NEW T \in Targets, NEW a \in Account, Access(T, a) PROVE CallStep
    <2> DEFINE f == [Idle EXCEPT !.kind = "ticket", !.todo = T, !.acct = a]
    <2>1. /\ f.kind = "ticket" /\ f.for = NoCall /\ f.body = {} /\ f.todo = T
          /\ ~f.known /\ ~f.linked /\ f.pat = 0 /\ ~f.ok /\ ~f.bad /\ f.acct = a
      BY DEF Idle
    <2>2. NewCall("config", f) /\ CommonOwner(T, a)
      BY <1>8 DEF Access
    <2> HIDE DEF f
    <2>3. QED
      BY <2>1, <2>2, NewCallStep
  <1>9. QED
    BY <1>1, <1>2, <1>3, <1>4, <1>5, <1>6, <1>7, <1>8, ConfigReadStep,
       PatStepStep, RegisterStepStep, TicketStepStep, RequestStepStep
    DEF OpenNext, Step, Environment

\* What the client keeps: identifiers of resources that were accepted, and PATs.
IdsStep ==
  \/ UNCHANGED umaIdStore
  \/ \E t \in Call :
       /\ pc[t] = "answered" /\ pc'[t] = "join"
       /\ frame[t].kind = "register" /\ frame[t].ok
       /\ umaIdStore' = umaIdStore \cup {frame[t].res}

\* The cache of PATs is filled by the call that got one, and emptied after the
\* PAT has expired.
CacheStep ==
  \/ UNCHANGED patStorage
  \/ \E t \in Call :
       /\ pc[t] = "patAnswered" /\ pc'[t] = "send"
       /\ patStorage' = [patStorage EXCEPT ![frame[t].acct] = frame[t].pat]
  \/ \E a \in Account \ livePat :
       patStorage' = [patStorage EXCEPT ![a] = 0]

\* What the issuers keep: PATs, and what they know of resources.
IssuedStep ==
  \/ UNCHANGED <<issuedPat, livePat>>
  \/ \E t \in Call :
       /\ pc[t] = "patSent" /\ pc'[t] = "patAnswered"
       /\ frame[t].acct \notin BadAccount
       /\ issuedPat[frame[t].acct] < MaxPat
       /\ issuedPat' = [issuedPat EXCEPT ![frame[t].acct] = @ + 1]
       /\ livePat' = livePat \cup {frame[t].acct}
  \/ \E a \in livePat :
       /\ issuedPat[a] < MaxPat
       /\ livePat' = livePat \ {a}
       /\ UNCHANGED <<issuedPat, pc, frame>>

\* What an issuer knows of resources changes on requests it accepts.
RegistryStep ==
  \/ UNCHANGED <<registrations, relations, collections>>
  \/ \E t \in Call : Accepts(t) \/ Deletes(t)

\* What a step does to the stores.
StoreStep == IdsStep /\ CacheStep /\ IssuedStep /\ RegistryStep

\* A step of a call, seen from the client's stores.
LEMMA ClientStores ==
  ASSUME CallsTyped, NEW t \in Call, Step(t)
  PROVE  IdsStep /\ CacheStep
  <1> USE DEF clientVars, callVars, serverVars, asVars
  <1>1. CASE RegistrationAnswered(t)
    <2>1. CASE Succeeded(t)
      <3>1. pc'[t] = "join"
        BY <1>1, <2>1 DEF RegistrationAnswered, Emit
      <3>2. QED
        BY <1>1, <2>1, <3>1 DEF RegistrationAnswered, Succeeded, StoredId, IdsStep, CacheStep
    <2>2. CASE ~Succeeded(t)
      BY <1>1, <2>2 DEF RegistrationAnswered, IdsStep, CacheStep
    <2>3. QED
      BY <2>1, <2>2
  <1>2. CASE PatReceived(t)
    <2>1. pc'[t] = "send"
      BY <1>2 DEF PatReceived, EmitPat
    <2>2. QED
      BY <1>2, <2>1 DEF PatReceived, IdsStep, CacheStep
  <1>3. CASE ConfigFails(t) \/ ConfigRead(t)
    BY <1>3 DEF ConfigFails, ConfigRead, IdsStep, CacheStep
  <1>4. CASE \/ GetPat(t) \/ PatConfigRead(t) \/ PatConfigFails(t)
             \/ PatRefused(t) \/ PatIssued(t)
    BY <1>4 DEF GetPat, PatConfigRead, PatConfigFails, PatRefused, PatIssued,
                IdsStep, CacheStep
  <1>5. CASE Begin(t) \/ SendRegistration(t) \/ HandleRegistration(t) \/ Join(t) \/ RejectEarly(t)
    BY <1>5 DEF Begin, SendRegistration, HandleRegistration, Join, RejectEarly, IdsStep, CacheStep
  <1>6. CASE TicketStep(t)
    BY <1>6 DEF TicketStep, Lookup, Timeout, Woken, Probe, Registered, IdsStep, CacheStep
  <1>7. CASE RequestStep(t)
    BY <1>7 DEF RequestStep, Send, HandleTicket, HandleDelete, Answered, IdsStep, CacheStep
  <1>8. QED
    BY <1>1, <1>2, <1>3, <1>4, <1>5, <1>6, <1>7 DEF Step, PatStep, RegisterStep

\* A step of a call, seen from the issuers' stores.
LEMMA IssuerStores ==
  ASSUME CallsTyped, NEW t \in Call, Step(t)
  PROVE  IssuedStep /\ RegistryStep
  <1> USE DEF clientVars, callVars, serverVars, asVars
  <1> DEFINE i == IssuerOf[frame[t].acct]
             r == frame[t].res
  <1>1. CASE HandleRegistration(t)
    <2>1. CASE Acceptable(t)
      <3>1. pc[t] = "sent" /\ pc'[t] = "answered" /\ frame'[t].ok
        BY <1>1, <2>1 DEF HandleRegistration, Goto, CallsTyped, Frame
      <3>2. /\ registrations' = [registrations EXCEPT ![i] =
                 [registrations[i] EXCEPT ![r] = frame[t].acct]]
            /\ relations' = [relations EXCEPT ![i] =
                 IF frame[t].linked THEN relations[i] \cup {r} ELSE relations[i] \ {r}]
            /\ collections' = [collections EXCEPT ![i] =
                 collections[i] \cup ({r} \cap Container)]
            /\ frame[t].kind = "register"
            /\ UNCHANGED <<issuedPat, livePat>>
        BY <1>1, <2>1 DEF HandleRegistration
      <3>3. QED
        BY <2>1, <3>1, <3>2 DEF Accepts, RegistryStep, IssuedStep
    <2>2. CASE ~Acceptable(t)
      BY <1>1, <2>2 DEF HandleRegistration, RegistryStep, IssuedStep
    <2>3. QED
      BY <2>1, <2>2
  <1>2. CASE HandleDelete(t)
    <2> DEFINE ok == PatValid(t) /\ registrations[i][r] = frame[t].acct
    <2>1. CASE ok
      <3>1. pc[t] = "sent" /\ pc'[t] = "answered"
        BY <1>2 DEF HandleDelete, Goto, CallsTyped
      <3>2. /\ registrations' = [registrations EXCEPT ![i] =
                 [registrations[i] EXCEPT ![r] = Nobody]]
            /\ relations' = [relations EXCEPT ![i] = relations[i] \ {r}]
            /\ UNCHANGED <<collections, issuedPat, livePat>>
            /\ frame[t].kind = "delete"
        BY <1>2, <2>1 DEF HandleDelete, RelationsWithout
      <3>3. QED
        BY <2>1, <3>1, <3>2 DEF Deletes, RegistryStep, IssuedStep
    <2>2. CASE ~ok
      BY <1>2, <2>2 DEF HandleDelete, RegistryStep, IssuedStep
    <2>3. QED
      BY <2>1, <2>2
  <1>3. CASE PatIssued(t)
    <2>1. pc'[t] = "patAnswered"
      BY <1>3 DEF PatIssued, Goto, CallsTyped
    <2>2. QED
      BY <1>3, <2>1 DEF PatIssued, IssuedStep, RegistryStep
  <1>4. CASE ConfigFails(t) \/ ConfigRead(t)
    BY <1>4 DEF ConfigFails, ConfigRead, IssuedStep, RegistryStep
  <1>5. CASE \/ GetPat(t) \/ PatConfigRead(t) \/ PatConfigFails(t)
             \/ PatRefused(t) \/ PatReceived(t)
    BY <1>5 DEF GetPat, PatConfigRead, PatConfigFails, PatRefused, PatReceived,
                IssuedStep, RegistryStep
  <1>6. CASE Begin(t) \/ SendRegistration(t) \/ RegistrationAnswered(t) \/ Join(t) \/ RejectEarly(t)
    BY <1>6 DEF Begin, SendRegistration, RegistrationAnswered, Join, RejectEarly, IssuedStep, RegistryStep
  <1>7. CASE TicketStep(t)
    BY <1>7 DEF TicketStep, Lookup, Timeout, Woken, Probe, Registered, IssuedStep, RegistryStep
  <1>8. CASE Send(t) \/ HandleTicket(t) \/ Answered(t)
    BY <1>8 DEF Send, HandleTicket, Answered, IssuedStep, RegistryStep
  <1>9. QED
    BY <1>1, <1>2, <1>3, <1>4, <1>5, <1>6, <1>7, <1>8 DEF Step, PatStep, RegisterStep, RequestStep

\* Every step.
LEMMA EveryStoreSteps ==
  ASSUME CallsTyped, [OpenNext]_vars
  PROVE  StoreStep
  <1> USE DEF clientVars, callVars, serverVars, asVars,
              IdsStep, CacheStep, IssuedStep, RegistryStep, StoreStep
  <1>1. ASSUME NEW t \in Call, Step(t) PROVE StoreStep
    BY <1>1, ClientStores, IssuerStores
  <1>2. ASSUME NEW t \in Call, Retry(t) PROVE StoreStep
    BY <1>2 DEF Retry
  <1>3. ASSUME NEW a \in Account, PatExpires(a) PROVE StoreStep
    BY <1>3 DEF PatExpires
  <1>4. ASSUME NEW a \in Account, CacheExpires(a) PROVE StoreStep
    BY <1>4 DEF CacheExpires
  <1>5. ASSUME NEW r \in Resource \ {Root}, NEW a \in Account,
               Create(r, a) \/ Delete(r, a) \/ Reregister(r, a) \/ Unregister(r, a)
        PROVE  StoreStep
    BY <1>5 DEF Create, Delete, Reregister, Unregister, NewCall
  <1>6. ASSUME NEW T \in Targets, NEW a \in Account, Access(T, a) PROVE StoreStep
    BY <1>6 DEF Access, NewCall
  <1>7. ASSUME NEW r \in Resource \ {Root}, Unseen(r) PROVE StoreStep
    BY <1>7 DEF Unseen
  <1>8. CASE UNCHANGED vars
    BY <1>8 DEF vars
  <1>9. QED
    BY <1>1, <1>2, <1>3, <1>4, <1>5, <1>6, <1>7, <1>8 DEF OpenNext, Environment

\* A step of a call makes no resource, has no part in the calls of the rest of
\* the server, and loses no response.
LEMMA StepKeepsServer ==
  ASSUME NEW t \in Call, Step(t)
  PROVE  UNCHANGED serverVars
  <1> USE DEF clientVars, callVars, serverVars, asVars
  <1>1. CASE ConfigFails(t) \/ ConfigRead(t) \/ PatStep(t)
    BY <1>1 DEF ConfigFails, ConfigRead, PatStep, GetPat, PatConfigRead,
                PatConfigFails, PatRefused, PatIssued, PatReceived
  <1>2. CASE RegisterStep(t)
    BY <1>2 DEF RegisterStep, Begin, SendRegistration, HandleRegistration,
                RegistrationAnswered, Join, RejectEarly
  <1>3. CASE TicketStep(t)
    BY <1>3 DEF TicketStep, Lookup, Timeout, Woken, Probe, Registered
  <1>4. CASE RequestStep(t)
    BY <1>4 DEF RequestStep, Send, HandleTicket, HandleDelete, Answered
  <1>5. QED
    BY <1>1, <1>2, <1>3, <1>4 DEF Step

\* Responses are lost one at a time.
LEMMA LostStep ==
  ASSUME [OpenNext]_vars
  PROVE  lost' = lost \/ (lost < MaxLost /\ lost' = lost + 1)
  <1> USE DEF clientVars, callVars, serverVars, asVars
  <1>1. ASSUME NEW t \in Call, Retry(t) PROVE lost < MaxLost /\ lost' = lost + 1
    BY <1>1 DEF Retry
  <1>2. ASSUME NEW a \in Account, PatExpires(a) \/ CacheExpires(a) PROVE lost' = lost
    BY <1>2 DEF PatExpires, CacheExpires
  <1>3. ASSUME NEW r \in Resource \ {Root}, NEW a \in Account,
               Create(r, a) \/ Delete(r, a) \/ Reregister(r, a) \/ Unregister(r, a)
        PROVE  lost' = lost
    BY <1>3 DEF Create, Delete, Reregister, Unregister, NewCall
  <1>4. ASSUME NEW T \in Targets, NEW a \in Account, Access(T, a) PROVE lost' = lost
    BY <1>4 DEF Access, NewCall
  <1>5. ASSUME NEW r \in Resource \ {Root}, Unseen(r) PROVE lost' = lost
    BY <1>5 DEF Unseen
  <1>6. CASE UNCHANGED vars
    BY <1>6 DEF vars
  <1>7. QED
    BY <1>1, <1>2, <1>3, <1>4, <1>5, <1>6, StepKeepsServer DEF OpenNext, Environment

\* All that the proofs below look at of a step.
LEMMA StepEffects ==
  ASSUME LockInv, [OpenNext]_vars
  PROVE  /\ CallStep /\ StoreStep /\ LockInv'
         /\ lost' \in {lost, lost + 1} /\ (lost' # lost => lost < MaxLost)
  BY EveryCallSteps, EveryStoreSteps, LostStep, TypeStep, LockStep DEF LockInv, TypeOK

\* Resources, accounts and issuers of a call in use.
LEMMA CallTypes ==
  ASSUME TypeOK, NEW t \in Call
  PROVE  /\ frame[t] \in Frame /\ frame[t].res \in Resource /\ frame[t].pat \in Nat
         /\ frame[t].known \in BOOLEAN /\ frame[t].ok \in BOOLEAN
         /\ pc[t] # "free" => /\ frame[t].acct \in Account
                              /\ IssuerOf[frame[t].acct] \in Issuer
  BY FrameFields, AccountAssumption DEF TypeOK, CallsTyped

-----------------------------------------------------------------------------
(* Identifiers.                                                             *)

\* The points of a call that knows its issuer and has its main request to do.
Requesting == {"pat", "waitPat", "patConfig", "patSent", "patAnswered", "send", "sent",
               "answered"}

\* deleteResource has an identifier to delete.
DeletesKnown ==
  \A t \in Call : frame[t].kind = "delete" /\ pc[t] \in Requesting
    => frame[t].res \in umaIdStore

\* registerResource has stored the identifier when it awaits its children.
JoinsKnown == \A t \in Call : pc[t] = "join" => frame[t].res \in umaIdStore

\* Issuer i has r, and its collection if it is a container.
Honoured(i, r) ==
  /\ registrations[i][r] # Nobody
  /\ r \in Container => r \in collections[i]

\* Issuer i accepted a request of t to register r; t has not seen the answer.
Accepted(t, i, r) ==
  /\ pc[t] = "answered" /\ frame[t].kind = "register" /\ frame[t].ok
  /\ frame[t].res = r /\ IssuerOf[frame[t].acct] = i

\* An answer on its way to a client that has no identifier yet still holds:
\* nobody can have unregistered what nobody has an identifier of.
AcceptedHonoured ==
  \A t \in Call, i \in Issuer, r \in Resource :
    Accepted(t, i, r) => r \in umaIdStore \/ Honoured(i, r)

\* Inductive for IdsHonoured.
IdsInv == LockInv /\ DeletesKnown /\ JoinsKnown /\ AcceptedHonoured

\* Identifiers are never forgotten.
LEMMA IdsGrow == IdsStep => umaIdStore \subseteq umaIdStore'
  BY DEF IdsStep

\* IdsInv is inductive.
LEMMA IdsInvStep == IdsInv /\ [OpenNext]_vars => IdsInv'
  <1> SUFFICES ASSUME IdsInv, [OpenNext]_vars PROVE IdsInv'
    OBVIOUS
  <1>1. /\ LockInv /\ LockInv' /\ TypeOK /\ TypeOK'
        /\ CallStep /\ IdsStep /\ RegistryStep
        /\ umaIdStore \subseteq umaIdStore'
    BY StepEffects, IdsGrow DEF IdsInv, StoreStep, LockInv
  <1>2. DeletesKnown'
    <2> SUFFICES ASSUME NEW u \in Call, frame'[u].kind = "delete", pc'[u] \in Requesting
                 PROVE  frame'[u].res \in umaIdStore'
      BY DEF DeletesKnown
    <2>1. CASE Stays(u)
      BY <1>1, <2>1 DEF Stays, SameJob, IdsInv, DeletesKnown
    <2>2. CASE Moves(u)
      <3>1. frame[u].kind = "delete" /\ frame'[u].res = frame[u].res
        BY <2>2 DEF Moves, Assigned
      <3>2. pc[u] \in Requesting \/ pc[u] = "config" \/ pc[u] \in Ticketing
        BY <2>2 DEF Moves, Edge, Requesting, Ticketing
      <3>3. pc[u] \notin Ticketing
        BY <1>1, <3>1 DEF LockInv, OnlyTickets
      <3>4. frame[u].res \in umaIdStore
        BY <2>2, <3>1, <3>2, <3>3 DEF Moves, Passed, IdsInv, DeletesKnown
      <3>5. QED
        BY <1>1, <3>1, <3>4
    <2>3. ~Ends(u) /\ ~Starts(u)
      BY DEF Ends, MayEnd, Starts, FromServer, FromChild, FromTicket, Requesting
    <2>4. QED
      BY <1>1, <2>1, <2>2, <2>3 DEF CallStep
  <1>3. JoinsKnown'
    <2> SUFFICES ASSUME NEW u \in Call, pc'[u] = "join"
                 PROVE  frame'[u].res \in umaIdStore'
      BY DEF JoinsKnown
    <2>1. CASE Stays(u)
      BY <1>1, <2>1 DEF Stays, SameJob, IdsInv, JoinsKnown
    <2>2. CASE Moves(u)
      BY <2>2 DEF Moves, Assigned, Passed
    <2>3. ~Ends(u) /\ ~Starts(u)
      BY DEF Ends, MayEnd, Starts, FromServer, FromChild, FromTicket, Enter
    <2>4. QED
      BY <1>1, <2>1, <2>2, <2>3 DEF CallStep
  <1>4. ASSUME NEW i \in Issuer, NEW r \in Resource, Honoured(i, r), r \notin umaIdStore
        PROVE  Honoured(i, r)'
    <2>1. CASE UNCHANGED <<registrations, relations, collections>>
      BY <1>4, <2>1 DEF Honoured
    <2>2. ASSUME NEW t \in Call, Accepts(t) PROVE Honoured(i, r)'
      BY <1>1, <1>4, <2>2, CallTypes, AccountAssumption DEF Accepts, Honoured, TypeOK
    <2>3. ASSUME NEW t \in Call, Deletes(t) PROVE Honoured(i, r)'
      <3>1. frame[t].res # r
        BY <1>4, <2>3 DEF Deletes, Requesting, IdsInv, DeletesKnown
      <3>2. QED
        BY <1>1, <1>4, <2>3, <3>1, CallTypes DEF Deletes, Honoured, TypeOK
    <2>4. QED
      BY <1>1, <2>1, <2>2, <2>3 DEF RegistryStep
  <1>5. AcceptedHonoured'
    <2> SUFFICES ASSUME NEW u \in Call, NEW i \in Issuer, NEW r \in Resource,
                        Accepted(u, i, r)'
                 PROVE  r \in umaIdStore' \/ Honoured(i, r)'
      BY DEF AcceptedHonoured
    <2>1. CASE Stays(u)
      <3>1. Accepted(u, i, r)
        BY <2>1 DEF Stays, SameJob, Accepted
      <3>2. QED
        BY <1>1, <1>4, <3>1 DEF IdsInv, AcceptedHonoured
    <2>2. CASE Moves(u)
      <3>1. Accepts(u) /\ frame[u].res = r /\ IssuerOf[frame[u].acct] = i
        BY <2>2 DEF Moves, Edge, Assigned, Passed, Ticketing, Accepted
      <3>2. frame[u].acct \in Account
        BY <1>1, <3>1, CallTypes DEF Accepts
      <3>3. QED
        BY <1>1, <3>1, <3>2, AccountAssumption DEF Accepts, Honoured, TypeOK
    <2>3. ~Ends(u) /\ ~Starts(u)
      BY DEF Ends, MayEnd, Starts, FromServer, FromChild, FromTicket, Enter, Accepted
    <2>4. QED
      BY <1>1, <2>1, <2>2, <2>3 DEF CallStep
  <1>6. QED
    BY <1>1, <1>2, <1>3, <1>5 DEF IdsInv

\* It holds initially,
LEMMA InitIds == Init => IdsInv
  BY InitLocks DEF Init, IdsInv, DeletesKnown, JoinsKnown, AcceptedHonoured, Accepted, Requesting

\* and always.
LEMMA IdsHold == OpenSpec => []IdsInv
  BY InitIds, IdsInvStep, PTL DEF OpenSpec

\* The step that stores an identifier is one of registerResource that saw the
\* issuer accept it.
LEMMA IdsHonouredStep ==
  ASSUME IdsInv, [OpenNext]_vars, NEW r \in umaIdStore' \ umaIdStore
  PROVE  \E i \in Issuer : Honoured(i, r)
  <1>1. IdsStep /\ TypeOK
    BY StepEffects DEF IdsInv, StoreStep, LockInv
  <1>2. PICK t \in Call : /\ pc[t] = "answered" /\ frame[t].kind = "register"
                          /\ frame[t].ok /\ frame[t].res = r
    BY <1>1 DEF IdsStep
  <1>3. IssuerOf[frame[t].acct] \in Issuer /\ r \in Resource
    BY <1>1, <1>2, CallTypes
  <1>4. QED
    BY <1>2, <1>3 DEF IdsInv, AcceptedHonoured, Accepted

\* The client takes note of an identifier only if an issuer has the resource,
\* and its collection if it is a container: whatever was lost, repeated or
\* asked for by other calls between the issuer's answer and its arrival.
THEOREM IdentifiersAreHonoured == OpenSpec => IdsHonoured
  <1>1. IdsInv /\ [OpenNext]_vars =>
          [\A r \in umaIdStore' \ umaIdStore : \E i \in Issuer :
             /\ registrations[i][r] # Nobody
             /\ r \in Container => r \in collections[i]]_vars
    BY IdsHonouredStep DEF Honoured
  <1>2. QED
    BY <1>1, IdsHold, PTL DEF OpenSpec, IdsHonoured

-----------------------------------------------------------------------------
(* PATs.                                                                    *)

\* The points of a call that has its PAT.
Carrying == {"send", "sent", "answered"}

\* The numbers of PATs: an issuer has handed out what is cached or carried.
PatsNumbered ==
  /\ \A a \in Account : patStorage[a] <= issuedPat[a]
  /\ \A a \in livePat : issuedPat[a] > 0
  /\ \A t \in Call : pc[t] # "free" => frame[t].pat <= issuedPat[frame[t].acct]

\* A PAT is asked for when there is none in the cache.
AskedUncached == \A t \in Call : pc[t] \in AskingPat => patStorage[frame[t].acct] = 0

\* A PAT that is carried and valid is the one in the cache.
CarriedCached ==
  \A t \in Call : pc[t] \in Carrying /\ PatValid(t)
    => patStorage[frame[t].acct] = issuedPat[frame[t].acct]

\* Inductive for PatNotOverwritten.
PatInv == LockInv /\ PatsNumbered /\ AskedUncached /\ CarriedCached

\* The numbers of the PATs grow.
LEMMA IssuedGrows ==
  ASSUME TypeOK, IssuedStep, NEW a \in Account
  PROVE  issuedPat[a] \in Nat /\ issuedPat'[a] \in Nat /\ issuedPat[a] <= issuedPat'[a]
  <1>1. CASE UNCHANGED issuedPat
    BY <1>1 DEF TypeOK
  <1>2. ASSUME NEW t \in Call, pc[t] = "patSent",
               issuedPat' = [issuedPat EXCEPT ![frame[t].acct] = @ + 1]
        PROVE  issuedPat[a] \in Nat /\ issuedPat'[a] \in Nat /\ issuedPat[a] <= issuedPat'[a]
    BY <1>2, CallTypes DEF TypeOK
  <1>3. QED
    BY <1>1, <1>2 DEF IssuedStep

\* PatInv is inductive.
LEMMA PatInvStep == PatInv /\ [OpenNext]_vars => PatInv'
  <1> SUFFICES ASSUME PatInv, [OpenNext]_vars PROVE PatInv'
    OBVIOUS
  <1>1. /\ LockInv /\ LockInv' /\ TypeOK /\ TypeOK'
        /\ CallStep /\ CacheStep /\ IssuedStep
    BY StepEffects DEF PatInv, StoreStep, LockInv
  <1>2. \A a \in Account : /\ issuedPat[a] \in Nat /\ issuedPat'[a] \in Nat
                           /\ issuedPat[a] <= issuedPat'[a]
                           /\ patStorage[a] \in Nat /\ patStorage'[a] \in Nat
    BY <1>1, IssuedGrows DEF TypeOK
  <1>3. PatsNumbered'
    <2>1. ASSUME NEW a \in Account PROVE patStorage'[a] <= issuedPat'[a]
      <3>1. CASE UNCHANGED patStorage
        BY <1>2, <3>1 DEF PatInv, PatsNumbered
      <3>2. ASSUME NEW t \in Call, pc[t] = "patAnswered",
                   patStorage' = [patStorage EXCEPT ![frame[t].acct] = frame[t].pat]
            PROVE  patStorage'[a] <= issuedPat'[a]
        <4>1. frame[t].acct \in Account /\ frame[t].pat \in Nat
          BY <1>1, <3>2, CallTypes
        <4>2. frame[t].pat <= issuedPat[frame[t].acct] /\ patStorage[a] <= issuedPat[a]
          BY <3>2 DEF PatInv, PatsNumbered
        <4>3. patStorage'[a] = IF a = frame[t].acct THEN frame[t].pat ELSE patStorage[a]
          BY <1>1, <3>2, <4>1 DEF TypeOK
        <4>4. QED
          BY <1>2, <4>1, <4>2, <4>3
      <3>3. ASSUME NEW b \in Account, patStorage' = [patStorage EXCEPT ![b] = 0]
            PROVE  patStorage'[a] <= issuedPat'[a]
        BY <1>1, <1>2, <3>3 DEF PatInv, PatsNumbered, TypeOK
      <3>4. QED
        BY <1>1, <3>1, <3>2, <3>3 DEF CacheStep
    <2>2. ASSUME NEW a \in livePat' PROVE issuedPat'[a] > 0
      <3>1. a \in Account
        BY <1>1 DEF TypeOK
      <3>2. CASE a \in livePat
        BY <1>2, <3>1, <3>2 DEF PatInv, PatsNumbered
      <3>3. CASE a \notin livePat
        <4>1. PICK t \in Call : /\ pc[t] = "patSent" /\ a = frame[t].acct
                                /\ issuedPat' = [issuedPat EXCEPT ![a] = @ + 1]
          BY <1>1, <3>3 DEF IssuedStep
        <4>2. QED
          BY <1>1, <1>2, <3>1, <4>1 DEF TypeOK
      <3>4. QED
        BY <3>2, <3>3
    <2>3. ASSUME NEW u \in Call, pc'[u] # "free"
          PROVE  frame'[u].pat <= issuedPat'[frame'[u].acct]
      <3>0. frame'[u].acct \in Account /\ frame'[u].pat \in Nat
        BY <1>1, <2>3, FrameFields DEF TypeOK, CallsTyped
      <3>1. CASE /\ frame'[u].pat = frame[u].pat /\ frame'[u].acct = frame[u].acct
                 /\ pc[u] # "free"
        <4>1. frame[u].pat <= issuedPat[frame[u].acct] /\ frame[u].pat \in Nat
          BY <1>1, <3>1, CallTypes DEF PatInv, PatsNumbered
        <4>2. QED
          BY <1>2, <3>0, <3>1, <4>1
      <3>2. CASE Stays(u)
        BY <2>3, <3>1, <3>2 DEF Stays, SameJob
      <3>3. CASE Moves(u)
        <4>1. frame'[u].acct = frame[u].acct /\ pc[u] # "free"
          BY <3>3 DEF Moves, Assigned
        <4>2. CASE pc[u] = "pat" /\ pc'[u] = "send"
          <5>1. frame'[u].pat = patStorage[frame[u].acct]
            BY <3>3, <4>2 DEF Moves, Passed
          <5>2. patStorage[frame[u].acct] <= issuedPat[frame[u].acct]
            BY <3>0, <4>1 DEF PatInv, PatsNumbered
          <5>3. QED
            BY <1>2, <3>0, <4>1, <5>1, <5>2
        <4>3. CASE pc[u] = "patSent" /\ pc'[u] = "patAnswered"
          BY <1>1, <1>2, <3>0, <3>3, <4>1, <4>3 DEF Moves, Passed, TypeOK
        <4>4. QED
          BY <3>1, <3>3, <4>1, <4>2, <4>3 DEF Moves, Assigned
      <3>4. CASE Starts(u)
        BY <1>2, <3>0, <3>4 DEF Starts
      <3>5. QED
        BY <1>1, <2>3, <3>2, <3>3, <3>4 DEF CallStep, Ends, MayEnd
    <2>4. QED
      BY <2>1, <2>2, <2>3 DEF PatsNumbered
  <1>4. AskedUncached'
    <2> SUFFICES ASSUME NEW u \in Call, pc'[u] \in AskingPat
                 PROVE  patStorage'[frame'[u].acct] = 0
      BY DEF AskedUncached
    <2>1. /\ frame'[u].acct = frame[u].acct /\ frame[u].acct \in Account
          /\ patStorage[frame[u].acct] = 0
      <3>1. CASE Stays(u)
        BY <1>1, <3>1, CallTypes DEF Stays, SameJob, PatInv, AskedUncached, AskingPat
      <3>2. CASE Moves(u)
        <4>1. pc[u] # "free" /\ frame'[u].acct = frame[u].acct /\ frame[u].acct \in Account
          BY <1>1, <3>2, CallTypes DEF Moves, Assigned
        <4>2. pc[u] \in AskingPat \/ (pc[u] = "pat" /\ pc'[u] = "patConfig")
          BY <3>2 DEF Moves, Edge, AskingPat, Ticketing
        <4>3. QED
          BY <3>2, <4>1, <4>2 DEF Moves, Passed, PatInv, AskedUncached
      <3>3. ~Ends(u) /\ ~Starts(u)
        BY DEF Ends, MayEnd, Starts, FromServer, FromChild, FromTicket, Enter, AskingPat
      <3>4. QED
        BY <1>1, <3>1, <3>2, <3>3 DEF CallStep
    <2>2. CASE UNCHANGED patStorage
      BY <2>1, <2>2
    <2>3. ASSUME NEW t \in Call, pc[t] = "patAnswered", pc'[t] = "send"
          PROVE  FALSE
      <3>1. PatEvent \in inProgress /\ \A v \in Call : pc[v] \in AskingPat => v = t
        BY <1>1, <2>3 DEF LockInv, ExclusivePat, AskingPat
      <3>2. u # t
        BY <2>3 DEF AskingPat
      <3>3. pc[u] \notin AskingPat
        BY <3>1, <3>2
      <3>4. Moves(u) /\ pc[u] = "pat" /\ pc'[u] = "patConfig"
        BY <1>1, <3>3 DEF CallStep, Stays, Ends, MayEnd, Starts, FromServer, FromChild, FromTicket,
                          Enter, Moves, Edge, AskingPat, Ticketing
      <3>5. QED
        BY <3>1, <3>4 DEF Moves, Passed, PatUnderway
    <2>4. ASSUME NEW a \in Account, patStorage' = [patStorage EXCEPT ![a] = 0]
          PROVE  patStorage'[frame'[u].acct] = 0
      BY <1>1, <2>1, <2>4 DEF TypeOK
    <2>5. QED
      BY <1>1, <2>2, <2>3, <2>4 DEF CacheStep
  <1>5. ASSUME NEW a \in Account, patStorage[a] = issuedPat[a], a \in livePat,
               issuedPat'[a] = issuedPat[a]
        PROVE  patStorage'[a] = issuedPat'[a]
    <2>1. issuedPat[a] > 0
      BY <1>5 DEF PatInv, PatsNumbered
    <2>2. CASE UNCHANGED patStorage
      BY <1>5, <2>2
    <2>3. ASSUME NEW t \in Call, pc[t] = "patAnswered",
                 patStorage' = [patStorage EXCEPT ![frame[t].acct] = frame[t].pat]
          PROVE  patStorage'[a] = issuedPat'[a]
      <3>1. patStorage[frame[t].acct] = 0
        BY <2>3 DEF PatInv, AskedUncached, AskingPat
      <3>2. frame[t].acct # a
        BY <1>2, <1>5, <2>1, <3>1
      <3>3. QED
        BY <1>1, <1>5, <2>3, <3>2 DEF TypeOK
    <2>4. ASSUME NEW b \in Account \ livePat, patStorage' = [patStorage EXCEPT ![b] = 0]
          PROVE  patStorage'[a] = issuedPat'[a]
      BY <1>1, <1>5, <2>4 DEF TypeOK
    <2>5. QED
      BY <1>1, <2>2, <2>3, <2>4 DEF CacheStep
  <1>6. CarriedCached'
    <2> SUFFICES ASSUME NEW u \in Call, pc'[u] \in Carrying, PatValid(u)'
                 PROVE  patStorage'[frame'[u].acct] = issuedPat'[frame'[u].acct]
      BY DEF CarriedCached
    <2> DEFINE a == frame[u].acct
    <2>0. ~Ends(u) /\ ~Starts(u)
      BY DEF Ends, MayEnd, Starts, FromServer, FromChild, FromTicket, Enter, Carrying
    <2>1. /\ a \in Account /\ frame'[u].acct = a /\ pc[u] # "free"
          /\ frame'[u].pat = issuedPat'[a] /\ a \in livePat'
      <3>1. pc[u] # "free" /\ frame'[u].acct = a
        BY <1>1, <2>0 DEF CallStep, Stays, SameJob, Moves, Assigned, Carrying
      <3>2. QED
        BY <1>1, <3>1, CallTypes DEF PatValid
    <2>2. ASSUME frame'[u].pat <= issuedPat[a]
          PROVE  a \in livePat /\ issuedPat'[a] = issuedPat[a]
      <3>1. issuedPat'[a] = issuedPat[a]
        BY <1>2, <2>1, <2>2
      <3>2. ASSUME NEW t \in Call, pc[t] = "patSent",
                   issuedPat' = [issuedPat EXCEPT ![frame[t].acct] = @ + 1],
                   livePat' = livePat \cup {frame[t].acct}
            PROVE  a \in livePat
        <4>1. frame[t].acct \in Account
          BY <1>1, <3>2, CallTypes
        <4>2. issuedPat'[frame[t].acct] = issuedPat[frame[t].acct] + 1
          BY <1>1, <3>2, <4>1 DEF TypeOK
        <4>3. frame[t].acct # a
          BY <1>2, <2>1, <3>1, <4>1, <4>2
        <4>4. QED
          BY <2>1, <3>2, <4>3
      <3>3. a \in livePat
        BY <1>1, <2>1, <3>2 DEF IssuedStep
      <3>4. QED
        BY <3>1, <3>3
    <2>3. CASE pc[u] \in Carrying /\ frame'[u].pat = frame[u].pat
      <3>1. frame[u].pat <= issuedPat[a]
        BY <2>1, CallTypes DEF PatInv, PatsNumbered
      <3>2. a \in livePat /\ issuedPat'[a] = issuedPat[a]
        BY <2>2, <2>3, <3>1
      <3>3. patStorage[a] = issuedPat[a]
        BY <2>1, <2>3, <3>2 DEF PatInv, CarriedCached, PatValid
      <3>4. QED
        BY <1>5, <2>1, <3>2, <3>3
    <2>4. CASE Stays(u)
      BY <2>3, <2>4 DEF Stays, SameJob
    <2>5. CASE Moves(u)
      <3>1. CASE pc[u] = "pat" /\ pc'[u] = "send"
        <4>1. frame'[u].pat = patStorage[a] /\ patStorage[a] <= issuedPat[a]
          BY <2>1, <2>5, <3>1 DEF Moves, Passed, PatInv, PatsNumbered
        <4>2. a \in livePat /\ issuedPat'[a] = issuedPat[a]
          BY <2>2, <4>1
        <4>3. QED
          BY <1>5, <2>1, <4>1, <4>2
      <3>2. CASE pc[u] = "patAnswered" /\ pc'[u] = "send"
        <4>1. patStorage' = [patStorage EXCEPT ![a] = frame[u].pat]
          BY <2>5, <3>2 DEF Moves, Passed
        <4>2. frame'[u].pat = frame[u].pat
          BY <2>5, <3>2 DEF Moves, Assigned
        <4>3. QED
          BY <1>1, <2>1, <4>1, <4>2 DEF TypeOK
      <3>3. CASE pc[u] \in Carrying
        BY <2>3, <2>5, <3>3 DEF Moves, Assigned, Carrying
      <3>4. QED
        BY <2>5, <3>1, <3>2, <3>3 DEF Moves, Edge, Carrying, Ticketing
    <2>6. QED
      BY <1>1, <2>0, <2>4, <2>5 DEF CallStep
  <1>7. QED
    BY <1>1, <1>3, <1>4, <1>6 DEF PatInv

\* It holds initially,
LEMMA InitPats == Init => PatInv
  BY InitLocks DEF Init, PatInv, PatsNumbered, AskedUncached, CarriedCached, AskingPat, Carrying

\* and always.
LEMMA PatsHold == OpenSpec => []PatInv
  BY InitPats, PatInvStep, PTL DEF OpenSpec

\* Who gets a new PAT had none in the cache; a call that carries a valid one
\* has.
LEMMA NotOverwrittenStep ==
  ASSUME PatInv, [OpenNext]_vars, NEW t \in Call, pc[t] \in {"send", "sent"}, PatValid(t)
  PROVE  issuedPat'[frame[t].acct] = issuedPat[frame[t].acct]
  <1> DEFINE a == frame[t].acct
  <1>1. TypeOK /\ IssuedStep /\ a \in Account
    BY StepEffects, CallTypes DEF PatInv, StoreStep, LockInv
  <1>2. patStorage[a] = issuedPat[a] /\ issuedPat[a] > 0
    BY DEF PatInv, PatsNumbered, CarriedCached, Carrying, PatValid
  <1>3. ASSUME NEW u \in Call, pc[u] = "patSent" PROVE frame[u].acct # a
    <2>1. patStorage[frame[u].acct] = 0
      BY <1>3 DEF PatInv, AskedUncached, AskingPat
    <2>2. QED
      BY <1>1, <1>2, <2>1 DEF TypeOK
  <1>4. QED
    BY <1>1, <1>3 DEF IssuedStep, TypeOK

\* The valid PAT a request carries, or is about to carry, is not replaced by
\* another one: who asks for a PAT has found none in the cache (getPat).
THEOREM CarriedPatIsKept == OpenSpec => PatNotOverwritten
  <1>1. PatInv /\ [OpenNext]_vars =>
          [\A t \in Call :
             /\ pc[t] \in {"send", "sent"}
             /\ PatValid(t)
             /\ frame[t].acct \in livePat'
             => issuedPat'[frame[t].acct] = issuedPat[frame[t].acct]]_vars
    BY NotOverwrittenStep
  <1>2. QED
    BY <1>1, PatsHold, PTL DEF OpenSpec, PatNotOverwritten

-----------------------------------------------------------------------------
(* Registrations are not made twice.                                        *)

\* Nobody else learns the identifier while a call registers its resource.
KnownMeant ==
  \A t \in Call : frame[t].kind = "register" /\ pc[t] \in Requesting
    => frame[t].known = (frame[t].res \in umaIdStore)

\* t registered r; it has not seen the answer.
Arriving(t, r) ==
  pc[t] = "answered" /\ frame[t].kind = "register" /\ frame[t].ok /\ frame[t].res = r

\* As long as no response is lost, the client knows what is registered, or is
\* about to.
RegisteredKnown ==
  lost = 0 => \A i \in Issuer, r \in Resource :
    registrations[i][r] # Nobody => r \in umaIdStore \/ \E t \in Call : Arriving(t, r)

\* Inductive for NoDuplicateRegistration.
KnownInv == LockInv /\ KnownMeant /\ RegisteredKnown

\* An identifier is stored by a call that holds the path of its resource.
LEMMA KnownMeantStep == LockInv /\ KnownMeant /\ [OpenNext]_vars => KnownMeant'
  <1> SUFFICES ASSUME LockInv, KnownMeant, [OpenNext]_vars,
                      NEW u \in Call, frame'[u].kind = "register", pc'[u] \in Requesting
               PROVE  frame'[u].known = (frame'[u].res \in umaIdStore')
    BY DEF KnownMeant
  <1> DEFINE r == frame[u].res
  <1>1. CallStep /\ IdsStep /\ TypeOK
    BY StepEffects DEF StoreStep, LockInv
  <1>2. /\ frame'[u].res = r /\ r \in Resource /\ Holds(u, r)
        /\ frame'[u].known = (r \in umaIdStore)
    <2>1. CASE Stays(u)
      BY <1>1, <2>1, CallTypes DEF Stays, SameJob, KnownMeant, Holds, Requesting, Working
    <2>2. CASE Moves(u)
      <3>1. frame[u].kind = "register" /\ frame'[u].res = r /\ r \in Resource
        BY <1>1, <2>2, CallTypes DEF Moves, Assigned
      <3>2. pc[u] \notin Ticketing
        BY <3>1 DEF LockInv, OnlyTickets
      <3>3. pc[u] \in Requesting \/ (pc[u] = "config" /\ pc'[u] = "pat")
        BY <2>2, <3>1, <3>2 DEF Moves, Edge, Passed, Requesting, Ticketing
      <3>4. QED
        BY <2>2, <3>1, <3>3
        DEF Moves, Assigned, Passed, KnownMeant, Holds, Requesting, Working
    <2>3. ~Ends(u) /\ ~Starts(u)
      BY DEF Ends, MayEnd, Starts, FromServer, FromChild, FromTicket, Enter, Requesting
    <2>4. QED
      BY <1>1, <2>1, <2>2, <2>3 DEF CallStep
  <1>3. ASSUME NEW t \in Call, pc[t] = "answered", pc'[t] = "join",
               frame[t].kind = "register", frame[t].res = r
        PROVE  FALSE
    <2>1. Holds(t, r)
      BY <1>3 DEF Holds, Working
    <2>2. t = u
      BY <1>2, <2>1 DEF LockInv, ExclusiveRegistration
    <2>3. QED
      BY <1>3, <2>2 DEF Requesting
  <1>4. (r \in umaIdStore') = (r \in umaIdStore)
    BY <1>1, <1>3 DEF IdsStep
  <1>5. QED
    BY <1>2, <1>4

\* KnownInv is inductive.
LEMMA KnownInvStep == KnownInv /\ [OpenNext]_vars => KnownInv'
  <1> SUFFICES ASSUME KnownInv, [OpenNext]_vars PROVE KnownInv'
    OBVIOUS
  <1>1. /\ LockInv /\ LockInv' /\ TypeOK
        /\ CallStep /\ IdsStep /\ RegistryStep
        /\ lost' \in {lost, lost + 1} /\ lost \in Nat
        /\ umaIdStore \subseteq umaIdStore'
    BY StepEffects, IdsGrow DEF KnownInv, StoreStep, LockInv, TypeOK
  <1>2. ASSUME lost' = 0, NEW i \in Issuer, NEW r \in Resource,
               registrations'[i][r] # Nobody
        PROVE  r \in umaIdStore' \/ \E t \in Call : Arriving(t, r)'
    <2>1. ASSUME registrations[i][r] # Nobody
          PROVE  r \in umaIdStore' \/ \E t \in Call : Arriving(t, r)'
      <3>1. lost = 0
        BY <1>1, <1>2
      <3>2. CASE r \in umaIdStore
        BY <1>1, <3>2
      <3>3. ASSUME NEW t \in Call, Arriving(t, r)
            PROVE  r \in umaIdStore' \/ Arriving(t, r)'
        <4>1. CASE Stays(t)
          BY <3>3, <4>1 DEF Stays, SameJob, Arriving
        <4>2. CASE Moves(t)
          BY <1>1, <1>2, <3>1, <3>3, <4>2 DEF Moves, Edge, Passed, Arriving, Ticketing
        <4>3. ~Ends(t) /\ ~Starts(t)
          BY <3>3 DEF Ends, MayEnd, Starts, Arriving
        <4>4. QED
          BY <1>1, <4>1, <4>2, <4>3 DEF CallStep
      <3>4. QED
        BY <2>1, <3>1, <3>2, <3>3 DEF KnownInv, RegisteredKnown
    <2>2. CASE UNCHANGED registrations
      BY <1>2, <2>1, <2>2
    <2>3. ASSUME NEW t \in Call, Deletes(t)
          PROVE  registrations[i][r] # Nobody
      BY <1>1, <1>2, <2>3, CallTypes DEF Deletes, TypeOK
    <2>4. ASSUME NEW t \in Call, Accepts(t), registrations[i][r] = Nobody
          PROVE  Arriving(t, r)'
      <3>1. frame[t].res = r
        BY <1>1, <1>2, <2>4, CallTypes DEF Accepts, TypeOK
      <3>2. frame'[t].res = r /\ frame'[t].kind = "register"
        BY <1>1, <2>4, <3>1
        DEF Accepts, CallStep, Stays, Ends, MayEnd, Starts, Moves, Assigned
      <3>3. QED
        BY <2>4, <3>2 DEF Accepts, Arriving
    <2>5. QED
      BY <1>1, <2>1, <2>2, <2>3, <2>4 DEF RegistryStep
  <1>3. QED
    BY <1>1, <1>2, KnownMeantStep DEF KnownInv, RegisteredKnown

\* It holds initially,
LEMMA InitKnown == Init => KnownInv
  BY InitLocks DEF Init, KnownInv, KnownMeant, RegisteredKnown, Requesting

\* and always.
LEMMA KnownHolds == OpenSpec => []KnownInv
  BY InitKnown, KnownInvStep, PTL DEF OpenSpec

\* Who does not know the resource is the one registering it: its registration
\* could only be one the client knows of, or one arriving at another call that
\* holds the same path.
LEMMA KnownNotTwice == KnownInv /\ lost = 0 => NoDuplicateRegistration
  <1> SUFFICES ASSUME KnownInv, lost = 0,
                      NEW t \in Call, pc[t] = "sent", frame[t].kind = "register",
                      ~frame[t].known,
                      registrations[IssuerOf[frame[t].acct]][frame[t].res] # Nobody
               PROVE  FALSE
    BY DEF NoDuplicateRegistration
  <1> DEFINE r == frame[t].res
  <1>1. r \in Resource /\ IssuerOf[frame[t].acct] \in Issuer
    BY CallTypes DEF KnownInv, LockInv
  <1>2. r \notin umaIdStore
    BY DEF KnownInv, KnownMeant, Requesting
  <1>3. PICK u \in Call : Arriving(u, r)
    BY <1>1, <1>2 DEF KnownInv, RegisteredKnown
  <1>4. Holds(t, r) /\ Holds(u, r)
    BY <1>3 DEF Holds, Working, Arriving
  <1>5. QED
    BY <1>1, <1>3, <1>4 DEF KnownInv, LockInv, ExclusiveRegistration, Arriving

\* As long as no response is lost the issuer is never asked to create what it
\* knows already: inProgress, umaIdStore and the test of knownUmaId keep the
\* client from the 409 of handlePost, whoever calls registerResource and when.
THEOREM NothingIsRegisteredTwice == OpenSpec => [](lost = 0 => NoDuplicateRegistration)
  BY KnownHolds, KnownNotTwice, PTL

-----------------------------------------------------------------------------
(* Each issuer is a ResourceRegistry.                                       *)

\* A relation to a parent is only told of what has one.
LinkedBelow ==
  \A t \in Call : frame[t].linked => frame[t].kind = "register" /\ frame[t].res # Root

\* Inductive for FollowsRegistry.
RegistryInv == LockInv /\ LinkedBelow

\* RegistryInv is inductive.
LEMMA LinkedBelowStep == RegistryInv /\ [OpenNext]_vars => RegistryInv'
  <1> SUFFICES ASSUME RegistryInv, [OpenNext]_vars, NEW u \in Call, frame'[u].linked
               PROVE  frame'[u].kind = "register" /\ frame'[u].res # Root
    BY StepEffects DEF RegistryInv, LinkedBelow
  <1>1. CallStep /\ TypeOK /\ OnlyTickets /\ LockInv
    BY StepEffects DEF RegistryInv, LockInv
  <1>2. CASE Stays(u)
    BY <1>2 DEF Stays, SameJob, RegistryInv, LinkedBelow
  <1>3. CASE Moves(u)
    BY <1>3 DEF Moves, Assigned, Passed, RegistryInv, LinkedBelow
  <1>4. ~Ends(u) /\ ~Starts(u)
    BY DEF Ends, MayEnd, Starts, Idle
  <1>5. QED
    BY <1>1, <1>2, <1>3, <1>4 DEF CallStep

\* What is told of a resource is a description.
LEMMA ToldType ==
  ASSUME NEW i, NEW r \in Resource, NEW k \in BOOLEAN, NEW b \in BOOLEAN, b => r # Root
  PROVE  /\ Told(r, k, b) \in Registry(i)!Description
         /\ Told(r, k, b).defaults = IF k /\ r \in Container THEN {"contains"} ELSE {}
         /\ Told(r, k, b).relations = IF b THEN {<<Parent[r], "contains">>} ELSE {}
  <1>1. b => Parent[r] \in Resource
    BY ResourceAssumption
  <1>2. [d \in {} |-> Nobody] \in [{} -> Issuer \cup {Nobody}]
    OBVIOUS
  <1>3. (IF b THEN {<<Parent[r], "contains">>} ELSE {}) \in SUBSET (Resource \X {"contains"})
    BY <1>1
  <1>4. (IF k /\ r \in Container THEN {"contains"} ELSE {}) \in SUBSET {"contains"}
    OBVIOUS
  <1>5. QED
    BY <1>2, <1>3, <1>4 DEF Told, Registry!Description, Registry!RelationCollection

\* The list of account a when known says who owns what.
ListOf(known, a) == [r \in Resource |-> IF known[r] = a THEN 1 ELSE 0]

\* The lists of an issuer, now and after a step.
LEMMA ListsOf ==
  ASSUME NEW i
  PROVE  /\ ListsAt(i) = [a \in Account |-> ListOf(registrations[i], a)]
         /\ ListsAt(i)' = [a \in Account |-> ListOf(registrations'[i], a)]
  BY DEF ListsAt, ListOf

\* Entering r in a list, and taking it out.
LEMMA ListEntered ==
  ASSUME NEW f \in [Resource -> Account \cup {Nobody}], NEW r \in Resource, NEW o \in Account,
         f[r] = Nobody, NEW g, g = [f EXCEPT ![r] = o]
  PROVE  /\ ListOf(g, o) = [ListOf(f, o) EXCEPT ![r] = ListOf(f, o)[r] + 1]
         /\ \A a \in Account \ {o} : ListOf(g, a) = ListOf(f, a)
  <1>1. o # Nobody /\ Nobody \notin Account
    BY AccountAssumption
  <1>2. ListOf(f, o)[r] = 0 /\ 0 + 1 = 1
    BY <1>1 DEF ListOf
  <1>3. ListOf(g, o) = [ListOf(f, o) EXCEPT ![r] = 1]
    BY <1>1 DEF ListOf
  <1>4. \A a \in Account \ {o} : ListOf(g, a) = ListOf(f, a)
    BY <1>1 DEF ListOf
  <1>5. QED
    BY <1>2, <1>3, <1>4

\* Taking r out of the list of its owner.
LEMMA ListLeft ==
  ASSUME NEW f \in [Resource -> Account \cup {Nobody}], NEW r \in Resource, NEW o \in Account,
         f[r] = o, NEW g, g = [f EXCEPT ![r] = Nobody]
  PROVE  /\ ListOf(f, o)[r] = 1
         /\ ListOf(g, o) = [ListOf(f, o) EXCEPT ![r] = 0]
         /\ \A a \in Account \ {o} : ListOf(g, a) = ListOf(f, a)
  <1>1. o # Nobody /\ Nobody \notin Account
    BY AccountAssumption
  <1>2. ListOf(f, o)[r] = 1
    BY <1>1 DEF ListOf
  <1>3. ListOf(g, o) = [ListOf(f, o) EXCEPT ![r] = 0]
    BY <1>1 DEF ListOf
  <1>4. \A a \in Account \ {o} : ListOf(g, a) = ListOf(f, a)
    BY <1>1 DEF ListOf
  <1>5. QED
    BY <1>2, <1>3, <1>4

\* An accepted registration is a Post or a Put of the registry.
LEMMA AcceptedIsRequest ==
  ASSUME NEW i \in Issuer, NEW r \in Resource, NEW o \in Account, NEW b \in BOOLEAN,
         b => r # Root,
         TypeOK, TypeOK',
         registrations[i][r] \in {Nobody, o},
         b # (r \in relations[i]) => Parent[r] \in collections[i],
         registrations'[i] = [registrations[i] EXCEPT ![r] = o],
         relations'[i] = IF b THEN relations[i] \cup {r} ELSE relations[i] \ {r},
         collections'[i] = collections[i] \cup ({r} \cap Container)
  PROVE  Registry(i)!Next
  <1> DEFINE new == Told(r, TRUE, b)
             old == Told(r, registrations[i][r] # Nobody, r \in relations[i])
  <1>1. o # Nobody
    BY AccountAssumption
  <1>a. /\ registrations[i] \in [Resource -> Account \cup {Nobody}]
        /\ registrations'[i] \in [Resource -> Account \cup {Nobody}]
        /\ relations[i] \subseteq Resource /\ relations'[i] \subseteq Resource
    BY DEF TypeOK
  <1>4. StoredAt(i)' = [StoredAt(i) EXCEPT ![r] = [owner |-> o, description |-> new]]
    <2>1. \A x \in Resource \ {r} : /\ registrations'[i][x] = registrations[i][x]
                                    /\ x \in relations'[i] <=> x \in relations[i]
      BY <1>a
    <2>2. registrations'[i][r] = o /\ (r \in relations'[i] <=> b)
      BY <1>a
    <2>3. QED
      BY <1>1, <2>1, <2>2 DEF StoredAt, Told
  <1>5. StoredAt(i)[r] = [owner |-> registrations[i][r], description |-> old]
    BY DEF StoredAt
  <1>6. PartsAt(i)' = (PartsAt(i) \cup ({r} \X (new.relations \ old.relations)))
                        \ ({r} \X (old.relations \ new.relations))
    BY DEF PartsAt, Told
  <1>7. (collections'[i] \X {"contains"}) =
          ((collections[i] \X {"contains"}) \cup ({r} \X new.defaults))
            \ ({r} \X (old.defaults \ new.defaults))
    BY DEF Told
  <1>8. old.defaults \ new.defaults = {}
    BY DEF Told
  <1>9. (new.relations \ old.relations) \cup (old.relations \ new.relations)
          \subseteq collections[i] \X {"contains"}
    BY DEF Told
  <1>10. new \in Registry(i)!Description
    BY <1>1, ToldType
  <1>11. Registry(i)!SetResourceMetadata(o, r, new)
    <2>1. Registry(i)!Removable(r, old.defaults \ new.defaults)
      BY <1>8 DEF Registry!Removable, Registry!OwnCollections
    <2>2. Registry(i)!Matched(Registry(i)!Changed(new.relations, old.relations))
      BY <1>9 DEF Registry!Matched, Registry!Changed
    <2>3. Registry(i)!CollectionsUpdated(r, new.defaults, old.defaults)
            = collections'[i] \X {"contains"}
      BY <1>7 DEF Registry!CollectionsUpdated, Registry!OwnCollections
    <2>4. Registry(i)!PartsUpdated(r, new.relations, old.relations) = PartsAt(i)'
      BY <1>6 DEF Registry!PartsUpdated
    <2>5. Registry(i)!DerivationsUpdated(new.derived, old.derived) = [d \in {} |-> Nobody]
      BY DEF Registry!DerivationsUpdated
    <2> HIDE DEF new, old
    <2>6. QED
      BY <1>4, <1>5, <2>1, <2>2, <2>3, <2>4, <2>5 DEF Registry!SetResourceMetadata
  <1>12. CASE registrations[i][r] = Nobody
    <2>1. ListsAt(i)' = [ListsAt(i) EXCEPT ![o] = [ListsAt(i)[o] EXCEPT ![r] = ListsAt(i)[o][r] + 1]]
      <3> DEFINE l == ListOf(registrations[i], o)
      <3>1. /\ ListOf(registrations'[i], o) = [l EXCEPT ![r] = l[r] + 1]
            /\ \A a \in Account \ {o} :
                 ListOf(registrations'[i], a) = ListOf(registrations[i], a)
        BY <1>12, <1>a, ListEntered
      <3>2. QED
        BY <3>1, ListsOf
    <2>2. Registry(i)!Post(o, r, new)
      <3>1. StoredAt(i)[r].owner = Nobody
        BY <1>5, <1>12
      <3> HIDE DEF new, old
      <3>2. QED
        BY <1>11, <2>1, <3>1 DEF Registry!Post
    <2>3. QED
      BY <1>1, <1>10, <2>2 DEF Registry!Next, Registry!RegistrationRequest
  <1>13. CASE registrations[i][r] = o
    <2>1. ListsAt(i)' = ListsAt(i)
      BY <1>1, <1>13, <1>a DEF ListsAt
    <2>2. Registry(i)!Put(o, r, new)
      <3>1. StoredAt(i)[r].owner = o
        BY <1>5, <1>13
      <3> HIDE DEF new, old
      <3>2. QED
        BY <1>11, <2>1, <3>1 DEF Registry!Put
    <2>3. QED
      BY <1>1, <1>10, <2>2 DEF Registry!Next, Registry!RegistrationRequest
  <1>14. QED
    BY <1>12, <1>13

\* The same for the calls of the client.
LEMMA AcceptsIsRequest ==
  ASSUME TypeOK, TypeOK', LinkedBelow, NEW t \in Call, Accepts(t),
         NEW i \in Issuer, i = IssuerOf[frame[t].acct]
  PROVE  Registry(i)!Next
  <1>1. PICK r \in Resource, o \in Account, b \in BOOLEAN :
          r = frame[t].res /\ o = frame[t].acct /\ b = frame[t].linked
    BY CallTypes, FrameFields DEF Accepts
  <1>2. /\ b => r # Root
        /\ registrations[i][r] \in {Nobody, o}
        /\ b # (r \in relations[i]) => Parent[r] \in collections[i]
    BY <1>1 DEF LinkedBelow, Accepts, Acceptable
  <1>3. /\ registrations'[i] = [registrations[i] EXCEPT ![r] = o]
        /\ relations'[i] = IF b THEN relations[i] \cup {r} ELSE relations[i] \ {r}
        /\ collections'[i] = collections[i] \cup ({r} \cap Container)
    BY <1>1 DEF Accepts, TypeOK
  <1>4. QED
    BY <1>2, <1>3, AcceptedIsRequest

\* So is a deletion that the issuer carries out.
LEMMA DeletesIsRequest ==
  ASSUME TypeOK, NEW t \in Call, Deletes(t),
         NEW i \in Issuer, i = IssuerOf[frame[t].acct]
  PROVE  Registry(i)!Next
  <1>1. PICK r \in Resource, o \in Account : r = frame[t].res /\ o = frame[t].acct
    BY CallTypes DEF Deletes
  <1>2. /\ registrations[i][r] = o /\ o # Nobody
        /\ registrations'[i] = [registrations[i] EXCEPT ![r] = Nobody]
        /\ relations'[i] = relations[i] \ {r}
        /\ collections'[i] = collections[i]
        /\ registrations[i] \in [Resource -> Account \cup {Nobody}]
    BY <1>1, AccountAssumption DEF Deletes, TypeOK
  <1>3. StoredAt(i)' = [StoredAt(i) EXCEPT ![r] = Registry(i)!Absent]
    <2>1. [owner |-> Nobody, description |-> Told(r, FALSE, FALSE)] = Registry(i)!Absent
      BY DEF Told, Registry!Absent, Registry!Blank
    <2>2. QED
      BY <1>1, <1>2, <2>1 DEF StoredAt, Told
  <1>4. ListsAt(i)' = [ListsAt(i) EXCEPT ![o] = [ListsAt(i)[o] EXCEPT ![r] =
                         IF ListsAt(i)[o][r] > 0 THEN ListsAt(i)[o][r] - 1 ELSE ListsAt(i)[o][r]]]
    <2>1. /\ ListOf(registrations[i], o)[r] = 1
          /\ ListOf(registrations'[i], o) = [ListOf(registrations[i], o) EXCEPT ![r] = 0]
          /\ \A a \in Account \ {o} :
               ListOf(registrations'[i], a) = ListOf(registrations[i], a)
      BY <1>2, ListLeft
    <2>2. ListsAt(i)[o] = ListOf(registrations[i], o)
      BY ListsOf
    <2>3. (IF ListsAt(i)[o][r] > 0 THEN ListsAt(i)[o][r] - 1 ELSE ListsAt(i)[o][r]) = 0
      BY <2>1, <2>2
    <2>4. ListsAt(i)' = [ListsAt(i) EXCEPT ![o] = [ListsAt(i)[o] EXCEPT ![r] = 0]]
      BY <2>1, ListsOf
    <2>5. QED
      BY <2>3, <2>4
  <1>5. PartsAt(i)' = {p \in PartsAt(i) : p[1] # r}
    BY <1>2 DEF PartsAt
  <1>6. StoredAt(i)[r].owner = o
    BY <1>1, <1>2 DEF StoredAt
  <1>7. Registry(i)!Delete(o, r)
    BY <1>2, <1>3, <1>4, <1>5, <1>6 DEF Registry!Delete, Registry!PartsWithout
  <1>8. QED
    BY <1>1, <1>7 DEF Registry!Next, Registry!RegistrationRequest

\* What a step leaves alone at an issuer, it leaves alone in its registry.
LEMMA SameRegistry ==
  ASSUME NEW i, registrations'[i] = registrations[i], relations'[i] = relations[i],
         collections'[i] = collections[i]
  PROVE  UNCHANGED Registry(i)!vars
  <1>1. StoredAt(i)' = StoredAt(i) /\ ListsAt(i)' = ListsAt(i) /\ PartsAt(i)' = PartsAt(i)
    BY DEF StoredAt, ListsAt, PartsAt
  <1>2. QED
    BY <1>1 DEF Registry!vars

\* Every step is one of the registry of issuer i, or none.
LEMMA RegistriesStep ==
  ASSUME RegistryInv, [OpenNext]_vars, NEW i \in Issuer
  PROVE  UNCHANGED Registry(i)!vars \/ Registry(i)!Next
  <1>1. RegistryStep /\ TypeOK /\ TypeOK' /\ LinkedBelow
    BY StepEffects DEF RegistryInv, StoreStep, LockInv
  <1>2. CASE UNCHANGED <<registrations, relations, collections>>
    BY <1>2, SameRegistry
  <1>3. ASSUME NEW t \in Call, Accepts(t) \/ Deletes(t)
        PROVE  UNCHANGED Registry(i)!vars \/ Registry(i)!Next
    <2>1. CASE i = IssuerOf[frame[t].acct]
      BY <1>1, <1>3, <2>1, AcceptsIsRequest, DeletesIsRequest
    <2>2. CASE i # IssuerOf[frame[t].acct]
      BY <1>1, <1>3, <2>2, SameRegistry DEF Accepts, Deletes, TypeOK
    <2>3. QED
      BY <2>1, <2>2
  <1>4. QED
    BY <1>1, <1>2, <1>3 DEF RegistryStep

\* The registries are empty initially.
LEMMA InitRegistries ==
  ASSUME Init, NEW i \in Issuer
  PROVE  Registry(i)!Init
  <1>1. StoredAt(i) = [r \in Resource |-> Registry(i)!Absent]
    BY DEF Init, StoredAt, Told, Registry!Absent, Registry!Blank
  <1>2. ListsAt(i) = [a \in Account |-> [r \in Resource |-> 0]]
    BY AccountAssumption DEF Init, ListsAt
  <1>3. PartsAt(i) = {} /\ (collections[i] \X {"contains"}) = {}
    BY DEF Init, PartsAt
  <1>4. QED
    BY <1>1, <1>2, <1>3 DEF Registry!Init

\* RegistryInv always holds.
LEMMA RegistriesHold == OpenSpec => []RegistryInv
  <1>1. Init => RegistryInv
    BY InitLocks DEF Init, RegistryInv, LinkedBelow, Idle
  <1>2. QED
    BY <1>1, LinkedBelowStep, PTL DEF OpenSpec

\* Whoever calls the client and whatever responses are lost: what each issuer
\* stores on its requests behaves as the ResourceRegistry of that issuer.
THEOREM IssuersAreRegistries == OpenSpec => FollowsRegistry
  <1>1. Init => \A i \in Issuer : Registry(i)!Init
    BY InitRegistries
  <1>2. RegistryInv /\ [OpenNext]_vars =>
          [\A i \in Issuer : UNCHANGED Registry(i)!vars \/ Registry(i)!Next]_vars
    BY RegistriesStep
  <1>3. QED
    BY <1>1, <1>2, RegistriesHold, PTL DEF OpenSpec, FollowsRegistry

-----------------------------------------------------------------------------
(* The PATs are those of PatIssuing.                                        *)

\* What EXCEPT makes of an entry.
LEMMA EntryUpdate ==
  ASSUME NEW a, NEW n, NEW b, NEW c
  PROVE  [[client |-> a, serial |-> n, expired |-> b] EXCEPT !.expired = c]
           = [client |-> a, serial |-> n, expired |-> c]
  OBVIOUS

\* An entry is not Nobody; what it is when it has expired.
LEMMA EntryFacts ==
  ASSUME NEW a \in Account, NEW n \in Nat, NEW b \in BOOLEAN
  PROVE  /\ [client |-> a, serial |-> n, expired |-> b] # Nobody
         /\ Pats!Expired([client |-> a, serial |-> n, expired |-> b])
              = [client |-> a, serial |-> n, expired |-> TRUE]
  <1>1. [client |-> a, serial |-> n, expired |-> b] \in
          [client : Account, serial : Nat, expired : BOOLEAN]
    OBVIOUS
  <1>2. [client |-> a, serial |-> n, expired |-> b] # Nobody
    BY <1>1, NobodyAssumption, Zenon
  <1>3. PICK yes : yes = TRUE
    OBVIOUS
  <1>4. [[client |-> a, serial |-> n, expired |-> b] EXCEPT !.expired = TRUE]
          = [client |-> a, serial |-> n, expired |-> yes]
    <2>1. [[client |-> a, serial |-> n, expired |-> b] EXCEPT !.expired = yes]
            = [client |-> a, serial |-> n, expired |-> yes]
      BY EntryUpdate
    <2>2. QED
      BY <1>3, <2>1, Zenon
  <1>5. Pats!Expired([client |-> a, serial |-> n, expired |-> b])
          = [client |-> a, serial |-> n, expired |-> TRUE]
    BY <1>3, <1>4, Zenon DEF Pats!Expired
  <1>6. QED
    BY <1>2, <1>5, Zenon

\* The entries and the requests, one by one.
LEMMA EntryOf ==
  ASSUME TypeOK, NEW a \in Account
  PROVE  /\ issuedPat[a] = 0 => Entries[a] = Nobody
         /\ issuedPat[a] # 0 =>
              /\ Entries[a] = [client |-> a, serial |-> issuedPat[a], expired |-> a \notin livePat]
              /\ Entries[a] # Nobody /\ Entries[a].client = a
  <1>1. issuedPat[a] \in Nat /\ (a \notin livePat) \in BOOLEAN
    BY DEF TypeOK
  <1>2. [client |-> a, serial |-> issuedPat[a], expired |-> a \notin livePat] # Nobody
    BY <1>1, EntryFacts, Zenon
  <1> DEFINE e == [client |-> a, serial |-> issuedPat[a], expired |-> a \notin livePat]
  <1>3. Entries[a] = IF issuedPat[a] = 0 THEN Nobody ELSE e
    BY Zenon DEF Entries
  <1>4. e.client = a
    OBVIOUS
  <1> HIDE DEF e
  <1>5. issuedPat[a] # 0 => Entries[a] = e /\ Entries[a] # Nobody /\ Entries[a].client = a
    BY <1>2, <1>3, <1>4 DEF e
  <1>6. QED
    BY <1>3, <1>5 DEF e

\* The row of account a, if it was given a PAT.
LEMMA RowsAre ==
  ASSUME TypeOK, NEW a \in Account
  PROVE  Pats!RowsOf(a) = IF issuedPat[a] = 0 THEN {} ELSE {a}
  BY EntryOf DEF Pats!RowsOf

\* A call that is not asking is an idle handler.
LEMMA RequestIdle ==
  ASSUME NEW u \in Call, ~Signs(u)
  PROVE  Requests[u] = Pats!Idle
  BY DEF Requests, Pats!Idle

\* While t is asking for a PAT nobody else is.
LEMMA OneSigns ==
  ASSUME LockInv, NEW t \in Call, pc[t] \in AskingPat
  PROVE  \A u \in Call \ {t} : ~Signs(u)
  BY DEF LockInv, ExclusivePat, AskingPat, Signs

\* The issuer hands out a PAT.
LEMMA IssuedIsStored ==
  ASSUME PatInv, LockInv', NEW t \in Call,
         pc[t] = "patSent", pc'[t] = "patAnswered",
         frame[t].acct \notin BadAccount, issuedPat[frame[t].acct] < MaxPat,
         issuedPat' = [issuedPat EXCEPT ![frame[t].acct] = @ + 1],
         livePat' = livePat \cup {frame[t].acct}
  PROVE  Pats!Next
  <1>1. PICK a \in Account : a = frame[t].acct
    BY CallTypes DEF PatInv, LockInv
  <1>2. TypeOK /\ TypeOK' /\ issuedPat[a] \in Nat /\ LockInv
    BY <1>1 DEF PatInv, LockInv, TypeOK
  <1>3. Signs(t)
    BY <1>1 DEF Signs
  <1>4. Requests[t] = [client |-> a, row |-> IF issuedPat[a] # 0 THEN a ELSE Nobody]
    BY <1>1, <1>3 DEF Requests
  <1>5. Requests' = [Requests EXCEPT ![t] = Pats!Idle]
    <2>1. \A u \in Call \ {t} : ~Signs(u)
      BY <1>2, OneSigns DEF AskingPat
    <2>2. ~Signs(t)' /\ \A u \in Call \ {t} : ~Signs(u)'
      BY DEF LockInv, ExclusivePat, AskingPat, Signs
    <2>3. \A u \in Call : Requests'[u] = Pats!Idle
      BY <2>2 DEF Requests, Pats!Idle
    <2>4. \A u \in Call \ {t} : Requests[u] = Pats!Idle
      BY <2>1, RequestIdle
    <2>5. QED
      BY <2>3, <2>4 DEF Requests
  <1>6. /\ issuedPat'[a] = issuedPat[a] + 1 /\ issuedPat'[a] # 0
        /\ \A b \in Account \ {a} : issuedPat'[b] = issuedPat[b]
        /\ a \in livePat' /\ \A b \in Account \ {a} : b \in livePat' <=> b \in livePat
    BY <1>1, <1>2 DEF TypeOK
  <1>7. Entries' = [Entries EXCEPT ![a] =
          [client |-> a, serial |-> issuedPat[a] + 1, expired |-> FALSE]]
    BY <1>1, <1>6 DEF Entries
  <1>8. a \in (IF Requests[t].row # Nobody THEN {Requests[t].row} ELSE Pats!FreeRows)
    <2>1. CASE issuedPat[a] = 0
      <3>1. Requests[t].row = Nobody
        BY <1>4, <2>1
      <3>2. Entries[a] = Nobody
        BY <1>1, <1>2, <2>1, EntryOf, Zenon
      <3>3. QED
        BY <1>1, <3>1, <3>2 DEF Pats!FreeRows
    <2>2. CASE issuedPat[a] # 0
      BY <1>1, <1>4, <2>2, AccountAssumption
    <2>3. QED
      BY <2>1, <2>2
  <1>9. Requests[t].client = a
    BY <1>4
  <1>10. Pats!Storable(t)
    BY <1>1, <1>9 DEF Pats!Storable
  <1>11. Pats!StorePat(t, a)
    BY <1>1, <1>5, <1>7, <1>8, <1>9, <1>10 DEF Pats!StorePat
  <1>12. QED
    BY <1>1, <1>11 DEF Pats!Next, Pats!Tokens

\* A PAT expires.
LEMMA ExpiryIsExpiry ==
  ASSUME PatInv, NEW a \in livePat, livePat' = livePat \ {a},
         UNCHANGED <<issuedPat, pc, frame>>
  PROVE  Pats!Next
  <1>1. TypeOK /\ a \in Account /\ issuedPat[a] # 0 /\ issuedPat[a] \in Nat
    BY DEF PatInv, LockInv, TypeOK, PatsNumbered
  <1>2. Entries[a] = [client |-> a, serial |-> issuedPat[a], expired |-> FALSE]
    <2>1. (a \notin livePat) = FALSE
      OBVIOUS
    <2>2. Entries[a] = [client |-> a, serial |-> issuedPat[a], expired |-> a \notin livePat]
      BY <1>1, EntryOf, Zenon
    <2>3. QED
      BY <2>1, <2>2, Zenon
  <1>3. Entries[a] # Nobody
    BY <1>1, EntryOf, Zenon
  <1>4. Entries' = [Entries EXCEPT ![a] = Pats!Expired(Entries[a])]
    <2>1. Pats!Expired(Entries[a]) =
            [client |-> a, serial |-> issuedPat[a], expired |-> TRUE]
      BY <1>1, <1>2, EntryFacts
    <2>2. \A b \in Account \ {a} : (b \notin livePat') = (b \notin livePat)
      OBVIOUS
    <2>3. (a \notin livePat') = TRUE
      OBVIOUS
    <2>4. Entries'[a] = [client |-> a, serial |-> issuedPat[a], expired |-> TRUE]
      BY <1>1, <2>3, Zenon DEF Entries
    <2>5. \A b \in Account \ {a} : Entries'[b] = Entries[b]
      BY <2>2, Zenon DEF Entries
    <2>6. Entries \in [Account -> {Entries[b] : b \in Account}] /\ DOMAIN Entries' = Account
          /\ Entries' = [b \in Account |-> Entries'[b]]
      BY DEF Entries
    <2>7. QED
      BY <1>1, <2>1, <2>4, <2>5, <2>6
  <1>5. Requests' = Requests
    BY DEF Requests, Signs
  <1>6. Pats!ExpirePat(a)
    BY <1>1, <1>2, <1>3, <1>4, <1>5 DEF Pats!ExpirePat
  <1>7. QED
    BY <1>1, <1>6 DEF Pats!Next

\* A call asks for a PAT, for the first time or again.
LEMMA AskingIsRequest ==
  ASSUME TypeOK, LockInv', NEW t \in Call, pc'[t] = "patSent",
         frame'[t].acct = frame[t].acct, frame[t].acct \in Account \ BadAccount,
         \A u \in Call : ~Signs(u),
         UNCHANGED <<issuedPat, livePat>>
  PROVE  Pats!Next
  <1>1. PICK a \in Account \ BadAccount : a = frame[t].acct
    OBVIOUS
  <1>2. \A u \in Call : Requests[u] = Pats!Idle
    BY RequestIdle
  <1>3. Signs(t)' /\ \A u \in Call \ {t} : ~Signs(u)'
    BY <1>1 DEF LockInv, ExclusivePat, AskingPat, Signs
  <1>4. PICK r : r = IF issuedPat[a] # 0 THEN a ELSE Nobody
    OBVIOUS
  <1>5. Requests' = [Requests EXCEPT ![t] = [client |-> a, row |-> r]]
    <2>1. Requests'[t] = [client |-> a, row |-> r]
      BY <1>1, <1>3, <1>4 DEF Requests
    <2>2. \A u \in Call \ {t} : Requests'[u] = Pats!Idle
      BY <1>3 DEF Requests, Pats!Idle
    <2>3. QED
      BY <1>2, <2>1, <2>2 DEF Requests
  <1>6. r \in Pats!ToReplace(a)
    BY <1>1, <1>4, RowsAre DEF Pats!ToReplace
  <1>7. Pats!Signing(a) = {}
    BY <1>1, <1>2, AccountAssumption DEF Pats!Signing, Pats!Idle
  <1>8. Entries' = Entries
    BY DEF Entries
  <1>9. Pats!Sign(t, a, r)
    BY <1>2, <1>5, <1>7, <1>8 DEF Pats!Sign, Pats!storage
  <1>10. Pats!RequestPat(t, a)
    BY <1>1, <1>6, <1>9 DEF Pats!RequestPat
  <1>11. QED
    BY <1>1, <1>10 DEF Pats!Next, Pats!Tokens

\* Every step is one of PatIssuing, or none.
LEMMA PatsStep == PatInv /\ [OpenNext]_vars => [Pats!Next]_(Pats!vars)
  <1> SUFFICES ASSUME PatInv, [OpenNext]_vars PROVE Pats!Next \/ UNCHANGED Pats!vars
    OBVIOUS
  <1>1. LockInv /\ LockInv' /\ TypeOK /\ TypeOK' /\ CallStep /\ IssuedStep
    BY StepEffects DEF PatInv, StoreStep, LockInv
  <1>2. CASE UNCHANGED <<issuedPat, livePat>>
    <2>1. ASSUME NEW u \in Call, Signs(u)', ~Signs(u) PROVE Pats!Next
      <3>1. Moves(u)
        BY <1>1, <2>1 DEF CallStep, Stays, SameJob, Ends, MayEnd, Starts, FromServer, FromChild,
                          FromTicket, Enter, Signs
      <3>2. /\ frame'[u].acct = frame[u].acct /\ pc[u] # "free"
            /\ pc'[u] = "patSent" /\ pc[u] \in {"patConfig", "patAnswered"}
        BY <2>1, <3>1 DEF Moves, Edge, Assigned, Signs, Ticketing
      <3>3. frame[u].acct \in Account \ BadAccount
        BY <1>1, <2>1, <3>2, CallTypes DEF Signs
      <3>4. \A v \in Call : ~Signs(v)
        BY <1>1, <2>1, <3>2, OneSigns DEF AskingPat
      <3>5. QED
        BY <1>1, <1>2, <3>2, <3>3, <3>4, AskingIsRequest
    <2>2. ASSUME NEW u \in Call, Signs(u)
          PROVE  Signs(u)' /\ frame'[u].acct = frame[u].acct
      <3>1. CASE Stays(u)
        BY <2>2, <3>1 DEF Stays, SameJob, Signs
      <3>2. CASE Moves(u)
        <4>1. issuedPat' = [issuedPat EXCEPT ![frame[u].acct] = @ + 1]
          BY <2>2, <3>2 DEF Moves, Passed, Signs
        <4>2. frame[u].acct \in Account
          BY <1>1, <3>2, CallTypes DEF Moves
        <4>3. FALSE
          BY <1>1, <1>2, <4>1, <4>2 DEF TypeOK
        <4>4. QED
          BY <4>3
      <3>3. ~Ends(u) /\ ~Starts(u)
        BY <2>2 DEF Ends, MayEnd, Starts, Signs
      <3>4. QED
        BY <1>1, <3>1, <3>2, <3>3 DEF CallStep
    <2>3. ASSUME \A u \in Call : Signs(u)' => Signs(u)
          PROVE  UNCHANGED Pats!vars
      <3>1. \A u \in Call : Signs(u)' <=> Signs(u)
        BY <2>2, <2>3
      <3>2. Requests' = Requests
        BY <1>2, <2>2, <3>1 DEF Requests
      <3>3. Entries' = Entries
        BY <1>2 DEF Entries
      <3>4. QED
        BY <1>2, <3>2, <3>3 DEF Pats!vars, Pats!storage
    <2>4. QED
      BY <2>1, <2>3
  <1>3. QED
    BY <1>1, <1>2, IssuedIsStored, ExpiryIsExpiry DEF IssuedStep

\* The PATs handed out to the client are handed out as PatIssuing does, one
\* request at a time for each account and all of them (PAT_EVENT).
THEOREM PatsAreIssued == OpenSpec => FollowsPatIssuing
  <1>1. PatInv /\ [OpenNext]_vars => [UNCHANGED Pats!vars \/ Pats!Next]_vars
    BY PatsStep
  <1>2. QED
    BY <1>1, PatsHold, PTL DEF OpenSpec, FollowsPatIssuing

-----------------------------------------------------------------------------
(* Who awaits whom.                                                         *)

\* Calls in use stay in use, and await and are rejected as before.
SameTies ==
  \A u \in Call : pc[u] # "free" =>
    /\ pc'[u] # "free"
    /\ frame'[u].for = frame[u].for
    /\ frame'[u].bad = frame[u].bad

\* u is awaited by t, which goes on and has not been told of a rejection: u
\* goes on as well, or it was resolved.
TiesKept ==
  \A t, u \in Call :
    /\ pc[u] # "free" /\ frame[u].for = t
    /\ pc[t] # "free" /\ pc'[t] # "free" /\ ~frame'[t].bad
    => \/ pc'[u] # "free" /\ frame'[u].for = t
       \/ frame[u].kind = "register" => pc[u] = "join"

\* A call that was told of a rejection does not forget it.
BadKept == \A t \in Call : pc[t] # "free" /\ pc'[t] # "free" /\ frame[t].bad => frame'[t].bad

\* A call is told of a rejection by one that it awaits: one that was told of a
\* rejection itself, or one that ends.
Blamed ==
  \A w \in Call : pc[w] # "free" /\ pc'[w] # "free" /\ ~frame[w].bad /\ frame'[w].bad =>
    \E t \in Call : /\ pc[t] # "free" /\ frame[t].for = w
                    /\ frame[t].bad \/ (pc'[t] = "free" /\ pc[t] # "join")

\* A call is awaited by the one that started it, or by nobody any more; when
\* that one ends nobody awaits the call, unless the two await each other.
Released ==
  /\ \A u \in Call : pc[u] # "free" /\ pc'[u] # "free"
       => frame'[u].for \in {frame[u].for, NoCall}
  /\ \A u, v \in Call : /\ pc[u] # "free" /\ pc'[u] # "free"
                         /\ pc[v] # "free" /\ pc'[v] = "free" /\ frame'[u].for = v
       => frame[v].for = u

\* What a step does to who awaits whom.
TieStep == TiesKept /\ BadKept /\ Blamed /\ Released

\* Who awaits whom does not change.
LEMMA SameTiesStep == SameTies => TieStep
  BY DEF SameTies, TieStep, TiesKept, BadKept, Blamed, Released

\* The assignments that are not about who awaits whom.
LEMMA FieldTies ==
  ASSUME NEW f \in Frame, NEW b
  PROVE  /\ [f EXCEPT !.known = b].for = f.for /\ [f EXCEPT !.known = b].bad = f.bad
         /\ [f EXCEPT !.linked = b].for = f.for /\ [f EXCEPT !.linked = b].bad = f.bad
         /\ [f EXCEPT !.pat = b].for = f.for /\ [f EXCEPT !.pat = b].bad = f.bad
         /\ [f EXCEPT !.ok = b].for = f.for /\ [f EXCEPT !.ok = b].bad = f.bad
         /\ [f EXCEPT !.res = b].for = f.for /\ [f EXCEPT !.res = b].bad = f.bad
  BY DEF Frame

\* A call goes on by itself, or all calls leave their variables alone.
LEMMA MoveTies ==
  ASSUME CallsTyped, NEW t \in Call, NEW g, NEW point, point # "free",
         pc' = [pc EXCEPT ![t] = point], frame' = [frame EXCEPT ![t] = g],
         g.for = frame[t].for, g.bad = frame[t].bad
  PROVE  TieStep
  <1>1. SameTies
    BY DEF SameTies, CallsTyped
  <1>2. QED
    BY <1>1, SameTiesStep

\* Only control moves.
LEMMA GotoTies ==
  ASSUME CallsTyped, UNCHANGED frame, \A u \in Call : pc[u] # "free" => pc'[u] # "free"
  PROVE  TieStep
  BY SameTiesStep DEF SameTies

\* A call ends, and tells the one that awaits it of a rejection.
LEMMA LeaveTies ==
  ASSUME CallsTyped, NEW t \in Call, NEW b \in BOOLEAN, Leave(t, b), pc[t] # "free",
         frame[t].kind = "register" /\ ~b => pc[t] = "join",
         b /\ pc[t] = "join" => frame[t].bad
  PROVE  TieStep
  <1>1. pc'[t] = "free" /\ \A u \in Call \ {t} : pc'[u] = pc[u]
    BY DEF Leave, CallsTyped
  <1>2. \A u \in Call \ {t} :
          \/ /\ b /\ u = frame[t].for /\ frame'[u].bad /\ frame'[u].for = frame[u].for
          \/ /\ frame[u].for = t /\ frame'[u].bad = frame[u].bad /\ frame'[u].for = NoCall
          \/ frame'[u] = frame[u] /\ frame[u].for # t
    <2> TAKE u \in Call \ {t}
    <2>1. frame[u] \in Frame
      BY DEF CallsTyped
    <2>2. /\ [frame[u] EXCEPT !.bad = TRUE].bad
          /\ [frame[u] EXCEPT !.bad = TRUE].for = frame[u].for
          /\ [frame[u] EXCEPT !.for = NoCall].bad = frame[u].bad
          /\ [frame[u] EXCEPT !.for = NoCall].for = NoCall
      BY <2>1 DEF Frame
    <2>3. frame'[u] = IF b /\ u = frame[t].for THEN [frame[u] EXCEPT !.bad = TRUE]
                      ELSE IF frame[u].for = t THEN [frame[u] EXCEPT !.for = NoCall]
                      ELSE frame[u]
      BY DEF Leave
    <2>4. QED
      BY <2>2, <2>3
  <1>3. b /\ frame[t].for \in Call \ {t} => frame'[frame[t].for].bad
    <2>1. SUFFICES ASSUME b, NEW w \in Call \ {t}, w = frame[t].for PROVE frame'[w].bad
      OBVIOUS
    <2>2. frame'[w] = [frame[w] EXCEPT !.bad = TRUE] /\ frame[w] \in Frame
      BY <2>1 DEF Leave, CallsTyped
    <2>3. QED
      BY <2>2 DEF Frame
  <1>4. TiesKept
    BY <1>1, <1>2, <1>3 DEF TiesKept
  <1>5. BadKept
    BY <1>1, <1>2 DEF BadKept
  <1>6. Blamed
    BY <1>1, <1>2 DEF Blamed
  <1>7. Released
    BY <1>1, <1>2, CallAssumption DEF Released
  <1>8. QED
    BY <1>4, <1>5, <1>6, <1>7 DEF TieStep

\* The steps of getPat.
LEMMA PatTies ==
  ASSUME CallsTyped, NEW t \in Call, PatStep(t)
  PROVE  TieStep
  <1>1. CASE GetPat(t)
    <2>1. CASE UNCHANGED frame
      BY <1>1, <2>1, GotoTies DEF GetPat, Goto, CallsTyped
    <2>2. CASE /\ frame' = [frame EXCEPT ![t].pat = patStorage[frame[t].acct]]
               /\ Goto(t, "send")
      BY <2>2, MoveTies, FieldTies DEF Goto, CallsTyped
    <2>3. QED
      BY <1>1, <2>1, <2>2 DEF GetPat
  <1>2. CASE PatConfigFails(t) \/ PatRefused(t)
    BY <1>2, LeaveTies DEF PatConfigFails, PatRefused
  <1>3. CASE PatIssued(t)
    BY <1>3, MoveTies, FieldTies DEF PatIssued, Goto, CallsTyped
  <1>4. CASE PatReceived(t)
    BY <1>4, GotoTies DEF PatReceived, EmitPat
  <1>5. CASE PatConfigRead(t)
    BY <1>5, GotoTies DEF PatConfigRead, Goto, CallsTyped
  <1>6. QED
    BY <1>1, <1>2, <1>3, <1>4, <1>5 DEF PatStep

\* registerResource makes calls that it awaits.
LEMMA SendTies ==
  ASSUME CallsTyped, NEW t \in Call, SendRegistration(t)
  PROVE  TieStep
  <1> DEFINE r == frame[t].res
             a == frame[t].acct
             again == Pick(Free)
             above == Pick(Free \ {again})
             b == r # Root /\ ~Orphan(r)
             g == [frame[t] EXCEPT !.linked = b]
             sent == [frame EXCEPT ![t] = g]
  <1>1. g.for = frame[t].for /\ g.bad = frame[t].bad /\ pc[t] = "send"
    BY FieldTies DEF CallsTyped, SendRegistration
  <1>2. CASE ~Orphan(r)
    <2>1. pc' = [pc EXCEPT ![t] = "sent"] /\ frame' = sent
      BY <1>2 DEF SendRegistration, Goto
    <2> HIDE DEF g
    <2>2. QED
      BY <1>1, <2>1, MoveTies
  <1>3. CASE Orphan(r) /\ Parent[r] \in inProgress
    <2>1. /\ pc' = [pc EXCEPT ![t] = "sent", ![again] = "deferred"]
          /\ frame' = [sent EXCEPT ![again] = Registering(r, a, t)]
          /\ again \in Call /\ pc[again] = "free"
      BY <1>3, PickInSet DEF SendRegistration, Free
    <2> HIDE DEF g, again
    <2>2. SameTies
      BY <1>1, <2>1 DEF SameTies, CallsTyped
    <2>3. QED
      BY <2>2, SameTiesStep
  <1>4. CASE Orphan(r) /\ Parent[r] \notin inProgress
    <2>1. /\ pc' = [pc EXCEPT ![t] = "sent", ![again] = "deferred", ![above] = "config"]
          /\ frame' = [sent EXCEPT ![again] = Registering(r, a, t),
                                   ![above] = Registering(Parent[r], a, t)]
          /\ again \in Call /\ pc[again] = "free"
          /\ above \in Call /\ pc[above] = "free"
      BY <1>4, PickInSet DEF SendRegistration, Free
    <2> HIDE DEF g, again, above
    <2>2. SameTies
      BY <1>1, <2>1 DEF SameTies, CallsTyped
    <2>3. QED
      BY <2>2, SameTiesStep
  <1>5. QED
    BY <1>2, <1>3, <1>4

\* Promise.all passes a rejection on.
LEMMA RejectTies ==
  ASSUME CallsTyped, NEW t \in Call, RejectEarly(t)
  PROVE  TieStep
  <1> DEFINE w == frame[t].for
             half == [frame EXCEPT ![t] = [frame[t] EXCEPT !.for = NoCall]]
  <1>1. /\ UNCHANGED pc /\ w \in Call
        /\ frame' = [half EXCEPT ![w] = [half[w] EXCEPT !.bad = TRUE]]
    BY FrameFields DEF RejectEarly, CallsTyped
  <1>a. pc[t] # "free" /\ frame[t].bad /\ frame[t].for = w
    BY DEF RejectEarly
  <1>2. /\ half \in [Call -> Frame] /\ half[t].for = NoCall
        /\ \A u \in Call : half[u].bad = frame[u].bad
        /\ \A u \in Call \ {t} : half[u] = frame[u]
    BY CallAssumption DEF CallsTyped, Frame
  <1> HIDE DEF half
  <1>3. /\ \A u \in Call \ {w} : frame'[u] = half[u]
        /\ frame'[w] = [half[w] EXCEPT !.bad = TRUE]
    BY <1>1, <1>2
  <1>4. frame'[w].bad /\ frame'[w].for = half[w].for
    BY <1>1, <1>2, <1>3 DEF Frame
  <1>5. \A u \in Call : frame'[u].for = half[u].for /\ (frame[u].bad => frame'[u].bad)
    BY <1>2, <1>3, <1>4
  <1>6. BadKept
    BY <1>5 DEF BadKept
  <1>7. TiesKept
    BY <1>1, <1>2, <1>4, <1>5 DEF TiesKept
  <1>8. Blamed
    BY <1>1, <1>2, <1>3, <1>a DEF Blamed
  <1>9. Released
    BY <1>1, <1>2, <1>5 DEF Released
  <1>10. QED
    BY <1>6, <1>7, <1>8, <1>9 DEF TieStep

\* The steps of registerResource.
LEMMA RegisterTies ==
  ASSUME CallsTyped, NEW t \in Call, RegisterStep(t)
  PROVE  TieStep
  <1>1. CASE Begin(t)
    BY <1>1, GotoTies DEF Begin, Goto, Enter, CallsTyped
  <1>2. CASE HandleRegistration(t)
    BY <1>2, MoveTies, FieldTies DEF HandleRegistration, Goto, CallsTyped
  <1>3. CASE RegistrationAnswered(t)
    BY <1>3, GotoTies, LeaveTies DEF RegistrationAnswered, Emit
  <1>4. CASE Join(t)
    BY <1>4, LeaveTies DEF Join
  <1>5. QED
    BY <1>1, <1>2, <1>3, <1>4, SendTies, RejectTies DEF RegisterStep

\* The steps of fetchTicket.
LEMMA TicketTies ==
  ASSUME CallsTyped, OnlyTickets, NEW t \in Call, TicketStep(t)
  PROVE  TieStep
  <1>0. frame[t].kind = "ticket"
    BY DEF OnlyTickets, Ticketing, TicketStep, Lookup, Timeout, Woken, Probe, Registered
  <1>1. ASSUME NEW r, Found(t, r), NEW point \in Ticketing, pc' = [pc EXCEPT ![t] = point]
        PROVE  TieStep
    <2> DEFINE g == [frame[t] EXCEPT !.todo = @ \ {r}, !.body = @ \cup {r}, !.res = r]
    <2>1. /\ frame' = [frame EXCEPT ![t] = g]
          /\ g.for = frame[t].for /\ g.bad = frame[t].bad
      BY <1>1 DEF Found, CallsTyped, Frame
    <2> HIDE DEF g
    <2>2. QED
      BY <1>1, <2>1, MoveTies DEF Ticketing
  <1>2. CASE Lookup(t)
    <2>1. CASE Goto(t, "pat") /\ UNCHANGED frame
      BY <2>1, GotoTies DEF Goto, CallsTyped
    <2>2. ASSUME NEW r, Found(t, r), UNCHANGED pc
          PROVE  TieStep
      <3>1. pc' = [pc EXCEPT ![t] = "lookup"]
        BY <1>2, <2>2 DEF Lookup, CallsTyped
      <3>2. QED
        BY <1>1, <2>2, <3>1 DEF Ticketing
    <2>3. ASSUME NEW r, NEW point \in {"waitEvent", "probe"},
                 frame' = [frame EXCEPT ![t].res = r], Goto(t, point)
          PROVE  TieStep
      BY <2>3, MoveTies, FieldTies DEF Goto, CallsTyped
    <2>4. QED
      BY <1>2, <2>1, <2>2, <2>3 DEF Lookup
  <1>3. CASE Timeout(t)
    BY <1>0, <1>3, LeaveTies DEF Timeout
  <1>4. CASE Woken(t)
    <2>1. CASE frame[t].res \in umaIdStore
      BY <1>1, <1>4, <2>1 DEF Woken, Goto, Ticketing
    <2>2. CASE frame[t].res \notin umaIdStore
      BY <1>4, <2>2, GotoTies DEF Woken, Goto, CallsTyped
    <2>3. QED
      BY <2>1, <2>2
  <1>5. CASE Probe(t)
    <2> DEFINE new == Pick(Free)
    <2>1. CASE frame[t].res \notin exists
      BY <1>0, <1>5, <2>1, LeaveTies DEF Probe
    <2>2. CASE frame[t].res \in exists
      <3>1. /\ pc[t] = "probe"
            /\ pc' = [pc EXCEPT ![t] = "await", ![new] = Enter(frame[t].res)]
            /\ frame' = [frame EXCEPT ![new] = Registering(frame[t].res, frame[t].acct, t)]
            /\ new \in Call /\ pc[new] = "free" /\ new # t
        BY <1>5, <2>2, PickInSet DEF Probe, Free
      <3> HIDE DEF new
      <3>2. SameTies
        BY <3>1 DEF SameTies, CallsTyped
      <3>3. QED
        BY <3>2, SameTiesStep
    <2>3. QED
      BY <2>1, <2>2
  <1>6. CASE Registered(t)
    <2>1. CASE Leave(t, TRUE)
      BY <1>0, <1>6, <2>1, LeaveTies DEF Registered
    <2>2. CASE Found(t, frame[t].res) /\ Goto(t, "lookup")
      BY <1>1, <2>2 DEF Goto, Ticketing
    <2>3. QED
      BY <1>6, <2>1, <2>2 DEF Registered
  <1>7. QED
    BY <1>2, <1>3, <1>4, <1>5, <1>6 DEF TicketStep

\* The steps of the main request.
LEMMA RequestTies ==
  ASSUME CallsTyped, NEW t \in Call, RequestStep(t)
  PROVE  TieStep
  <1>1. CASE Send(t)
    BY <1>1, GotoTies DEF Send, Goto, CallsTyped
  <1>2. CASE HandleTicket(t)
    <2> DEFINE b == /\ PatValid(t)
                    /\ \A r \in frame[t].body :
                         registrations[IssuerOf[frame[t].acct]][r] # Nobody
               g == [frame[t] EXCEPT !.ok = b]
    <2>1. /\ pc' = [pc EXCEPT ![t] = "answered"] /\ frame' = [frame EXCEPT ![t] = g]
          /\ frame[t] \in Frame
      BY <1>2 DEF HandleTicket, Goto, CallsTyped
    <2> HIDE DEF b
    <2>2. g.for = frame[t].for /\ g.bad = frame[t].bad
      BY <2>1, FieldTies
    <2> HIDE DEF g
    <2>3. QED
      BY <2>1, <2>2, MoveTies
  <1>3. CASE HandleDelete(t)
    <2> DEFINE b == /\ PatValid(t)
                    /\ registrations[IssuerOf[frame[t].acct]][frame[t].res] = frame[t].acct
               g == [frame[t] EXCEPT !.ok = b]
    <2>1. /\ pc' = [pc EXCEPT ![t] = "answered"] /\ frame' = [frame EXCEPT ![t] = g]
          /\ frame[t] \in Frame
      BY <1>3 DEF HandleDelete, Goto, CallsTyped
    <2> HIDE DEF b
    <2>2. g.for = frame[t].for /\ g.bad = frame[t].bad
      BY <2>1, FieldTies
    <2> HIDE DEF g
    <2>3. QED
      BY <2>1, <2>2, MoveTies
  <1>4. CASE Answered(t)
    BY <1>4, LeaveTies DEF Answered
  <1>5. QED
    BY <1>1, <1>2, <1>3, <1>4 DEF RequestStep

\* The steps of fetchUmaConfig.
LEMMA ConfigTies ==
  ASSUME CallsTyped, NEW t \in Call, ConfigFails(t) \/ ConfigRead(t)
  PROVE  TieStep
  <1>1. CASE Leave(t, TRUE)
    BY <1>1, LeaveTies DEF ConfigFails, ConfigRead
  <1>2. CASE UNCHANGED frame /\ (Goto(t, "lookup") \/ Goto(t, "pat"))
    BY <1>2, GotoTies DEF Goto, CallsTyped
  <1>3. CASE /\ frame' = [frame EXCEPT ![t].known = frame[t].res \in umaIdStore]
             /\ Goto(t, "pat")
    BY <1>3, MoveTies, FieldTies DEF Goto, CallsTyped
  <1>4. QED
    BY <1>1, <1>2, <1>3 DEF ConfigFails, ConfigRead

\* A new call disturbs nobody.
LEMMA NewCallTies ==
  ASSUME CallsTyped, NEW point, NEW f, NewCall(point, f)
  PROVE  TieStep
  <1> DEFINE new == Pick(Free)
  <1>1. /\ new \in Call /\ pc[new] = "free"
        /\ pc' = [pc EXCEPT ![new] = point] /\ frame' = [frame EXCEPT ![new] = f]
    BY PickInSet DEF NewCall, Free
  <1> HIDE DEF new
  <1>2. SameTies
    BY <1>1 DEF SameTies, CallsTyped
  <1>3. QED
    BY <1>2, SameTiesStep

\* Every step.
LEMMA EveryStepTies ==
  ASSUME LockInv, [OpenNext]_vars
  PROVE  TieStep
  <1>0. CallsTyped /\ OnlyTickets
    BY DEF LockInv, TypeOK
  <1>1. ASSUME NEW t \in Call, Step(t) PROVE TieStep
    BY <1>0, <1>1, ConfigTies, PatTies, RegisterTies, TicketTies, RequestTies DEF Step
  <1>2. ASSUME NEW t \in Call, Retry(t) PROVE TieStep
    BY <1>0, <1>2, GotoTies DEF Retry, Goto, CallsTyped
  <1>3. ASSUME UNCHANGED <<pc, frame>> PROVE TieStep
    BY <1>0, <1>3, GotoTies
  <1>4. ASSUME NEW r \in Resource \ {Root}, NEW a \in Account,
               Create(r, a) \/ Delete(r, a) \/ Reregister(r, a) \/ Unregister(r, a)
        PROVE  TieStep
    BY <1>0, <1>4, NewCallTies DEF Create, Delete, Reregister, Unregister
  <1>5. ASSUME NEW T \in Targets, NEW a \in Account, Access(T, a) PROVE TieStep
    BY <1>0, <1>5, NewCallTies DEF Access
  <1>6. QED
    BY <1>1, <1>2, <1>3, <1>4, <1>5
    DEF OpenNext, Environment, PatExpires, CacheExpires, Unseen, vars, callVars

\* While t awaits a registration that nobody has rejected, and the identifier
\* is still missing, the call it awaits is under way.
AwaitedRegisters ==
  \A t \in Call :
    pc[t] = "await" /\ ~frame[t].bad /\ frame[t].res \notin umaIdStore =>
      \E u \in Call : /\ pc[u] # "free" /\ frame[u].for = t
                      /\ frame[u].kind = "register" /\ frame[u].res = frame[t].res

\* Inductive for AwaitedIdKnown.
AwaitInv == IdsInv /\ AwaitedRegisters

\* AwaitInv is inductive.
LEMMA AwaitInvStep == AwaitInv /\ [OpenNext]_vars => AwaitInv'
  <1> SUFFICES ASSUME AwaitInv, [OpenNext]_vars,
                      NEW t \in Call, pc'[t] = "await", ~frame'[t].bad,
                      frame'[t].res \notin umaIdStore'
               PROVE  \E u \in Call :
                        /\ pc'[u] # "free" /\ frame'[u].for = t
                        /\ frame'[u].kind = "register" /\ frame'[u].res = frame'[t].res
    BY IdsInvStep DEF AwaitInv, AwaitedRegisters
  <1>1. /\ CallStep /\ TieStep /\ umaIdStore \subseteq umaIdStore'
        /\ JoinsKnown
    BY StepEffects, EveryStepTies, IdsGrow DEF AwaitInv, IdsInv, StoreStep
  <1>2. CASE Stays(t)
    <2>1. /\ pc[t] = "await" /\ frame'[t].res = frame[t].res /\ ~frame[t].bad
          /\ frame[t].res \notin umaIdStore
      BY <1>1, <1>2 DEF Stays, SameJob, TieStep, BadKept
    <2>2. PICK u \in Call : /\ pc[u] # "free" /\ frame[u].for = t
                            /\ frame[u].kind = "register" /\ frame[u].res = frame[t].res
      BY <2>1 DEF AwaitInv, AwaitedRegisters
    <2>3. pc[u] # "join"
      BY <1>1, <2>1, <2>2 DEF JoinsKnown
    <2>4. pc'[u] # "free" /\ frame'[u].for = t
      BY <1>1, <2>1, <2>2, <2>3 DEF TieStep, TiesKept
    <2>5. frame'[u].kind = "register" /\ frame'[u].res = frame[u].res
      BY <1>1, <2>2, <2>4 DEF CallStep, Stays, SameJob, Ends, MayEnd, Starts, Moves, Assigned
    <2>6. QED
      BY <2>1, <2>2, <2>4, <2>5
  <1>3. CASE Moves(t)
    BY <1>3 DEF Moves, Passed
  <1>4. ~Ends(t) /\ ~Starts(t)
    BY DEF Ends, MayEnd, Starts, FromServer, FromChild, FromTicket, Enter
  <1>5. QED
    BY <1>1, <1>2, <1>3, <1>4 DEF CallStep

\* It always holds.
LEMMA AwaitsHold == OpenSpec => []AwaitInv
  <1>1. Init => AwaitInv
    BY InitIds DEF Init, AwaitInv, AwaitedRegisters
  <1>2. QED
    BY <1>1, AwaitInvStep, PTL DEF OpenSpec

\* fetchTicket never gives up for want of an identifier (UmaClient.ts 204-207):
\* the registration it awaited was rejected, or it has left one.
THEOREM AwaitedIdIsKnown == OpenSpec => []AwaitedIdKnown
  <1>1. AwaitInv => AwaitedIdKnown
    BY DEF AwaitInv, AwaitedRegisters, AwaitedIdKnown, Awaited
  <1>2. QED
    BY <1>1, AwaitsHold, PTL

-----------------------------------------------------------------------------
(* The relations to parents, at the client and at the issuers.              *)

\* Relations are told of, and are stored, where the parent is known.
ParentsKnown ==
  /\ \A t \in Call : frame[t].linked => Parent[frame[t].res] \in umaIdStore
  /\ \A i \in Issuer : \A r \in relations[i] : r # Root /\ Parent[r] \in umaIdStore

\* A relation is left out only where there is none to lose.
NoneLeftOut ==
  \A t \in Call :
    pc[t] \in {"sent", "answered"} /\ frame[t].kind = "register" /\ ~frame[t].linked
      => frame[t].res \notin relations[IssuerOf[frame[t].acct]]

\* The part of both inductive invariants below that is about relations.
RelationInv == RegistryInv /\ ParentsKnown /\ NoneLeftOut

\* Relations are told of by calls that have looked up the parent.
LEMMA ParentsKnownStep == RelationInv /\ [OpenNext]_vars => ParentsKnown'
  <1> SUFFICES ASSUME RelationInv, [OpenNext]_vars PROVE ParentsKnown'
    OBVIOUS
  <1>0. /\ CallStep /\ RegistryStep /\ TypeOK /\ umaIdStore \subseteq umaIdStore'
        /\ ParentsKnown /\ LinkedBelow
    BY StepEffects, IdsGrow DEF RelationInv, RegistryInv, LockInv, StoreStep
  <1>1. ASSUME NEW u \in Call, frame'[u].linked
        PROVE  Parent[frame'[u].res] \in umaIdStore'
    <2>1. CASE Stays(u)
      BY <1>0, <1>1, <2>1 DEF Stays, SameJob, ParentsKnown
    <2>2. CASE Moves(u) /\ frame[u].linked
      BY <1>0, <2>2 DEF Moves, Assigned, ParentsKnown, LinkedBelow
    <2>3. CASE Moves(u) /\ ~frame[u].linked
      BY <1>0, <1>1, <2>3 DEF Moves, Assigned, Passed, Orphan
    <2>4. ~Starts(u) /\ ~Ends(u)
      BY <1>1 DEF Starts, Ends, MayEnd, Idle
    <2>5. QED
      BY <1>0, <2>1, <2>2, <2>3, <2>4 DEF CallStep
  <1>2. ASSUME NEW i \in Issuer, NEW r \in relations'[i]
        PROVE  r # Root /\ Parent[r] \in umaIdStore'
    <2>1. CASE UNCHANGED relations
      BY <1>0, <1>2, <2>1 DEF ParentsKnown
    <2>2. ASSUME NEW t \in Call, Accepts(t)
          PROVE  r \in relations[i] \/ (frame[t].linked /\ r = frame[t].res)
      BY <1>0, <1>2, <2>2 DEF Accepts, TypeOK
    <2>3. ASSUME NEW t \in Call, Deletes(t) PROVE r \in relations[i]
      BY <1>0, <1>2, <2>3 DEF Deletes, TypeOK
    <2>4. QED
      BY <1>0, <2>1, <2>2, <2>3 DEF RegistryStep, ParentsKnown, LinkedBelow
  <1>3. QED
    BY <1>1, <1>2 DEF ParentsKnown

\* A call that leaves the relation out has its path to itself.
LEMMA NoneLeftOutStep == RelationInv /\ [OpenNext]_vars => NoneLeftOut'
  <1>a. ASSUME RelationInv, [OpenNext]_vars, NEW t \in Call, pc'[t] # "free"
        PROVE  frame'[t].res \in Resource /\ IssuerOf[frame'[t].acct] \in Issuer
    <2>1. TypeOK'
      BY <1>a, StepEffects DEF RelationInv, RegistryInv, LockInv
    <2>2. QED
      BY <1>a, <2>1, FrameFields, AccountAssumption DEF TypeOK, CallsTyped
  <1> SUFFICES ASSUME RelationInv, [OpenNext]_vars,
                      NEW u \in Call, NEW r \in Resource, NEW i \in Issuer,
                      pc'[u] \in {"sent", "answered"}, frame'[u].kind = "register",
                      ~frame'[u].linked,
                      r = frame'[u].res, i = IssuerOf[frame'[u].acct]
               PROVE  r \notin relations'[i]
    BY <1>a DEF NoneLeftOut
  <1>0. CallStep /\ RegistryStep /\ TypeOK /\ ExclusiveRegistration
    BY StepEffects DEF RelationInv, RegistryInv, LockInv, StoreStep
  <1>1. /\ frame[u].kind = "register" /\ frame[u].res = r
        /\ pc[u] \in {"send", "sent", "answered"}
        /\ i = IssuerOf[frame[u].acct]
        /\ r \notin relations[i] /\ (pc[u] = "sent" => ~frame[u].linked)
    <2>1. CASE Stays(u)
      BY <2>1 DEF Stays, SameJob, RelationInv, NoneLeftOut
    <2>2. CASE Moves(u) /\ pc[u] = "send"
      <3>1. frame[u].kind = "register" /\ frame[u].res = r /\ i = IssuerOf[frame[u].acct]
        BY <1>0, <2>2 DEF Moves, Assigned
      <3>2. r = Root \/ Parent[r] \notin umaIdStore
        BY <2>2, <3>1 DEF Moves, Passed, Orphan
      <3>3. QED
        BY <2>2, <3>1, <3>2 DEF RelationInv, ParentsKnown
    <2>3. CASE Moves(u) /\ pc[u] # "send"
      <3>1. pc[u] \in {"sent", "answered"}
        BY <2>3 DEF Moves, Edge, Ticketing
      <3>2. QED
        BY <2>3, <3>1 DEF Moves, Assigned, RelationInv, NoneLeftOut
    <2>4. ~Starts(u) /\ ~Ends(u)
      BY DEF Starts, Ends, MayEnd, FromServer, FromChild, FromTicket, Enter
    <2>5. QED
      BY <1>0, <2>1, <2>2, <2>3, <2>4 DEF CallStep
  <1>2. CASE UNCHANGED relations
    BY <1>1, <1>2
  <1>3. ASSUME NEW t \in Call, Accepts(t) PROVE r \notin relations'[i]
    <2>1. CASE t = u
      BY <1>0, <1>1, <1>3, <2>1 DEF Accepts, TypeOK
    <2>2. CASE t # u
      <3>1. frame[t].res # r
        BY <1>0, <1>1, <1>3, <2>2 DEF Accepts, ExclusiveRegistration, Holds, Working
      <3>2. QED
        BY <1>0, <1>1, <1>3, <3>1 DEF Accepts, TypeOK
    <2>3. QED
      BY <2>1, <2>2
  <1>4. ASSUME NEW t \in Call, Deletes(t) PROVE r \notin relations'[i]
    BY <1>0, <1>1, <1>4 DEF Deletes, TypeOK
  <1>5. QED
    BY <1>0, <1>2, <1>3, <1>4 DEF RegistryStep

\* RelationInv is inductive.
LEMMA RelationInvStep == RelationInv /\ [OpenNext]_vars => RelationInv'
  BY LinkedBelowStep, ParentsKnownStep, NoneLeftOutStep DEF RelationInv

\* It holds initially.
LEMMA InitRelations == Init => RelationInv
  BY InitLocks DEF Init, Idle, RelationInv, RegistryInv, LinkedBelow, ParentsKnown, NoneLeftOut

\* What the client keeps of relations is so in any environment.
LEMMA RelationsHold == OpenSpec => []RelationInv
  BY InitRelations, RelationInvStep, PTL DEF OpenSpec

\* A relation an issuer knows of stays until the resource is unregistered.
LEMMA LinkStays ==
  ASSUME RelationInv, [OpenNext]_vars, NEW i \in Issuer, NEW r \in relations[i],
         \A t \in Call : Deletes(t) => frame[t].res # r
  PROVE  r \in relations'[i]
  <1>0. RegistryStep /\ TypeOK
    BY StepEffects DEF RelationInv, RegistryInv, LockInv, StoreStep
  <1>1. ASSUME NEW t \in Call, Accepts(t) PROVE r \in relations'[i]
    <2>1. ~frame[t].linked => ~(IssuerOf[frame[t].acct] = i /\ frame[t].res = r)
      BY <1>1 DEF Accepts, RelationInv, NoneLeftOut
    <2>2. QED
      BY <1>0, <1>1, <2>1 DEF Accepts, TypeOK
  <1>2. ASSUME NEW t \in Call, Deletes(t) PROVE r \in relations'[i]
    BY <1>0, <1>2 DEF Deletes, TypeOK
  <1>3. QED
    BY <1>0, <1>1, <1>2 DEF RegistryStep

-----------------------------------------------------------------------------
(* Requests are accepted while nothing is taken back: what an instance must *)
(* be like, and what then holds.                                            *)

\* The issuer of account a can be read.
Works(a) == IssuerOf[a] \notin BrokenIssuer

\* Resources come and none goes, no response is lost and no PAT expires; the
\* accounts whose issuer can be read use the same one, and what is below the
\* root container has the owner of the container it is in.
Calm ==
  /\ Events \cap {"delete", "update"} = {}
  /\ MaxLost = 0 /\ MaxPat = 1
  /\ \A a, b \in Account : Works(a) /\ Works(b) => IssuerOf[a] = IssuerOf[b]
  /\ \A r \in Resource \ {Root} : Parent[r] # Root => OwnerOf[Parent[r]] = OwnerOf[r]

\* No call takes anything back.
OnlyAdding == \A t \in Call : pc[t] # "free" => frame[t].kind \in {"register", "ticket"}

\* Past fetchUmaConfig a call has an issuer that can be read.
Configured ==
  \A t \in Call : pc[t] \in Requesting \cup Ticketing \cup {"join"} => Works(frame[t].acct)

\* A call works for the owner of what it works on; the root has none.
OwnersWork ==
  \A t \in Call : pc[t] # "free" =>
    /\ frame[t].kind = "register" /\ frame[t].res # Root
         => frame[t].acct = OwnerOf[frame[t].res]
    /\ frame[t].kind = "ticket"
         => \A x \in Sought(t) : x # Root /\ OwnerOf[x] = frame[t].acct

\* The root container is registered once, for whoever needs it first.
RootOnce ==
  \A t \in Call :
    frame[t].kind = "register" /\ frame[t].res = Root /\ pc[t] \notin {"free", "join"}
      => pc[t] \in Working /\ Root \notin umaIdStore

\* The issuers in use know r, as what the client says it is.
Kept(r) ==
  \A a \in Account : Works(a) =>
    /\ Honoured(IssuerOf[a], r)
    /\ r # Root => registrations[IssuerOf[a]][r] = OwnerOf[r]

\* What the client knows of, or is being answered, the issuers keep; a request
\* for access names nothing else.
IdsKept ==
  /\ \A r \in umaIdStore : Kept(r)
  /\ \A t \in Call : pc[t] = "answered" /\ frame[t].kind = "register"
       => Kept(frame[t].res)
  /\ \A t \in Call : frame[t].body \subseteq umaIdStore

\* Each account has one PAT, which is valid, and a request carries it.
PatsValid ==
  /\ \A a \in Account : issuedPat[a] <= 1 /\ (issuedPat[a] = 1 => a \in livePat)
  /\ \A t \in Call : pc[t] \in Carrying \cup {"patAnswered"} => frame[t].pat # 0

\* Inductive for RequestsAccepted under Calm.
CalmInv ==
  /\ IdsInv /\ PatInv /\ KnownInv /\ RelationInv /\ lost = 0
  /\ OnlyAdding /\ Configured /\ OwnersWork /\ RootOnce
  /\ IdsKept /\ PatsValid /\ RequestsAccepted

\* A step of the specification is one of the open one, in which the calls the
\* server makes for a registration are for the owner of the resource.
LEMMA NextIsOpen == [Next]_vars => [OpenNext]_vars
  BY AccountAssumption DEF Next, OpenNext, Environment

\* ResourceRegistrar looks up the owner.
LEMMA OwnersStart ==
  ASSUME TypeOK, [Next]_vars, NEW u \in Call, Starts(u), events' = events + 1,
         frame'[u].kind = "register"
  PROVE  frame'[u].res # Root => frame'[u].acct = OwnerOf[frame'[u].res]
  <1> USE DEF clientVars, callVars, serverVars, asVars
  <1>0. events \in Nat /\ pc[u] = "free" /\ pc'[u] # "free" /\ pc \in [Call -> Point] /\ frame \in [Call -> Frame]
    BY DEF TypeOK, CallsTyped, Starts
  <1>1. ASSUME NEW t \in Call, Step(t) PROVE FALSE
    BY <1>0, <1>1, StepKeepsServer
  <1>2. ASSUME NEW t \in Call, Retry(t) PROVE FALSE
    BY <1>0, <1>2 DEF Retry
  <1>3. ASSUME NEW a \in Account, PatExpires(a) \/ CacheExpires(a) PROVE FALSE
    BY <1>0, <1>3 DEF PatExpires, CacheExpires
  <1>4. ASSUME NEW p, NEW f, NewCall(p, f) PROVE frame'[u] = f
    BY <1>0, <1>4 DEF NewCall
  <1>5. ASSUME NEW r \in Resource \ {Root},
               Create(r, OwnerOf[r]) \/ Reregister(r, OwnerOf[r])
        PROVE  frame'[u] = Registering(r, OwnerOf[r], NoCall)
    BY <1>4, <1>5 DEF Create, Reregister
  <1>6. ASSUME NEW r \in Resource \ {Root},
               Delete(r, OwnerOf[r]) \/ Unregister(r, OwnerOf[r])
        PROVE  frame'[u] = Deleting(r, OwnerOf[r])
    BY <1>4, <1>6 DEF Delete, Unregister
  <1>7. ASSUME NEW T \in Targets, NEW a \in Account, Access(T, a)
        PROVE  frame'[u].kind = "ticket"
    BY <1>4, <1>7 DEF Access, Idle
  <1>8. CASE UNCHANGED vars
    BY <1>0, <1>8 DEF vars
  <1>9. ASSUME NEW r PROVE Deleting(r, OwnerOf[r]).kind = "delete"
    BY DEF Deleting, Idle
  <1>10. ASSUME NEW r PROVE /\ Registering(r, OwnerOf[r], NoCall).res = r
                            /\ Registering(r, OwnerOf[r], NoCall).acct = OwnerOf[r]
    BY DEF Registering, Idle
  <1>11. QED
    BY <1>1, <1>2, <1>3, <1>5, <1>6, <1>7, <1>8, <1>9, <1>10 DEF Next, Environment

\* What is known of a step of such an instance.
LEMMA CalmStep ==
  ASSUME Calm, CalmInv, [Next]_vars
  PROVE  /\ CallStep /\ IdsStep /\ RegistryStep /\ IssuedStep
         /\ LockInv /\ LockInv' /\ TypeOK /\ TypeOK'
         /\ IdsInv' /\ PatInv' /\ KnownInv' /\ RelationInv' /\ lost' = 0
         /\ umaIdStore \subseteq umaIdStore'
  <1>1. LockInv /\ [OpenNext]_vars
    BY NextIsOpen DEF CalmInv, IdsInv
  <1>2. CallStep /\ StoreStep /\ LockInv' /\ lost' = 0
    BY <1>1, StepEffects DEF Calm, CalmInv
  <1>3. IdsInv' /\ PatInv' /\ KnownInv' /\ RelationInv'
    BY <1>1, IdsInvStep, PatInvStep, KnownInvStep, RelationInvStep DEF CalmInv
  <1>4. QED
    BY <1>1, <1>2, <1>3, IdsGrow DEF StoreStep, LockInv

\* The parts of CalmInv, one by one: no call takes anything back.
LEMMA OnlyAddingStep == Calm /\ CalmInv /\ [Next]_vars => OnlyAdding'
  <1> SUFFICES ASSUME Calm, CalmInv, [Next]_vars, NEW u \in Call, pc'[u] # "free"
               PROVE  frame'[u].kind \in {"register", "ticket"}
    BY DEF OnlyAdding
  <1>1. CASE Stays(u) \/ Moves(u)
    BY <1>1 DEF Stays, SameJob, Moves, Assigned, CalmInv, OnlyAdding
  <1>2. CASE Starts(u)
    BY <1>2 DEF Starts, FromServer, FromChild, FromTicket, Calm
  <1>3. QED
    BY <1>1, <1>2, CalmStep DEF CallStep, Ends, MayEnd

\* A call passes fetchUmaConfig if its issuer can be read.
LEMMA ConfiguredStep == Calm /\ CalmInv /\ [Next]_vars => Configured'
  <1> SUFFICES ASSUME Calm, CalmInv, [Next]_vars, NEW u \in Call,
                      pc'[u] \in Requesting \cup Ticketing \cup {"join"}
               PROVE  Works(frame'[u].acct)
    BY DEF Configured
  <1>1. CASE Stays(u)
    BY <1>1 DEF Stays, SameJob, CalmInv, Configured
  <1>2. CASE Moves(u)
    BY <1>2 DEF Moves, Edge, Assigned, Passed, CalmInv, Configured, Works,
                Requesting, Ticketing
  <1>3. ~Starts(u)
    BY DEF Starts, FromServer, FromChild, FromTicket, Enter, Requesting, Ticketing
  <1>4. QED
    BY <1>1, <1>2, <1>3, CalmStep DEF CallStep, Ends, MayEnd, Requesting, Ticketing

\* Calls are made for the owner of what they work on.
LEMMA OwnersWorkStep == Calm /\ CalmInv /\ [Next]_vars => OwnersWork'
  <1> SUFFICES ASSUME Calm, CalmInv, [Next]_vars, NEW u \in Call, pc'[u] # "free"
               PROVE  /\ frame'[u].kind = "register" /\ frame'[u].res # Root
                           => frame'[u].acct = OwnerOf[frame'[u].res]
                      /\ frame'[u].kind = "ticket"
                           => \A x \in Sought(u)' : x # Root /\ OwnerOf[x] = frame'[u].acct
    BY DEF OwnersWork
  <1>1. CASE Stays(u)
    BY <1>1 DEF Stays, SameJob, CalmInv, OwnersWork, Sought
  <1>2. CASE Moves(u)
    BY <1>2 DEF Moves, Assigned, CalmInv, OwnersWork, Sought
  <1>3. CASE Starts(u)
    <2>1. CASE FromServer(u)
      <3>1. CASE frame'[u].kind = "register"
        BY <1>3, <2>1, <3>1, OwnersStart, CalmStep DEF FromServer
      <3>2. CASE frame'[u].kind = "ticket"
        <4>1. /\ pc'[u] = "config" /\ frame'[u].todo \in Targets
              /\ CommonOwner(frame'[u].todo, frame'[u].acct)
          BY <2>1, <3>2 DEF FromServer
        <4>2. Root \notin frame'[u].todo
          BY <4>1, EventAssumption DEF Targets, FirstExisting
        <4>3. QED
          BY <3>2, <4>1, <4>2 DEF CommonOwner, Sought, Looking
      <3>3. QED
        BY <3>1, <3>2
    <2>2. CASE FromChild(u)
      <3> PICK t \in Call :
             /\ pc[t] = "send" /\ frame[t].kind = "register"
             /\ Orphan(frame[t].res)
             /\ frame'[u].acct = frame[t].acct
             /\ \/ frame'[u].res = frame[t].res
                \/ frame'[u].res = Parent[frame[t].res]
        BY <2>2 DEF FromChild
      <3>1. frame[t].res \in Resource \ {Root} /\ frame[t].acct = OwnerOf[frame[t].res]
        BY CalmStep, CallTypes DEF Orphan, CalmInv, OwnersWork
      <3>2. QED
        BY <2>2, <3>1 DEF FromChild, Calm
    <2>3. CASE FromTicket(u)
      <3> PICK t \in Call : /\ pc[t] = "probe" /\ frame'[u].res = frame[t].res
                            /\ frame'[u].acct = frame[t].acct
        BY <2>3 DEF FromTicket
      <3>1. frame[t].kind = "ticket" /\ frame[t].res \in Sought(t)
        BY CalmStep DEF LockInv, OnlyTickets, Ticketing, Sought, Looking
      <3>2. QED
        BY <2>3, <3>1 DEF FromTicket, CalmInv, OwnersWork
    <2>4. QED
      BY <1>3, <2>1, <2>2, <2>3 DEF Starts
  <1>4. QED
    BY <1>1, <1>2, <1>3, CalmStep DEF CallStep, Ends, MayEnd

\* Who needs the root container as its parent registers it only if nobody does.
LEMMA RootOnceStep == Calm /\ CalmInv /\ [Next]_vars => RootOnce'
  <1> SUFFICES ASSUME Calm, CalmInv, [Next]_vars, NEW u \in Call,
                      frame'[u].kind = "register", frame'[u].res = Root,
                      pc'[u] \notin {"free", "join"}
               PROVE  pc'[u] \in Working /\ Root \notin umaIdStore'
    BY DEF RootOnce
  <1>0. /\ CallStep /\ IdsStep /\ ExclusiveRegistration /\ Root \in Resource
        /\ RootOnce /\ OwnersWork
    BY CalmStep, ResourceAssumption DEF LockInv, CalmInv
  <1>1. ASSUME Root \notin umaIdStore, Root \in umaIdStore'
        PROVE  \E t \in Call : Holds(t, Root) /\ pc'[t] = "join"
    BY <1>0, <1>1 DEF IdsStep, Holds, Working
  <1>2. CASE Stays(u) \/ Moves(u)
    <2>1. /\ frame[u].kind = "register" /\ frame[u].res = Root
          /\ pc[u] \notin {"free", "join"}
      BY <1>2 DEF Stays, SameJob, Moves, Assigned, Edge, Ticketing
    <2>2. Holds(u, Root) /\ Root \notin umaIdStore
      BY <1>0, <2>1 DEF RootOnce, Holds
    <2>3. pc'[u] \in Working
      <3>1. CASE Stays(u)
        BY <2>2, <3>1 DEF Stays, Holds
      <3>2. CASE Moves(u)
        BY <2>2, <3>2 DEF Moves, Edge, Passed, Holds, Working, Ticketing
      <3>3. QED
        BY <1>2, <3>1, <3>2
    <2>4. Root \notin umaIdStore'
      BY <1>0, <1>1, <2>2 DEF ExclusiveRegistration
    <2>5. QED
      BY <2>3, <2>4
  <1>3. CASE Starts(u)
    <2>1. CASE FromServer(u)
      BY <2>1 DEF FromServer
    <2>2. CASE FromChild(u)
      <3> PICK t \in Call :
             /\ Orphan(frame[t].res)
             /\ \/ pc'[u] = "deferred" /\ frame'[u].res = frame[t].res
                \/ /\ pc'[u] = "config" /\ frame'[u].res = Parent[frame[t].res]
                   /\ Parent[frame[t].res] \notin inProgress
        BY <2>2 DEF FromChild
      <3>1. pc'[u] = "config" /\ Root \notin umaIdStore /\ Root \notin inProgress
        BY DEF Orphan
      <3>2. QED
        BY <1>0, <1>1, <3>1 DEF ExclusiveRegistration, Working
    <2>3. CASE FromTicket(u)
      <3> PICK t \in Call : pc[t] = "probe" /\ frame'[u].res = frame[t].res
        BY <2>3 DEF FromTicket
      <3>1. frame[t].kind = "ticket" /\ frame[t].res \in Sought(t)
        BY CalmStep DEF LockInv, OnlyTickets, Ticketing, Sought, Looking
      <3>2. QED
        BY <1>0, <3>1 DEF OwnersWork
    <2>4. QED
      BY <1>3, <2>1, <2>2, <2>3 DEF Starts
  <1>4. QED
    BY <1>0, <1>2, <1>3 DEF CallStep, Ends, MayEnd

\* What the issuers know stays, and becomes what it should be when it is told.
LEMMA KeptStays ==
  ASSUME Calm, CalmInv, [Next]_vars, NEW r \in Resource, Kept(r)
  PROVE  Kept(r)'
  <1>1. TypeOK /\ RegistryStep /\ OnlyAdding
    BY CalmStep DEF CalmInv
  <1>2. CASE UNCHANGED <<registrations, relations, collections>>
    BY <1>2 DEF Kept, Honoured
  <1>3. ASSUME NEW t \in Call, Accepts(t) PROVE Kept(r)'
    <2> DEFINE i == IssuerOf[frame[t].acct]
               x == frame[t].res
    <2>1. /\ frame[t].acct \in Account /\ i \in Issuer /\ x \in Resource
          /\ x # Root => frame[t].acct = OwnerOf[x]
      BY <1>1, <1>3, CallTypes DEF Accepts, CalmInv, OwnersWork
    <2>2. SUFFICES ASSUME NEW a \in Account, Works(a)
                   PROVE  /\ Honoured(IssuerOf[a], r)'
                          /\ r # Root => registrations'[IssuerOf[a]][r] = OwnerOf[r]
      BY DEF Kept
    <2>3. /\ IssuerOf[a] \in Issuer
          /\ Honoured(IssuerOf[a], r)
          /\ r # Root => registrations[IssuerOf[a]][r] = OwnerOf[r]
      BY <2>2, AccountAssumption DEF Kept
    <2>4. registrations'[IssuerOf[a]][r] =
            IF i = IssuerOf[a] /\ x = r THEN frame[t].acct
            ELSE registrations[IssuerOf[a]][r]
      BY <1>1, <1>3, <2>1, <2>3 DEF Accepts, TypeOK
    <2>5. collections[IssuerOf[a]] \subseteq collections'[IssuerOf[a]]
      BY <1>1, <1>3, <2>1, <2>3 DEF Accepts, TypeOK
    <2>6. QED
      BY <2>1, <2>3, <2>4, <2>5, AccountAssumption DEF Honoured
  <1>4. ASSUME NEW t \in Call PROVE ~Deletes(t)
    BY <1>1 DEF Deletes, OnlyAdding
  <1>5. QED
    BY <1>1, <1>2, <1>3, <1>4 DEF RegistryStep

\* What the issuer just accepted, it keeps.
LEMMA AcceptedKept ==
  ASSUME Calm, CalmInv, [Next]_vars, NEW t \in Call, Accepts(t),
         NEW x, x = frame[t].res
  PROVE  Kept(x)'
  <1> DEFINE i == IssuerOf[frame[t].acct]
  <1>1. TypeOK /\ pc[t] = "sent" /\ frame[t].kind = "register"
    BY CalmStep DEF Accepts
  <1>2. /\ frame[t].acct \in Account /\ i \in Issuer /\ x \in Resource
        /\ x # Root => frame[t].acct = OwnerOf[x]
        /\ Works(frame[t].acct)
    BY <1>1, CallTypes DEF CalmInv, OwnersWork, Configured, Requesting
  <1>3. /\ registrations'[i][x] = frame[t].acct
        /\ collections'[i] = collections[i] \cup ({x} \cap Container)
    BY <1>1, <1>2 DEF Accepts, TypeOK
  <1>4. \A a \in Account : Works(a) => IssuerOf[a] = i
    BY <1>2 DEF Calm
  <1>5. /\ registrations'[i][x] # Nobody
        /\ x \in Container => x \in collections'[i]
        /\ x # Root => registrations'[i][x] = OwnerOf[x]
    BY <1>2, <1>3, AccountAssumption
  <1>6. QED
    BY <1>4, <1>5 DEF Kept, Honoured

\* A PAT that is carried is valid, and the issuer agrees to what is asked.
LEMMA CalmPat ==
  ASSUME CalmInv, NEW t \in Call, pc[t] \in Carrying
  PROVE  PatValid(t)
  <1>1. /\ TypeOK /\ PatsNumbered /\ PatsValid /\ pc[t] # "free"
    BY DEF CalmInv, PatInv, LockInv, Carrying
  <1>2. frame[t].acct \in Account /\ frame[t].pat \in Nat
    BY <1>1, CallTypes
  <1>3. issuedPat[frame[t].acct] \in Nat
    BY <1>1, <1>2 DEF TypeOK
  <1>4. frame[t].pat <= issuedPat[frame[t].acct] /\ frame[t].pat # 0
    BY <1>1 DEF PatsNumbered, PatsValid
  <1>5. issuedPat[frame[t].acct] <= 1
    BY <1>1, <1>2 DEF PatsValid
  <1>6. frame[t].pat = 1 /\ issuedPat[frame[t].acct] = 1
    BY <1>2, <1>3, <1>4, <1>5
  <1>7. QED
    BY <1>1, <1>2, <1>6 DEF PatsValid, PatValid

\* The issuer agrees to a registration: its PAT is valid, the client is right
\* about what is known, and the parent has a collection.
LEMMA CalmAcceptable ==
  ASSUME Calm, CalmInv, NEW t \in Call, pc[t] = "sent", frame[t].kind = "register"
  PROVE  Acceptable(t)
  <1> DEFINE i == IssuerOf[frame[t].acct]
             r == frame[t].res
  <1>1. TypeOK /\ KnownInv /\ RootOnce /\ IdsKept /\ RelationInv /\ lost = 0
    BY DEF CalmInv, IdsInv, LockInv
  <1>2. /\ frame[t].acct \in Account /\ i \in Issuer /\ r \in Resource
        /\ Works(frame[t].acct) /\ frame[t].known \in BOOLEAN
        /\ r # Root => frame[t].acct = OwnerOf[r]
    BY <1>1, CallTypes DEF CalmInv, OwnersWork, Configured, Requesting
  <1>3. PatValid(t)
    BY CalmPat DEF Carrying
  <1>4. ASSUME frame[t].known PROVE registrations[i][r] = frame[t].acct
    <2>1. r \in umaIdStore /\ r # Root
      BY <1>1, <1>4 DEF KnownInv, KnownMeant, Requesting, RootOnce
    <2>2. QED
      BY <1>1, <1>2, <2>1 DEF IdsKept, Kept
  <1>5. ASSUME ~frame[t].known PROVE registrations[i][r] = Nobody
    BY <1>1, <1>5, KnownNotTwice DEF NoDuplicateRegistration
  <1>6. ASSUME frame[t].linked # (r \in relations[i]) PROVE Parent[r] \in collections[i]
    <2>0. frame[t].linked \in BOOLEAN
      BY <1>1, CallTypes, FrameFields
    <2>1. r # Root /\ Parent[r] \in umaIdStore
      BY <1>1, <1>2, <1>6, <2>0 DEF RelationInv, RegistryInv, ParentsKnown, LinkedBelow
    <2>2. Parent[r] \in Container
      BY <1>2, <2>1 DEF Container
    <2>3. QED
      BY <1>1, <1>2, <2>1, <2>2 DEF IdsKept, Kept, Honoured
  <1>7. QED
    BY <1>3, <1>4, <1>5, <1>6 DEF Acceptable

\* What the client knows of is kept.
LEMMA IdsKeptStep == Calm /\ CalmInv /\ [Next]_vars => IdsKept'
  <1> SUFFICES ASSUME Calm, CalmInv, [Next]_vars PROVE IdsKept'
    OBVIOUS
  <1>0. /\ CallStep /\ IdsStep /\ TypeOK /\ TypeOK' /\ umaIdStore \subseteq umaIdStore'
        /\ IdsKept
    BY CalmStep DEF CalmInv
  <1>1. ASSUME NEW r \in umaIdStore' PROVE Kept(r)'
    <2>1. r \in Resource
      BY <1>0 DEF TypeOK
    <2>2. Kept(r)
      BY <1>0, <1>1 DEF IdsStep, IdsKept
    <2>3. QED
      BY <2>1, <2>2, KeptStays
  <1>2. ASSUME NEW u \in Call, pc'[u] = "answered", frame'[u].kind = "register",
               NEW r \in Resource, r = frame'[u].res
        PROVE  Kept(r)'
    <2>1. CASE Stays(u)
      <3>1. Kept(r)
        BY <1>0, <1>2, <2>1 DEF Stays, SameJob, IdsKept
      <3>2. QED
        BY <3>1, KeptStays
    <2>2. CASE Moves(u)
      <3>1. /\ pc[u] = "sent" /\ frame[u].kind = "register" /\ r = frame[u].res
        BY <1>2, <2>2 DEF Moves, Edge, Assigned, Ticketing
      <3>2. Accepts(u)
        BY <2>2, <3>1, CalmAcceptable DEF Moves, Passed
      <3>3. QED
        BY <3>1, <3>2, AcceptedKept
    <2>3. ~Starts(u) /\ ~Ends(u)
      BY <1>2 DEF Starts, Ends, MayEnd, FromServer, FromChild, FromTicket, Enter
    <2>4. QED
      BY <1>0, <2>1, <2>2, <2>3 DEF CallStep
  <1>3. ASSUME NEW u \in Call PROVE frame'[u].body \subseteq umaIdStore'
    BY <1>0 DEF CallStep, Stays, SameJob, Ends, MayEnd, Idle, Moves, Assigned, Starts, IdsKept
  <1>4. \A u \in Call : frame'[u].res \in Resource
    BY <1>0, FrameFields DEF TypeOK, CallsTyped
  <1>5. QED
    BY <1>1, <1>2, <1>3, <1>4 DEF IdsKept

\* There is one PAT per account.
LEMMA PatsValidStep == Calm /\ CalmInv /\ [Next]_vars => PatsValid'
  <1> SUFFICES ASSUME Calm, CalmInv, [Next]_vars PROVE PatsValid'
    OBVIOUS
  <1>0. /\ CallStep /\ IssuedStep /\ TypeOK /\ PatsValid /\ PatsNumbered
        /\ MaxPat = 1
    BY CalmStep DEF CalmInv, PatInv, Calm
  <1>1. ASSUME NEW a \in Account
        PROVE  issuedPat'[a] <= 1 /\ (issuedPat'[a] = 1 => a \in livePat')
    <2>1. CASE UNCHANGED <<issuedPat, livePat>>
      BY <1>0, <2>1 DEF PatsValid
    <2>2. ASSUME NEW t \in Call, pc[t] = "patSent", issuedPat[frame[t].acct] < MaxPat,
                 issuedPat' = [issuedPat EXCEPT ![frame[t].acct] = @ + 1],
                 livePat' = livePat \cup {frame[t].acct}
          PROVE  issuedPat'[a] <= 1 /\ (issuedPat'[a] = 1 => a \in livePat')
      <3>1. frame[t].acct \in Account /\ issuedPat \in [Account -> Nat]
        BY <1>0, <2>2, CallTypes DEF TypeOK
      <3>2. QED
        BY <1>0, <2>2, <3>1 DEF PatsValid
    <2>3. ASSUME NEW b \in livePat PROVE ~(issuedPat[b] < MaxPat)
      <3>1. issuedPat[b] \in Nat /\ issuedPat[b] > 0
        BY <1>0 DEF TypeOK, PatsNumbered
      <3>2. QED
        BY <1>0, <3>1
    <2>4. QED
      BY <1>0, <2>1, <2>2, <2>3 DEF IssuedStep
  <1>2. ASSUME NEW u \in Call, pc'[u] \in Carrying \cup {"patAnswered"}
        PROVE  frame'[u].pat # 0
    <2>1. CASE Stays(u)
      BY <1>0, <1>2, <2>1 DEF Stays, SameJob, PatsValid
    <2>2. CASE Moves(u) /\ pc[u] = "patSent"
      <3>1. frame[u].acct \in Account /\ issuedPat[frame[u].acct] \in Nat
        BY <1>0, <2>2, CallTypes DEF TypeOK
      <3>2. QED
        BY <2>2, <3>1 DEF Moves, Passed
    <2>3. CASE Moves(u) /\ pc[u] # "patSent"
      BY <1>0, <1>2, <2>3 DEF Moves, Edge, Assigned, Passed, PatsValid, Carrying, Ticketing
    <2>4. ~Starts(u) /\ ~Ends(u)
      BY <1>2 DEF Starts, Ends, MayEnd, FromServer, FromChild, FromTicket, Enter, Carrying
    <2>5. QED
      BY <1>0, <2>1, <2>2, <2>3, <2>4 DEF CallStep
  <1>3. QED
    BY <1>1, <1>2 DEF PatsValid

\* The issuers accept what is asked.
LEMMA RequestsAcceptedStep == Calm /\ CalmInv /\ [Next]_vars => RequestsAccepted'
  <1> SUFFICES ASSUME Calm, CalmInv, [Next]_vars, NEW u \in Call, pc'[u] = "answered"
               PROVE  frame'[u].ok
    BY DEF RequestsAccepted
  <1>0. CallStep /\ TypeOK /\ OnlyAdding /\ IdsKept /\ Configured
    BY CalmStep DEF CalmInv
  <1>1. CASE Stays(u)
    BY <1>1 DEF Stays, SameJob, CalmInv, RequestsAccepted
  <1>2. CASE Moves(u)
    <2>1. pc[u] = "sent" /\ frame[u].kind \in {"register", "ticket"}
      BY <1>0, <1>2 DEF Moves, Edge, OnlyAdding, Ticketing
    <2>2. CASE frame[u].kind = "register"
      BY <1>2, <2>1, <2>2, CalmAcceptable DEF Moves, Passed
    <2>3. CASE frame[u].kind = "ticket"
      <3>1. PatValid(u)
        BY <2>1, CalmPat DEF Carrying
      <3>2. Works(frame[u].acct) /\ frame[u].acct \in Account
        BY <1>0, <2>1, CallTypes DEF Configured, Requesting
      <3>3. \A x \in frame[u].body : registrations[IssuerOf[frame[u].acct]][x] # Nobody
        BY <1>0, <3>2 DEF IdsKept, Kept, Honoured
      <3>4. QED
        BY <1>2, <2>1, <2>3, <3>1, <3>3 DEF Moves, Passed
    <2>4. QED
      BY <2>1, <2>2, <2>3
  <1>3. ~Starts(u) /\ ~Ends(u)
    BY DEF Starts, Ends, MayEnd, FromServer, FromChild, FromTicket, Enter
  <1>4. QED
    BY <1>0, <1>1, <1>2, <1>3 DEF CallStep

\* CalmInv is inductive,
LEMMA CalmInvStep == Calm /\ CalmInv /\ [Next]_vars => CalmInv'
  BY CalmStep, OnlyAddingStep, ConfiguredStep, OwnersWorkStep, RootOnceStep,
     IdsKeptStep, PatsValidStep, RequestsAcceptedStep DEF CalmInv

\* it holds initially,
LEMMA InitCalm == Init => CalmInv
  <1> SUFFICES ASSUME Init PROVE CalmInv
    OBVIOUS
  <1>1. IdsInv /\ PatInv /\ KnownInv /\ RelationInv
    BY InitIds, InitPats, InitKnown, InitRelations
  <1>2. \A t \in Call : pc[t] = "free" /\ frame[t] = Idle
    BY DEF Init
  <1>3. OnlyAdding /\ Configured /\ OwnersWork /\ RootOnce /\ RequestsAccepted
    BY <1>2 DEF OnlyAdding, Configured, OwnersWork, RootOnce, RequestsAccepted,
                Requesting, Ticketing
  <1>4. IdsKept /\ lost = 0
    BY <1>2 DEF Init, IdsKept, Idle
  <1>5. PatsValid
    BY <1>2 DEF Init, PatsValid, Carrying
  <1>6. QED
    BY <1>1, <1>3, <1>4, <1>5 DEF CalmInv

\* and always.
LEMMA CalmHolds == ASSUME Calm PROVE Spec => []CalmInv
  <1>1. CalmInv /\ [Next]_vars => CalmInv'
    BY CalmInvStep
  <1>2. QED
    BY <1>1, InitCalm, PTL DEF Spec

\* The issuer refuses no request of the client, whatever else runs, as long as
\* nothing is taken back and there is one issuer that can be read.
THEOREM RequestsAreAccepted ==
  ASSUME Calm PROVE Spec => []RequestsAccepted
  BY CalmHolds, PTL DEF CalmInv

-----------------------------------------------------------------------------
(* What was created gets linked.                                            *)

\* The issuers that can be read can be read at any time, and know the credentials
\* of their accounts.
Granted ==
  \A a \in Account : Works(a) => IssuerOf[a] \notin FlakyIssuer /\ a \notin BadAccount

\* u has yet to tell the issuer the relation of r to its parent.
Pending(u, r) ==
  /\ frame[u].kind = "register" /\ frame[u].res = r
  /\ \/ pc[u] \in {"start", "waitRes", "deferred", "config", "pat", "waitPat",
                   "patConfig", "patSent", "patAnswered", "send"}
     \/ pc[u] = "sent" /\ frame[u].linked

\* What was created is linked, or a call is to link it.
CreatedLink ==
  \A r \in exists \ InitExists : Works(OwnerOf[r]) =>
    r \in relations[IssuerOf[OwnerOf[r]]] \/ \E u \in Call : Pending(u, r)

\* Inductive for AllLinked.
LinkInv == CalmInv /\ CreatedLink

\* A resource comes with a call that registers it, and none goes.
LEMMA ExistsStep ==
  ASSUME Calm, TypeOK, [Next]_vars
  PROVE  \/ UNCHANGED exists
         \/ \E r \in Resource \ {Root}, u \in Call :
              /\ UNCHANGED <<registrations, relations>>
              /\ exists' = exists \cup {r}
              /\ pc'[u] = "start"
              /\ frame'[u] = Registering(r, OwnerOf[r], NoCall)
  <1> USE DEF clientVars, callVars, serverVars, asVars
  <1>1. ASSUME NEW t \in Call, Step(t) PROVE UNCHANGED exists
    BY <1>1, StepKeepsServer
  <1>2. ASSUME NEW t \in Call, Retry(t) PROVE UNCHANGED exists
    BY <1>2 DEF Retry
  <1>3. ASSUME NEW a \in Account, PatExpires(a) \/ CacheExpires(a) PROVE UNCHANGED exists
    BY <1>3 DEF PatExpires, CacheExpires
  <1>4. ASSUME NEW r \in Resource \ {Root}, Create(r, OwnerOf[r])
        PROVE  \E u \in Call : /\ UNCHANGED <<registrations, relations>>
                               /\ exists' = exists \cup {r}
                               /\ pc'[u] = "start"
                               /\ frame'[u] = Registering(r, OwnerOf[r], NoCall)
    <2> DEFINE u == Pick(Free)
    <2>1. u \in Call
      BY <1>4, PickInSet DEF Create, NewCall, Free
    <2>2. /\ UNCHANGED <<registrations, relations>>
          /\ exists' = exists \cup {r}
          /\ pc' = [pc EXCEPT ![u] = "start"]
          /\ frame' = [frame EXCEPT ![u] = Registering(r, OwnerOf[r], NoCall)]
      BY <1>4 DEF Create, NewCall
    <2> HIDE DEF u
    <2>3. QED
      BY <2>1, <2>2 DEF TypeOK, CallsTyped
  <1>5. ASSUME NEW r \in Resource \ {Root},
               Delete(r, OwnerOf[r]) \/ Reregister(r, OwnerOf[r]) \/ Unregister(r, OwnerOf[r])
        PROVE  FALSE
    BY <1>5 DEF Delete, Reregister, Unregister, Calm
  <1>6. ASSUME NEW T \in Targets, NEW a \in Account, Access(T, a) PROVE UNCHANGED exists
    BY <1>6 DEF Access
  <1>7. CASE UNCHANGED vars
    BY <1>7 DEF vars
  <1>8. QED
    BY <1>1, <1>2, <1>3, <1>4, <1>5, <1>6, <1>7 DEF Next, Environment

\* A call that is to link a resource goes on, hands that over to the deferred
\* call it makes, or has done it.
LEMMA CreatedLinkStep ==
  ASSUME Calm, Granted PROVE LinkInv /\ [Next]_vars => CreatedLink'
  <1> SUFFICES ASSUME LinkInv, [Next]_vars,
                      NEW r \in exists', r \notin InitExists, Works(OwnerOf[r])
               PROVE  \/ r \in relations'[IssuerOf[OwnerOf[r]]]
                      \/ \E u \in Call : Pending(u, r)'
    BY DEF CreatedLink
  <1>0. /\ CallStep /\ TypeOK /\ TypeOK' /\ CalmInv /\ OwnersWork /\ OnlyTickets
    BY CalmStep DEF LinkInv, CalmInv, LockInv
  <1>1. r \in Resource \ {Root}
    BY <1>0, EventAssumption DEF TypeOK
  <1>2. OwnerOf[r] \in Account /\ IssuerOf[OwnerOf[r]] \in Issuer
    BY <1>1, AccountAssumption
  <1>3. CASE r \notin exists
    <2>1. PICK u \in Call : pc'[u] = "start" /\ frame'[u] = Registering(r, OwnerOf[r], NoCall)
      BY <1>0, <1>3, ExistsStep
    <2>2. QED
      BY <2>1 DEF Pending, Registering, Idle
  <1>4. CASE r \in exists /\ r \in relations[IssuerOf[OwnerOf[r]]]
    <2>1. RelationInv /\ [OpenNext]_vars /\ OnlyAdding
      BY NextIsOpen DEF LinkInv, CalmInv
    <2>2. \A t \in Call : ~Deletes(t)
      BY <2>1 DEF Deletes, OnlyAdding
    <2>3. QED
      BY <1>2, <1>4, <2>1, <2>2, LinkStays
  <1>5. ASSUME NEW u \in Call, Pending(u, r)
        PROVE  \/ r \in relations'[IssuerOf[OwnerOf[r]]]
               \/ \E v \in Call : Pending(v, r)'
    <2>0. /\ frame[u].kind = "register" /\ frame[u].res = r
          /\ pc[u] # "free" /\ frame[u].acct = OwnerOf[r]
      BY <1>0, <1>1, <1>5 DEF Pending, OwnersWork
    <2>1. CASE Stays(u)
      BY <1>5, <2>1 DEF Stays, SameJob, Pending
    <2>2. CASE Moves(u) /\ pc[u] \notin {"send", "sent"}
      BY <1>5, <2>0, <2>2 DEF Moves, Edge, Assigned, Passed, Pending, Ticketing
    <2>3. CASE Moves(u) /\ pc[u] = "send"
      <3>1. /\ pc'[u] = "sent" /\ frame'[u].kind = "register" /\ frame'[u].res = r
            /\ frame'[u].linked = (r # Root /\ ~Orphan(r))
        BY <2>0, <2>3 DEF Moves, Edge, Assigned, Passed, Ticketing
      <3>2. CASE Orphan(r)
        BY <2>0, <2>3, <3>2 DEF Moves, Passed, Pending
      <3>3. CASE ~Orphan(r)
        BY <1>1, <3>1, <3>3 DEF Pending
      <3>4. QED
        BY <3>2, <3>3
    <2>4. CASE Moves(u) /\ pc[u] = "sent"
      <3>1. frame[u].linked /\ Accepts(u)
        BY <1>0, <1>5, <2>0, <2>4, CalmAcceptable DEF Moves, Passed, Pending
      <3>2. QED
        BY <1>0, <1>2, <2>0, <3>1 DEF Accepts, TypeOK
    <2>5. ~Ends(u)
      BY <1>2, <1>5, <2>0 DEF Ends, MayEnd, MayFail, Pending, Granted, Works
    <2>6. QED
      BY <1>0, <2>0, <2>1, <2>2, <2>3, <2>4, <2>5 DEF CallStep, Starts
  <1>6. QED
    BY <1>3, <1>4, <1>5 DEF LinkInv, CreatedLink

\* LinkInv always holds.
LEMMA LinksHold == ASSUME Calm, Granted PROVE Spec => []LinkInv
  <1>1. Init => LinkInv
    BY InitCalm DEF Init, LinkInv, CreatedLink
  <1>2. LinkInv /\ [Next]_vars => LinkInv'
    BY CalmInvStep, CreatedLinkStep DEF LinkInv
  <1>3. QED
    BY <1>1, <1>2, PTL DEF Spec

\* When the client comes to rest, every resource the server created is linked
\* to its parent, in whatever order the requests were sent and answered
\* (registerResource with its deferred second call).
THEOREM CreatedAreLinked ==
  ASSUME Calm, Granted PROVE Spec => []AllLinked
  <1>1. LinkInv => AllLinked
    <2> SUFFICES ASSUME LinkInv, \A t \in Call : pc[t] = "free",
                        NEW r \in exists \ InitExists, Works(OwnerOf[r])
                 PROVE  r \in relations[IssuerOf[OwnerOf[r]]]
      BY DEF AllLinked, Works
    <2>1. QED
      BY DEF LinkInv, CreatedLink, Pending
  <1>2. QED
    BY <1>1, LinksHold, PTL

-----------------------------------------------------------------------------
(* The promise of registration, step by step.                               *)

\* A registration the issuer accepts is one step of the promise, or none.
LEMMA AcceptKeepsPromise ==
  ASSUME Calm, CalmInv, [Next]_vars, NEW t \in Call, Accepts(t),
         UNCHANGED exists
  PROVE  [Promise!Next]_(Promise!vars)
  <1> DEFINE wanted == UNION {Lineage[r] : r \in Registrable}
             registered == {r \in Resource : \E i \in Issuer : registrations[i][r] # Nobody}
             linked == UNION {relations[i] : i \in Issuer}
  <1>0. /\ TypeOK /\ ExclusiveRegistration /\ KnownInv /\ IdsKept /\ ParentsKnown
        /\ LinkedBelow /\ lost = 0
    BY CalmStep DEF CalmInv, RelationInv, RegistryInv, LockInv
  <1> PICK r \in Resource, i \in Issuer, a \in Account :
         /\ r = frame[t].res /\ a = frame[t].acct /\ i = IssuerOf[a]
    BY <1>0, CallTypes DEF Accepts
  <1>1. /\ pc[t] = "sent" /\ frame[t].kind = "register" /\ Works(a)
        /\ frame[t].known \in BOOLEAN /\ frame[t].linked \in BOOLEAN
    BY <1>0, CallTypes, FrameFields DEF Accepts, CalmInv, Configured, Requesting
  <1>2. registered' = registered \cup {r}
    BY <1>0, AccountAssumption DEF Accepts, TypeOK
  <1>3. linked' = linked \cup (IF frame[t].linked THEN {r} ELSE {})
    <2>1. ~frame[t].linked => r \notin relations[i]
      BY <1>1 DEF CalmInv, RelationInv, NoneLeftOut
    <2>2. relations'[i] = relations[i] \cup (IF frame[t].linked THEN {r} ELSE {})
      BY <1>0, <2>1 DEF Accepts, TypeOK
    <2>3. \A j \in Issuer \ {i} : relations'[j] = relations[j]
      BY <1>0 DEF Accepts, TypeOK
    <2>4. QED
      BY <2>2, <2>3
  <1>4. wanted' = wanted
    BY DEF Registrable
  <1>5. frame[t].linked => r # Root /\ Parent[r] \in registered
    <2>1. SUFFICES ASSUME frame[t].linked PROVE r # Root /\ Parent[r] \in registered
      OBVIOUS
    <2>2. r # Root /\ Parent[r] \in umaIdStore
      BY <1>0, <2>1 DEF ParentsKnown, LinkedBelow
    <2>3. Parent[r] \in Resource /\ registrations[i][Parent[r]] # Nobody
      BY <1>0, <1>1, <2>2 DEF IdsKept, Kept, Honoured, TypeOK
    <2>4. QED
      BY <2>2, <2>3
  <1>6. CASE ~frame[t].known
    <2>1. r \notin umaIdStore
      BY <1>0, <1>1, <1>6 DEF KnownInv, KnownMeant, Requesting
    <2>2. ASSUME NEW u \in Call PROVE ~Arriving(u, r)
      BY <1>0, <1>1 DEF Arriving, ExclusiveRegistration, Holds, Working
    <2>3. r \notin registered
      BY <1>0, <2>1, <2>2 DEF KnownInv, RegisteredKnown
    <2>4. Promise!Register(r)
      BY <1>1, <1>2, <1>3, <1>4, <1>5, <2>3 DEF Promise!Register, Promise!Linkable
    <2>5. QED
      BY <2>4 DEF Promise!Next
  <1>7. CASE frame[t].known
    <2>1. r \in umaIdStore
      BY <1>0, <1>1, <1>7 DEF KnownInv, KnownMeant, Requesting
    <2>2. r \in registered
      BY <1>0, <1>1, <2>1 DEF IdsKept, Kept, Honoured
    <2>3. registered' = registered
      BY <1>2, <2>2
    <2>4. CASE frame[t].linked /\ r \notin linked
      <3>1. Promise!Link(r)
        BY <1>3, <1>4, <1>5, <2>2, <2>3, <2>4 DEF Promise!Link, Promise!Linkable
      <3>2. QED
        BY <3>1 DEF Promise!Next
    <2>5. CASE ~(frame[t].linked /\ r \notin linked)
      <3>1. linked' = linked
        BY <1>1, <1>3, <2>5
      <3>2. QED
        BY <1>4, <2>3, <3>1 DEF Promise!vars
    <2>6. QED
      BY <2>4, <2>5
  <1>8. QED
    BY <1>1, <1>6, <1>7

\* Every step is one of the promise, or none.
LEMMA PromiseStep ==
  ASSUME Calm, CalmInv, [Next]_vars
  PROVE  [Promise!Next]_(Promise!vars)
  <1>0. TypeOK /\ RegistryStep /\ OnlyAdding
    BY CalmStep DEF CalmInv
  <1>1. CASE UNCHANGED exists
    <2>1. CASE UNCHANGED <<registrations, relations>>
      BY <1>1, <2>1 DEF Promise!vars, Registrable
    <2>2. ASSUME NEW t \in Call PROVE ~Deletes(t)
      BY <1>0 DEF Deletes, OnlyAdding
    <2>3. QED
      BY <1>0, <1>1, <2>1, <2>2, AcceptKeepsPromise DEF RegistryStep
  <1>2. ASSUME NEW r \in Resource \ {Root}, exists' = exists \cup {r},
               UNCHANGED <<registrations, relations>>
        PROVE  [Promise!Next]_(Promise!vars)
    <2> DEFINE wanted == UNION {Lineage[x] : x \in Registrable}
    <2>1. Registrable' = Registrable \/ Registrable' = Registrable \cup {r}
      BY <1>2 DEF Registrable
    <2>2. Lineage[r] \in SUBSET Resource
      BY DEF Lineage
    <2>3. CASE Registrable' = Registrable
      BY <1>2, <2>3 DEF Promise!vars
    <2>4. CASE Registrable' = Registrable \cup {r}
      <3>1. wanted' = wanted \cup Lineage[r]
        BY <2>4
      <3>2. Promise!Want(Lineage[r])
        BY <1>2, <3>1 DEF Promise!Want
      <3>3. QED
        BY <2>2, <3>2 DEF Promise!Next
    <2>5. QED
      BY <2>1, <2>3, <2>4
  <1>3. QED
    BY <1>0, <1>1, <1>2, ExistsStep

\* Whatever the client does is a step towards what registration promises: a
\* resource is registered once, and linked once its parent is.
THEOREM PromiseIsFollowed ==
  ASSUME Calm PROVE Spec => Promise!Safety
  <1>1. Init => CalmInv /\ Promise!Init
    BY InitCalm DEF Init, Promise!Init, Registrable
  <1>2. CalmInv /\ [Next]_vars => CalmInv'
    BY CalmInvStep
  <1>3. CalmInv /\ [Next]_vars => [Promise!Next]_(Promise!vars)
    BY PromiseStep
  <1>4. QED
    BY <1>1, <1>2, <1>3, PTL DEF Spec, Promise!Safety

=============================================================================
