--------------------------- MODULE NegotiationProofs ---------------------------
(****************************************************************************)
(* Proofs about Negotiation, for every set of permissions, policies,        *)
(* handlers and identifiers.  That a ticket is used once rests on who may   *)
(* know a ticket object: nobody does before it is opened, and afterwards    *)
(* either the store or one handler.                                         *)
(****************************************************************************)
EXTENDS Negotiation, TLAPS

USE DEF server

\* A ticket object that is not open yet is not known anywhere.
Unopened ==
  \A d \in Unused : minted[d] = 0 /\ \A i \in TicketId : ~Stored(i, d)

NegotiationInv == TypeOK /\ TicketSingleUse /\ Unopened

-----------------------------------------------------------------------------
(* Helpers.                                                                 *)

LEMMA PickIn == ASSUME NEW S, S # {} PROVE Pick(S) \in S
BY DEF Pick

LEMMA InitializedTyped ==
  ASSUME NEW asked \in SUBSET Permission
  PROVE  Initialized(asked) \in SUBSET Wanted
BY RequestAssumption DEF Initialized, Wanted

\* What the handlers are when one of them takes a request, or goes on with it.
LEMMA HandlersTyped ==
  ASSUME TypeOK, NEW h \in Handler, NEW p \in Point, NEW f \in Frame,
         f.dialog \in opened', opened \subseteq opened',
         pc' = [pc EXCEPT ![h] = p], frame' = [frame EXCEPT ![h] = f]
  PROVE  /\ pc' \in [Handler -> Point]
         /\ frame' \in [Handler -> Frame]
         /\ \A g \in Handler : pc'[g] # "free" => frame'[g].dialog \in opened'
<1>1. pc \in [Handler -> Point] /\ frame \in [Handler -> Frame]
  BY DEF TypeOK
<1>2. \A g \in Handler : pc[g] # "free" => frame[g].dialog \in opened
  BY DEF TypeOK
<1>3. pc' \in [Handler -> Point] /\ frame' \in [Handler -> Frame]
  BY <1>1
<1>4. ASSUME NEW g \in Handler, pc'[g] # "free" PROVE frame'[g].dialog \in opened'
  <2>1. CASE g = h
    BY <2>1, <1>1
  <2>2. CASE g # h
    BY <2>2, <1>1, <1>2, <1>4
  <2> QED
    BY <2>1, <2>2
<1> QED
  BY <1>3, <1>4

\* A request that comes in.
LEMMA StartTyped ==
  ASSUME TypeOK, NEW h \in Handler, NEW kind \in Kind, NEW d \in Dialog,
         NEW r \in RefreshId \cup {None}, NEW pushed \in SUBSET Credential,
         NEW needed \in SUBSET Wanted, Start(h, kind, d, r, pushed, needed),
         d \in opened', opened \subseteq opened'
  PROVE  /\ pc' \in [Handler -> Point]
         /\ frame' \in [Handler -> Frame]
         /\ \A g \in Handler : pc'[g] # "free" => frame'[g].dialog \in opened'
         /\ UNCHANGED <<minted, negotiator, policy, changes>>
         /\ pc'[h] # "free" /\ frame'[h].dialog = d
         /\ \A g \in Handler \ {h} : pc'[g] = pc[g] /\ frame'[g] = frame[g]
<1> DEFINE p == IF pushed = {} THEN "evaluate" ELSE "verify"
           f == [kind |-> kind, dialog |-> d, refresh |-> r, pushed |-> pushed,
                 needed |-> needed, pending |-> needed, granted |-> {},
                 since |-> changes]
<1>1. p \in Point /\ p # "free"
  BY DEF Point
<1>2. f \in Frame /\ f.dialog = d
  BY DEF TypeOK, Frame
<1>3. pc' = [pc EXCEPT ![h] = p] /\ frame' = [frame EXCEPT ![h] = f]
      /\ UNCHANGED <<minted, negotiator, policy, changes>>
  BY DEF Start
<1> HIDE DEF p, f
<1>4. /\ pc' \in [Handler -> Point]
      /\ frame' \in [Handler -> Frame]
      /\ \A g \in Handler : pc'[g] # "free" => frame'[g].dialog \in opened'
  BY <1>1, <1>2, <1>3, HandlersTyped
<1>5. /\ pc'[h] # "free" /\ frame'[h].dialog = d
      /\ \A g \in Handler \ {h} : pc'[g] = pc[g] /\ frame'[g] = frame[g]
  BY <1>1, <1>2, <1>3 DEF TypeOK
<1> QED
  BY <1>3, <1>4, <1>5

\* A request that is answered.
LEMMA FinishTyped ==
  ASSUME TypeOK, NEW h \in Handler, Finish(h), UNCHANGED opened
  PROVE  /\ pc' \in [Handler -> Point]
         /\ frame' \in [Handler -> Frame]
         /\ \A g \in Handler : pc'[g] # "free" => frame'[g].dialog \in opened'
         /\ pc'[h] = "free"
         /\ \A g \in Handler \ {h} : pc'[g] = pc[g] /\ frame'[g] = frame[g]
<1>1. pc \in [Handler -> Point] /\ frame \in [Handler -> Frame]
  BY DEF TypeOK
<1>2. \A g \in Handler : pc[g] # "free" => frame[g].dialog \in opened
  BY DEF TypeOK
<1>3. "free" \in Point /\ Idle \in Frame
  BY DEF Point, Idle, Frame, Kind
<1>4. pc' = [pc EXCEPT ![h] = "free"] /\ frame' = [frame EXCEPT ![h] = Idle]
  BY DEF Finish
<1>5. pc' \in [Handler -> Point] /\ frame' \in [Handler -> Frame]
  BY <1>1, <1>3, <1>4
<1>6. pc'[h] = "free" /\ \A g \in Handler \ {h} : pc'[g] = pc[g] /\ frame'[g] = frame[g]
  BY <1>1, <1>4
<1> QED
  BY <1>2, <1>5, <1>6

-----------------------------------------------------------------------------
(* The invariant, one lemma for each kind of step.                          *)

LEMMA InitKeeps == Init => NegotiationInv
<1> SUFFICES ASSUME Init PROVE NegotiationInv
  OBVIOUS
<1>1. TypeOK
  <2>1. NoTicket \in Ticket /\ Idle \in Frame /\ "free" \in Point
    BY DEF NoTicket, Ticket, Idle, Frame, Kind, Point
  <2> QED
    BY <2>1, RequestAssumption DEF Init, TypeOK
<1>2. TicketSingleUse
  BY NameAssumption DEF Init, TicketSingleUse, Stored, Working
<1>3. Unopened
  BY NameAssumption DEF Init, Unopened, Unused, Stored
<1> QED
  BY <1>1, <1>2, <1>3 DEF NegotiationInv

\* A request opens a dialog: RequestTicket, RequestToken and RefreshToken.
LEMMA OpenKeeps ==
  ASSUME NegotiationInv, NEW h \in Handler, NEW kind \in Kind, NEW d \in Unused,
         NEW r \in RefreshId \cup {None}, NEW pushed \in SUBSET Credential,
         NEW wanted \in SUBSET Wanted, NEW claims \in SUBSET Credential,
         NEW needed \in SUBSET Wanted,
         Open(d, wanted, claims), Start(h, kind, d, r, pushed, needed),
         UNCHANGED <<ticketStore, refreshStore>>
  PROVE  NegotiationInv'
<1>1. TypeOK /\ TicketSingleUse /\ Unopened
  BY DEF NegotiationInv
<1>2. d \in Dialog /\ d \notin opened /\ opened' = opened \cup {d}
  BY DEF Unused, Open
<1>3. /\ pc' \in [Handler -> Point]
      /\ frame' \in [Handler -> Frame]
      /\ \A g \in Handler : pc'[g] # "free" => frame'[g].dialog \in opened'
      /\ UNCHANGED <<minted, negotiator, policy, changes>>
      /\ frame'[h].dialog = d
      /\ \A g \in Handler \ {h} : pc'[g] = pc[g] /\ frame'[g] = frame[g]
  BY <1>1, <1>2, StartTyped
<1>4. TypeOK'
  <2>1. [requested |-> wanted, provided |-> claims] \in Ticket
    BY DEF Ticket
  <2>2. ticket' \in [Dialog -> Ticket]
    BY <1>1, <2>1 DEF TypeOK, Open
  <2> QED
    BY <1>1, <1>2, <1>3, <2>2 DEF TypeOK
<1>5. \A g \in Handler, e \in Dialog :
        Working(g, e)' <=> IF g = h THEN Working(g, e)' /\ e = d ELSE Working(g, e)
  BY <1>3 DEF Working
<1>6. \A g \in Handler : ~Working(g, d)
  BY <1>1, <1>2 DEF TypeOK, Working
<1>7. minted[d] = 0 /\ \A i \in TicketId : ~Stored(i, d)
  BY <1>1 DEF Unopened
<1>8. \A i \in TicketId, e \in Dialog : Stored(i, e)' <=> Stored(i, e)
  BY DEF Stored
<1>9. TicketSingleUse'
  <2> SUFFICES ASSUME NEW e \in Dialog
               PROVE  /\ \A i, j \in TicketId : Stored(i, e)' /\ Stored(j, e)' => i = j
                      /\ \A g, k \in Handler : Working(g, e)' /\ Working(k, e)' => g = k
                      /\ \A i \in TicketId, g \in Handler :
                           ~(Stored(i, e)' /\ Working(g, e)')
                      /\ minted'[e] <= 1
                      /\ minted'[e] = 1 => /\ \A i \in TicketId : ~Stored(i, e)'
                                           /\ \A g \in Handler : ~Working(g, e)'
    BY DEF TicketSingleUse
  <2>1. CASE e = d
    BY <1>3, <1>5, <1>6, <1>7, <1>8, <2>1
  <2>2. CASE e # d
    BY <1>1, <1>3, <1>5, <1>8, <2>2 DEF TicketSingleUse
  <2> QED
    BY <2>1, <2>2
<1>10. Unopened'
  BY <1>1, <1>2, <1>3, <1>8 DEF Unopened, Unused
<1> QED
  BY <1>4, <1>9, <1>10 DEF NegotiationInv

\* What TicketSingleUse and Unopened say is kept by a step that leaves what it
\* depends on as it is, or in which a handler lets go of its dialog.
LEMMA LessKnownKeeps ==
  ASSUME TicketSingleUse, Unopened, UNCHANGED <<opened, ticketStore, minted>>,
         \A g \in Handler, e \in Dialog : Working(g, e)' => Working(g, e)
  PROVE  TicketSingleUse' /\ Unopened'
<1>1. \A i \in TicketId, e \in Dialog : Stored(i, e)' <=> Stored(i, e)
  BY DEF Stored
<1>2. TicketSingleUse'
  BY <1>1 DEF TicketSingleUse
<1>3. Unopened'
  BY <1>1 DEF Unopened, Unused
<1> QED
  BY <1>2, <1>3

\* A ticket is presented: RedeemTicket and RedeemForDerivation.
LEMMA PresentKeeps ==
  ASSUME NegotiationInv, NEW h \in Handler, NEW i \in TicketId,
         NEW pushed \in SUBSET Credential, NEW wanted \in SUBSET Wanted,
         ticketStore[i] # None, pc[h] = "free",
         ticket' \in [Dialog -> Ticket], ticketStore' = Taken(i),
         Start(h, "grant", ticketStore[i], None, pushed, wanted),
         UNCHANGED <<opened, refreshStore>>
  PROVE  NegotiationInv'
<1> DEFINE d == ticketStore[i]
<1>1. TypeOK /\ TicketSingleUse /\ Unopened
  BY DEF NegotiationInv
<1>2. /\ d \in Dialog /\ Stored(i, d) /\ pc[h] = "free"
      /\ ticketStore' = [ticketStore EXCEPT ![i] = None]
      /\ Start(h, "grant", d, None, pushed, wanted)
      /\ UNCHANGED <<opened, refreshStore>>
  BY <1>1 DEF Taken, TypeOK, Stored
<1>3. d \in opened
  BY <1>1, <1>2 DEF Unopened, Unused
<1> HIDE DEF d
<1>5. /\ pc' \in [Handler -> Point]
      /\ frame' \in [Handler -> Frame]
      /\ \A g \in Handler : pc'[g] # "free" => frame'[g].dialog \in opened'
      /\ UNCHANGED <<minted, negotiator, policy, changes>>
      /\ frame'[h].dialog = d
      /\ \A g \in Handler \ {h} : pc'[g] = pc[g] /\ frame'[g] = frame[g]
  BY <1>1, <1>2, <1>3, StartTyped DEF Kind
<1>6. TypeOK'
  <2>1. ticketStore' \in [TicketId -> Dialog \cup {None}]
    BY <1>1, <1>2 DEF TypeOK
  <2> QED
    BY <1>1, <1>2, <1>5, <2>1 DEF TypeOK
<1>7. \A g \in Handler, e \in Dialog :
        Working(g, e)' <=> IF g = h THEN Working(g, e)' /\ e = d ELSE Working(g, e)
  BY <1>5 DEF Working
<1>8. \A j \in TicketId, e \in Dialog : Stored(j, e)' <=> Stored(j, e) /\ j # i
  BY <1>1, <1>2, NameAssumption DEF Stored, TypeOK
<1>9. \A e \in Dialog : Stored(i, e) => e = d
  BY DEF Stored, d
<1>10. TicketSingleUse'
  <2> SUFFICES ASSUME NEW e \in Dialog
               PROVE  /\ \A j, k \in TicketId : Stored(j, e)' /\ Stored(k, e)' => j = k
                      /\ \A g, k \in Handler : Working(g, e)' /\ Working(k, e)' => g = k
                      /\ \A j \in TicketId, g \in Handler :
                           ~(Stored(j, e)' /\ Working(g, e)')
                      /\ minted'[e] <= 1
                      /\ minted'[e] = 1 => /\ \A j \in TicketId : ~Stored(j, e)'
                                           /\ \A g \in Handler : ~Working(g, e)'
    BY DEF TicketSingleUse
  <2>1. CASE e = d
    <3>1. /\ \A g \in Handler : ~Working(g, d)
          /\ \A j \in TicketId : Stored(j, d) => j = i
          /\ minted[d] <= 1 /\ minted[d] # 1
      BY <1>1, <1>2 DEF TicketSingleUse
    <3> QED
      BY <1>5, <1>7, <1>8, <2>1, <3>1
  <2>2. CASE e # d
    BY <1>1, <1>5, <1>7, <1>8, <2>2 DEF TicketSingleUse
  <2> QED
    BY <2>1, <2>2
<1>11. Unopened'
  BY <1>1, <1>2, <1>5, <1>8 DEF Unopened, Unused
<1> QED
  BY <1>6, <1>10, <1>11 DEF NegotiationInv

LEMMA RedeemKeeps ==
  ASSUME NegotiationInv, NEW h \in Handler, NEW i \in TicketId,
         NEW pushed \in SUBSET Credential, RedeemTicket(h, i, pushed)
  PROVE  NegotiationInv'
<1>1. TypeOK /\ ticketStore[i] \in Dialog
  BY DEF NegotiationInv, TypeOK, RedeemTicket
<1>2. ticket[ticketStore[i]].requested \in SUBSET Wanted
  BY <1>1 DEF TypeOK, Ticket
<1>3. ticket' \in [Dialog -> Ticket]
  BY <1>1 DEF TypeOK, RedeemTicket
<1> QED
  BY <1>2, <1>3, PresentKeeps DEF RedeemTicket

\* What RedeemForDerivation makes of the ticket.
LEMMA DerivationTicket ==
  ASSUME TypeOK, NEW h \in Handler, NEW i \in TicketId, NEW r \in DOMAIN Creation,
         NEW pushed \in SUBSET Credential, RedeemForDerivation(h, i, r, pushed)
  PROVE  LET d == ticketStore[i] IN
         /\ d \in Dialog
         /\ ticket' \in [Dialog -> Ticket]
         /\ ticket'[d].requested = ticket[d].requested \cup {Creation[r]}
         /\ ticket'[d].requested \in SUBSET Wanted
         /\ \A e \in Dialog \ {d} : ticket'[e] = ticket[e]
<1> DEFINE d == ticketStore[i]
           t == [ticket[d] EXCEPT !.requested = ticket[d].requested \cup {Creation[r]}]
<1>1. d \in Dialog /\ ticket' = [ticket EXCEPT ![d] = t]
  BY DEF TypeOK, RedeemForDerivation
<1>2. ticket[d] \in Ticket
  BY <1>1 DEF TypeOK
<1>3. Creation[r] \in Wanted
  BY RequestAssumption DEF Wanted
<1>4. /\ t \in Ticket
      /\ t.requested = ticket[d].requested \cup {Creation[r]}
      /\ t.requested \in SUBSET Wanted
  BY <1>2, <1>3 DEF Ticket
<1> HIDE DEF t, d
<1>5. /\ ticket' \in [Dialog -> Ticket]
      /\ ticket'[d].requested = ticket[d].requested \cup {Creation[r]}
      /\ ticket'[d].requested \in SUBSET Wanted
      /\ \A e \in Dialog \ {d} : ticket'[e] = ticket[e]
  BY <1>1, <1>4 DEF TypeOK
<1> QED
  BY <1>1, <1>5 DEF d

LEMMA DeriveKeeps ==
  ASSUME NegotiationInv, NEW h \in Handler, NEW i \in TicketId, NEW r \in DOMAIN Creation,
         NEW pushed \in SUBSET Credential, RedeemForDerivation(h, i, r, pushed)
  PROVE  NegotiationInv'
<1>1. TypeOK
  BY DEF NegotiationInv
<1> DEFINE wanted == ticket[ticketStore[i]].requested \cup {Creation[r]}
<1>2. ticket' \in [Dialog -> Ticket] /\ wanted \in SUBSET Wanted
  BY <1>1, DerivationTicket
<1>3. /\ ticketStore[i] # None /\ pc[h] = "free" /\ ticketStore' = Taken(i)
      /\ Start(h, "grant", ticketStore[i], None, pushed, wanted)
      /\ UNCHANGED <<opened, refreshStore>>
  BY DEF RedeemForDerivation
<1> HIDE DEF wanted
<1> QED
  BY <1>2, <1>3, PresentKeeps

\* A handler goes on with its dialog or is done with it: Verify, Evaluate, Grant,
\* Refuse, Public and Deny.
LEMMA GoOnKeeps ==
  ASSUME NegotiationInv, UNCHANGED <<opened, ticketStore, refreshStore, minted, negotiator, policy, changes>>,
         ticket' \in [Dialog -> Ticket],
         pc' \in [Handler -> Point], frame' \in [Handler -> Frame],
         \A g \in Handler :
           pc'[g] # "free" => pc[g] # "free" /\ frame'[g].dialog = frame[g].dialog
  PROVE  NegotiationInv'
<1>1. TypeOK /\ TicketSingleUse /\ Unopened
  BY DEF NegotiationInv
<1>2. TypeOK'
  BY <1>1 DEF TypeOK
<1>3. \A g \in Handler, e \in Dialog : Working(g, e)' => Working(g, e)
  BY DEF Working
<1>4. TicketSingleUse' /\ Unopened'
  BY <1>1, <1>3, LessKnownKeeps
<1> QED
  BY <1>2, <1>4 DEF NegotiationInv

LEMMA VerifyKeeps ==
  ASSUME NegotiationInv, NEW h \in Handler, NEW c \in Credential, Verify(h, c)
  PROVE  NegotiationInv'
<1> DEFINE d == frame[h].dialog
           left == frame[h].pushed \ {c}
           needed == Unsettled(frame[h].needed, {c})
           t == [ticket[d] EXCEPT !.provided = @ \cup {c}]
           f == [frame[h] EXCEPT !.pushed = left, !.needed = needed, !.pending = needed]
<1>1. TypeOK /\ pc[h] = "verify"
  BY DEF NegotiationInv, Verify
<1>2. frame[h] \in Frame /\ d \in Dialog
  BY <1>1 DEF TypeOK
<1>3. left \in SUBSET Credential /\ needed \in SUBSET Wanted
  BY <1>2 DEF Frame, Unsettled
<1>4. f \in Frame /\ f.dialog = frame[h].dialog
  BY <1>2, <1>3 DEF Frame
<1>5. t \in Ticket
  BY <1>1, <1>2 DEF TypeOK, Ticket
<1>6. /\ ticket' = [ticket EXCEPT ![d] = t]
      /\ frame' = [frame EXCEPT ![h] = f]
      /\ pc' = [pc EXCEPT ![h] = IF left = {} THEN "evaluate" ELSE "verify"]
      /\ UNCHANGED <<opened, ticketStore, refreshStore, minted, negotiator, policy, changes>>
  BY DEF Verify, Collected
<1> HIDE DEF d, left, needed, t, f
<1>7. /\ ticket' \in [Dialog -> Ticket]
      /\ pc' \in [Handler -> Point]
      /\ frame' \in [Handler -> Frame]
  BY <1>1, <1>2, <1>4, <1>5, <1>6 DEF TypeOK, Point
<1>8. \A g \in Handler :
        pc'[g] # "free" => pc[g] # "free" /\ frame'[g].dialog = frame[g].dialog
  BY <1>1, <1>4, <1>6 DEF TypeOK
<1> QED
  BY <1>6, <1>7, <1>8, GoOnKeeps

LEMMA EvaluateKeeps ==
  ASSUME NegotiationInv, NEW h \in Handler, NEW p \in Wanted, Evaluate(h, p)
  PROVE  NegotiationInv'
<1> DEFINE granted == IF p \in policy[ticket[frame[h].dialog].provided]
                      THEN frame[h].granted \cup {p} ELSE frame[h].granted
           f == [frame[h] EXCEPT !.pending = @ \ {p}, !.granted = granted]
<1>1. TypeOK /\ pc[h] = "evaluate"
  BY DEF NegotiationInv, Evaluate
<1>2. frame[h] \in Frame
  BY <1>1 DEF TypeOK
<1>3. f \in Frame /\ f.dialog = frame[h].dialog
  BY <1>2 DEF Frame
<1>4. frame' = [frame EXCEPT ![h] = f] /\ UNCHANGED <<stores, negotiator, policy, changes, pc>>
  BY DEF Evaluate
<1> HIDE DEF f
<1>5. /\ ticket' \in [Dialog -> Ticket]
      /\ pc' \in [Handler -> Point]
      /\ frame' \in [Handler -> Frame]
  BY <1>1, <1>3, <1>4 DEF TypeOK, stores
<1>6. \A g \in Handler :
        pc'[g] # "free" => pc[g] # "free" /\ frame'[g].dialog = frame[g].dialog
  BY <1>1, <1>3, <1>4 DEF TypeOK
<1> QED
  BY <1>4, <1>5, <1>6, GoOnKeeps DEF stores

LEMMA GrantKeeps ==
  ASSUME NegotiationInv, NEW h \in Handler, Grant(h)
  PROVE  NegotiationInv'
<1>1. TypeOK /\ pc[h] = "evaluate"
  BY DEF NegotiationInv, Grant, Evaluated
<1>2. pc' = [pc EXCEPT ![h] = "mint"] /\ UNCHANGED <<stores, negotiator, policy, changes, frame>>
  BY DEF Grant
<1>3. /\ ticket' \in [Dialog -> Ticket]
      /\ pc' \in [Handler -> Point]
      /\ frame' \in [Handler -> Frame]
  BY <1>1, <1>2 DEF TypeOK, Point, stores
<1>4. \A g \in Handler :
        pc'[g] # "free" => pc[g] # "free" /\ frame'[g].dialog = frame[g].dialog
  BY <1>1, <1>2 DEF TypeOK
<1> QED
  BY <1>2, <1>3, <1>4, GoOnKeeps DEF stores

\* Refuse, Public and Deny.
LEMMA EndKeeps ==
  ASSUME NegotiationInv, NEW h \in Handler, Finish(h), UNCHANGED <<stores, negotiator, policy, changes>>
  PROVE  NegotiationInv'
<1>1. TypeOK /\ UNCHANGED <<opened, ticket, ticketStore, refreshStore, minted, negotiator, policy, changes>>
  BY DEF NegotiationInv, stores
<1>2. /\ pc' \in [Handler -> Point]
      /\ frame' \in [Handler -> Frame]
      /\ pc'[h] = "free"
      /\ \A g \in Handler \ {h} : pc'[g] = pc[g] /\ frame'[g] = frame[g]
  BY <1>1, FinishTyped
<1>3. ticket' \in [Dialog -> Ticket]
  BY <1>1 DEF TypeOK
<1> QED
  BY <1>1, <1>2, <1>3, GoOnKeeps

\* The ticket object is stored again, under another identifier.
LEMMA StoreTicketKeeps ==
  ASSUME NegotiationInv, NEW h \in Handler, StoreTicket(h)
  PROVE  NegotiationInv'
<1> DEFINE d == frame[h].dialog
           i == Pick(FreeIds)
<1>1. TypeOK /\ TicketSingleUse /\ Unopened
  BY DEF NegotiationInv
<1>2. /\ Evaluated(h) /\ FreeIds # {} /\ Finish(h)
      /\ ticketStore' = [ticketStore EXCEPT ![i] = d]
      /\ UNCHANGED <<opened, ticket, refreshStore, minted, negotiator, policy, changes>>
  BY DEF StoreTicket
<1>3. i \in TicketId /\ ticketStore[i] = None
  BY <1>2, PickIn DEF FreeIds
<1>4. pc[h] # "free" /\ d \in opened /\ d \in Dialog
  BY <1>1, <1>2 DEF Evaluated, TypeOK
<1> HIDE DEF i
<1>5. /\ pc' \in [Handler -> Point]
      /\ frame' \in [Handler -> Frame]
      /\ \A g \in Handler : pc'[g] # "free" => frame'[g].dialog \in opened'
      /\ pc'[h] = "free"
      /\ \A g \in Handler \ {h} : pc'[g] = pc[g] /\ frame'[g] = frame[g]
  BY <1>1, <1>2, FinishTyped
<1>6. TypeOK'
  <2>1. ticketStore' \in [TicketId -> Dialog \cup {None}]
    BY <1>1, <1>2, <1>4 DEF TypeOK
  <2> QED
    BY <1>1, <1>2, <1>5, <2>1 DEF TypeOK
<1>7. Working(h, d)
  BY <1>4 DEF Working
<1> HIDE DEF d
<1>8. \A g \in Handler, e \in Dialog : Working(g, e)' <=> Working(g, e) /\ g # h
  BY <1>5 DEF Working
<1>9. \A j \in TicketId, e \in Dialog :
        Stored(j, e)' <=> IF j = i THEN e = d ELSE Stored(j, e)
  BY <1>1, <1>2, <1>3 DEF Stored, TypeOK
<1>10. \A e \in Dialog : ~Stored(i, e)
  BY <1>3, NameAssumption DEF Stored
<1>11. TicketSingleUse'
  <2> SUFFICES ASSUME NEW e \in Dialog
               PROVE  /\ \A j, k \in TicketId : Stored(j, e)' /\ Stored(k, e)' => j = k
                      /\ \A g, k \in Handler : Working(g, e)' /\ Working(k, e)' => g = k
                      /\ \A j \in TicketId, g \in Handler :
                           ~(Stored(j, e)' /\ Working(g, e)')
                      /\ minted'[e] <= 1
                      /\ minted'[e] = 1 => /\ \A j \in TicketId : ~Stored(j, e)'
                                           /\ \A g \in Handler : ~Working(g, e)'
    BY DEF TicketSingleUse
  <2>1. CASE e = d
    <3>1. /\ \A g \in Handler : Working(g, d) => g = h
          /\ \A j \in TicketId : ~Stored(j, d)
          /\ minted[d] <= 1 /\ minted[d] # 1
      BY <1>1, <1>4, <1>7 DEF TicketSingleUse
    <3> QED
      BY <1>2, <1>8, <1>9, <2>1, <3>1
  <2>2. CASE e # d
    BY <1>1, <1>2, <1>8, <1>9, <1>10, <2>2 DEF TicketSingleUse
  <2> QED
    BY <2>1, <2>2
<1>12. Unopened'
  BY <1>1, <1>2, <1>4, <1>9 DEF Unopened, Unused
<1> QED
  BY <1>6, <1>11, <1>12 DEF NegotiationInv

\* The dialog whose token is signed is over.
LEMMA MintEndsDialog ==
  ASSUME TypeOK, TicketSingleUse, Unopened, NEW h \in Handler,
         pc[h] = "mint", Finish(h), minted' = [minted EXCEPT ![frame[h].dialog] = @ + 1],
         UNCHANGED <<opened, ticketStore>>
  PROVE  TicketSingleUse' /\ Unopened'
<1> DEFINE d == frame[h].dialog
<1>1. pc[h] # "free" /\ d \in opened /\ d \in Dialog
  BY DEF TypeOK
<1>2. /\ pc'[h] = "free"
      /\ \A g \in Handler \ {h} : pc'[g] = pc[g] /\ frame'[g] = frame[g]
  BY FinishTyped
<1>3. Working(h, d)
  BY <1>1 DEF Working
<1>4. minted'[d] = minted[d] + 1 /\ \A e \in Dialog \ {d} : minted'[e] = minted[e]
  BY <1>1 DEF TypeOK
<1> HIDE DEF d
<1>5. \A g \in Handler, e \in Dialog : Working(g, e)' <=> Working(g, e) /\ g # h
  BY <1>2 DEF Working
<1>6. \A i \in TicketId, e \in Dialog : Stored(i, e)' <=> Stored(i, e)
  BY DEF Stored
<1>7. TicketSingleUse'
  <2> SUFFICES ASSUME NEW e \in Dialog
               PROVE  /\ \A i, j \in TicketId : Stored(i, e)' /\ Stored(j, e)' => i = j
                      /\ \A g, k \in Handler : Working(g, e)' /\ Working(k, e)' => g = k
                      /\ \A i \in TicketId, g \in Handler :
                           ~(Stored(i, e)' /\ Working(g, e)')
                      /\ minted'[e] <= 1
                      /\ minted'[e] = 1 => /\ \A i \in TicketId : ~Stored(i, e)'
                                           /\ \A g \in Handler : ~Working(g, e)'
    BY DEF TicketSingleUse
  <2>1. CASE e = d
    <3>1. /\ \A g \in Handler : Working(g, d) => g = h
          /\ \A j \in TicketId : ~Stored(j, d)
          /\ minted[d] \in Nat /\ minted[d] <= 1 /\ minted[d] # 1
      BY <1>1, <1>3 DEF TicketSingleUse, TypeOK
    <3> QED
      BY <1>4, <1>5, <1>6, <2>1, <3>1
  <2>2. CASE e # d
    BY <1>4, <1>5, <1>6, <2>2 DEF TicketSingleUse
  <2> QED
    BY <2>1, <2>2
<1>8. Unopened'
  BY <1>1, <1>4, <1>6 DEF Unopened, Unused
<1> QED
  BY <1>7, <1>8

\* A token is signed and a refresh token is stored.
LEMMA MintKeeps ==
  ASSUME NegotiationInv, NEW h \in Handler, Mint(h)
  PROVE  NegotiationInv'
<1> DEFINE d == frame[h].dialog
           new == [claims |-> ticket[d].provided, permissions |-> frame[h].granted,
                   expired |-> FALSE]
<1>1. TypeOK /\ TicketSingleUse /\ Unopened
  BY DEF NegotiationInv
<1>2. /\ pc[h] = "mint" /\ Finish(h)
      /\ minted' = [minted EXCEPT ![d] = @ + 1]
      /\ refreshStore' = [r \in RefreshId |->
           IF r = Pick(FreeRefreshIds) THEN new
           ELSE IF r = frame[h].refresh THEN None
           ELSE refreshStore[r]]
      /\ UNCHANGED <<opened, ticket, ticketStore, negotiator, policy, changes>>
  BY DEF Mint
<1>3. d \in Dialog
  BY <1>1, <1>2 DEF TypeOK
<1>4. /\ pc' \in [Handler -> Point]
      /\ frame' \in [Handler -> Frame]
      /\ \A g \in Handler : pc'[g] # "free" => frame'[g].dialog \in opened'
  BY <1>1, <1>2, FinishTyped
<1>5. new \in RefreshInformation
  <2>1. ticket[d] \in Ticket /\ frame[h] \in Frame
    BY <1>1, <1>3 DEF TypeOK
  <2> QED
    BY <2>1 DEF Ticket, Frame, RefreshInformation
<1>6. TicketSingleUse' /\ Unopened'
  BY <1>1, <1>2, MintEndsDialog
<1> HIDE DEF new
<1>7. TypeOK'
  <2>1. refreshStore' \in [RefreshId -> RefreshInformation \cup {None}]
    BY <1>1, <1>2, <1>5 DEF TypeOK
  <2>2. minted' \in [Dialog -> Nat]
    BY <1>1, <1>2, <1>3 DEF TypeOK
  <2> QED
    BY <1>1, <1>2, <1>4, <2>1, <2>2 DEF TypeOK
<1> QED
  BY <1>6, <1>7 DEF NegotiationInv

\* A token for a contract is signed: there is no refresh token.
LEMMA MintContractKeeps ==
  ASSUME NegotiationInv, NEW h \in Handler, MintContract(h)
  PROVE  NegotiationInv'
<1> DEFINE d == frame[h].dialog
<1>1. TypeOK /\ TicketSingleUse /\ Unopened
  BY DEF NegotiationInv
<1>2. /\ pc[h] = "mint" /\ Finish(h)
      /\ minted' = [minted EXCEPT ![d] = @ + 1]
      /\ UNCHANGED <<opened, ticket, ticketStore, refreshStore, negotiator, policy, changes>>
  BY DEF MintContract
<1>3. /\ pc' \in [Handler -> Point]
      /\ frame' \in [Handler -> Frame]
      /\ \A g \in Handler : pc'[g] # "free" => frame'[g].dialog \in opened'
  BY <1>1, <1>2, FinishTyped
<1>4. d \in Dialog
  BY <1>1, <1>2 DEF TypeOK
<1>5. minted' \in [Dialog -> Nat]
  BY <1>1, <1>2, <1>4 DEF TypeOK
<1>6. TypeOK'
  BY <1>1, <1>2, <1>3, <1>5 DEF TypeOK
<1>7. TicketSingleUse' /\ Unopened'
  BY <1>1, <1>2, MintEndsDialog
<1> QED
  BY <1>6, <1>7 DEF NegotiationInv

\* Refresh tokens expire and policies change.
LEMMA EnvironmentKeeps ==
  ASSUME NegotiationInv,
         ChangePolicy \/ \E r \in RefreshId : ExpireRefresh(r) \/ DropExpired(r)
  PROVE  NegotiationInv'
<1>1. TypeOK /\ TicketSingleUse /\ Unopened
  BY DEF NegotiationInv
<1>2. CASE ChangePolicy
  <2>1. changes' \in Nat /\ policy' \in Policies /\ UNCHANGED <<negotiator, stores, pc, frame>>
    BY <1>1, <1>2 DEF ChangePolicy, TypeOK
  <2>2. TypeOK'
    BY <1>1, <2>1 DEF TypeOK, stores
  <2>3. TicketSingleUse' /\ Unopened'
    BY <1>1, <2>1, LessKnownKeeps DEF stores, Working
  <2> QED
    BY <2>2, <2>3 DEF NegotiationInv
<1>3. CASE \E r \in RefreshId : ExpireRefresh(r) \/ DropExpired(r)
  <2> SUFFICES ASSUME NEW r \in RefreshId, ExpireRefresh(r) \/ DropExpired(r)
               PROVE  NegotiationInv'
    BY <1>3
  <2>1. UNCHANGED <<opened, ticket, ticketStore, minted, negotiator, policy, changes, pc, frame>>
    BY DEF ExpireRefresh, DropExpired
  <2>2. refreshStore' \in [RefreshId -> RefreshInformation \cup {None}]
    <3>1. CASE ExpireRefresh(r)
      <4>1. refreshStore[r] \in RefreshInformation
        BY <1>1, <3>1 DEF ExpireRefresh, TypeOK
      <4>2. [refreshStore[r] EXCEPT !.expired = TRUE] \in RefreshInformation
        BY <4>1 DEF RefreshInformation
      <4> QED
        BY <1>1, <3>1, <4>2 DEF ExpireRefresh, TypeOK
    <3>2. CASE DropExpired(r)
      BY <1>1, <3>2 DEF DropExpired, TypeOK
    <3> QED
      BY <3>1, <3>2
  <2>3. TypeOK'
    BY <1>1, <2>1, <2>2 DEF TypeOK
  <2>4. TicketSingleUse' /\ Unopened'
    BY <1>1, <2>1, LessKnownKeeps DEF Working
  <2> QED
    BY <2>3, <2>4 DEF NegotiationInv
<1> QED
  BY <1>2, <1>3

-----------------------------------------------------------------------------
(* Every step.                                                              *)

LEMMA ReceiveKeeps ==
  ASSUME NegotiationInv, NEW h \in Handler, Receive(h)
  PROVE  NegotiationInv'
<1>1. CASE \E asked \in Requests :
             RequestTicket(h, asked) \/ \E pushed \in Pushes : RequestToken(h, asked, pushed)
  <2> DEFINE d == Pick(Unused)
  <2>1. PICK asked \in Requests :
          RequestTicket(h, asked) \/ \E pushed \in Pushes : RequestToken(h, asked, pushed)
    BY <1>1
  <2>2. Initialized(asked) \in SUBSET Wanted
    BY InitializedTyped, RequestAssumption
  <2>3. d \in Unused
    BY <2>1, PickIn DEF RequestTicket, RequestToken
  <2>4. CASE RequestTicket(h, asked)
    <3>1. /\ Open(d, Initialized(asked), {})
          /\ Start(h, "ticket", d, None, {}, Initialized(asked))
          /\ UNCHANGED <<ticketStore, refreshStore>>
      BY <2>4 DEF RequestTicket
    <3> HIDE DEF d
    <3> QED
      BY <2>2, <2>3, <3>1, OpenKeeps DEF Kind
  <2>5. CASE \E pushed \in Pushes : RequestToken(h, asked, pushed)
    <3>1. PICK pushed \in Pushes : RequestToken(h, asked, pushed)
      BY <2>5
    <3>2. /\ Open(d, Initialized(asked), {})
          /\ Start(h, "grant", d, None, pushed, Initialized(asked))
          /\ UNCHANGED <<ticketStore, refreshStore>>
      BY <3>1 DEF RequestToken
    <3>3. pushed \in SUBSET Credential
      BY RequestAssumption
    <3> HIDE DEF d
    <3> QED
      BY <2>2, <2>3, <3>2, <3>3, OpenKeeps DEF Kind
  <2> QED
    BY <2>1, <2>4, <2>5
<1>2. CASE \E i \in TicketId, pushed \in Pushes : RedeemTicket(h, i, pushed)
  <2>1. PICK i \in TicketId, pushed \in Pushes : RedeemTicket(h, i, pushed)
    BY <1>2
  <2> QED
    BY <2>1, RedeemKeeps, RequestAssumption
<1>3. CASE \E r \in RefreshId : RefreshToken(h, r)
  <2>1. PICK r \in RefreshId : RefreshToken(h, r)
    BY <1>3
  <2> DEFINE d == Pick(Unused)
             wanted == Initialized(refreshStore[r].permissions \cap Permission)
             claims == refreshStore[r].claims
  <2>2. /\ refreshStore[r] # None
        /\ Open(d, wanted, claims)
        /\ Start(h, "refresh", d, r, {}, Unsettled(wanted, claims))
        /\ UNCHANGED <<ticketStore, refreshStore>>
    BY <2>1 DEF RefreshToken, StartRefresh, RefreshRead
  <2>3. d \in Unused
    BY <2>1, PickIn DEF RefreshToken
  <2>4. refreshStore[r] \in RefreshInformation
    BY <2>2 DEF NegotiationInv, TypeOK
  <2>5. claims \in SUBSET Credential
    BY <2>4 DEF RefreshInformation
  <2>6. wanted \in SUBSET Wanted
    BY InitializedTyped
  <2> HIDE DEF d, wanted, claims
  <2>7. Unsettled(wanted, claims) \in SUBSET Wanted
    BY <2>6 DEF Unsettled
  <2> QED
    BY <2>2, <2>3, <2>5, <2>6, <2>7, OpenKeeps DEF Kind
<1>4. CASE \E i \in TicketId, pushed \in Pushes :
             \E r \in DOMAIN Creation : RedeemForDerivation(h, i, r, pushed)
  <2>1. PICK i \in TicketId, pushed \in Pushes :
          \E r \in DOMAIN Creation : RedeemForDerivation(h, i, r, pushed)
    BY <1>4
  <2> QED
    BY <2>1, DeriveKeeps, RequestAssumption
<1> QED
  BY <1>1, <1>2, <1>3, <1>4 DEF Receive

LEMMA HandleKeeps ==
  ASSUME NegotiationInv, NEW h \in Handler, Handle(h)
  PROVE  NegotiationInv'
<1>1. CASE \E c \in Credential : Verify(h, c)
  BY <1>1, VerifyKeeps
<1>2. CASE \E p \in Wanted : Evaluate(h, p)
  BY <1>2, EvaluateKeeps
<1>3. CASE Refuse(h) \/ Public(h) \/ Deny(h) \/ Unwritable(h)
  BY <1>3, EndKeeps DEF Refuse, Public, Deny, Unwritable
<1>4. CASE StoreTicket(h)
  BY <1>4, StoreTicketKeeps
<1>5. CASE Grant(h)
  BY <1>5, GrantKeeps
<1>6. CASE Mint(h)
  BY <1>6, MintKeeps
<1>7. CASE MintContract(h)
  BY <1>7, MintContractKeeps
<1> QED
  BY <1>1, <1>2, <1>3, <1>4, <1>5, <1>6, <1>7 DEF Handle

LEMMA NextKeeps ==
  ASSUME NegotiationInv, [Next]_vars
  PROVE  NegotiationInv'
<1>1. CASE Next
  BY <1>1, ReceiveKeeps, HandleKeeps, EnvironmentKeeps DEF Next
<1>2. CASE UNCHANGED vars
  BY <1>2 DEF vars, stores, NegotiationInv, TypeOK, TicketSingleUse, Unopened, Unused,
              Stored, Working
<1> QED
  BY <1>1, <1>2

\* The invariant holds in every state of the server.
THEOREM NegotiationCorrect == Spec => []NegotiationInv
BY InitKeeps, NextKeeps, PTL DEF Spec

\* What the server stores and what its handlers hold has its type.
THEOREM NegotiationTyped == Spec => []TypeOK
<1>1. NegotiationInv => TypeOK
  BY DEF NegotiationInv
<1> QED
  BY <1>1, NegotiationCorrect, PTL

\* A ticket is used once: no two requests work on one dialog, however many
\* present its ticket, and no dialog leads to two access tokens.
THEOREM TicketUsedOnce == Spec => []TicketSingleUse
<1>1. NegotiationInv => TicketSingleUse
  BY DEF NegotiationInv
<1> QED
  BY <1>1, NegotiationCorrect, PTL

-----------------------------------------------------------------------------
(* Rotation.                                                                *)

\* A token that is removed before it expires is replaced in the same step.
LEMMA StepRotates ==
  ASSUME NegotiationInv, [Next]_vars, NEW r \in RefreshId,
         refreshStore[r] # None, ~refreshStore[r].expired, refreshStore'[r] = None
  PROVE  \E s \in RefreshId : refreshStore[s] = None /\ refreshStore'[s] # None
<1>1. refreshStore \in [RefreshId -> RefreshInformation \cup {None}]
  BY DEF NegotiationInv, TypeOK
<1>2. CASE \E h \in Handler : Mint(h)
  <2>1. PICK h \in Handler : Mint(h)
    BY <1>2
  <2> DEFINE s == Pick(FreeRefreshIds)
             new == [claims |-> ticket[frame[h].dialog].provided,
                     permissions |-> frame[h].granted, expired |-> FALSE]
  <2>2. /\ pc[h] = "mint" /\ FreeRefreshIds # {}
        /\ refreshStore' = [q \in RefreshId |->
             IF q = s THEN new
             ELSE IF q = frame[h].refresh THEN None
             ELSE refreshStore[q]]
    BY <2>1 DEF Mint
  <2>3. s \in RefreshId /\ refreshStore[s] = None
    BY <2>2, PickIn DEF FreeRefreshIds
  <2>4. new \in RefreshInformation
    <3>1. frame[h] \in Frame /\ ticket[frame[h].dialog] \in Ticket
      BY <2>2 DEF NegotiationInv, TypeOK
    <3> QED
      BY <3>1 DEF Frame, Ticket, RefreshInformation
  <2>5. refreshStore'[s] # None
    BY <2>2, <2>3, <2>4, NoInformation
  <2> QED
    BY <2>3, <2>5
<1>3. CASE \E q \in RefreshId : ExpireRefresh(q) \/ DropExpired(q)
  <2>1. PICK q \in RefreshId : ExpireRefresh(q) \/ DropExpired(q)
    BY <1>3
  <2>2. CASE ExpireRefresh(q)
    <3>1. [refreshStore[q] EXCEPT !.expired = TRUE] \in RefreshInformation
      <4>1. refreshStore[q] \in RefreshInformation
        BY <1>1, <2>2 DEF ExpireRefresh
      <4> QED
        BY <4>1 DEF RefreshInformation
    <3>2. refreshStore' = [refreshStore EXCEPT
                             ![q] = [refreshStore[q] EXCEPT !.expired = TRUE]]
      BY <2>2 DEF ExpireRefresh
    <3>3. refreshStore'[r] # None
      BY <1>1, <3>1, <3>2, NoInformation
    <3> QED
      BY <3>3
  <2>3. CASE DropExpired(q)
    BY <1>1, <2>3 DEF DropExpired
  <2> QED
    BY <2>1, <2>2, <2>3
<1>4. CASE UNCHANGED refreshStore
  BY <1>4
<1>5. CASE \E h \in Handler : Receive(h)
  BY <1>4, <1>5 DEF Receive, RequestTicket, RequestToken, RedeemTicket,
                    RedeemForDerivation, RefreshToken, RefreshRead
<1>6. CASE \E h \in Handler : Handle(h)
  BY <1>2, <1>4, <1>6 DEF Handle, Verify, Evaluate, Refuse, Public, Deny, StoreTicket,
                          Unwritable, Grant, MintContract, stores
<1>7. CASE ChangePolicy \/ UNCHANGED vars
  BY <1>4, <1>7 DEF ChangePolicy, vars, stores
<1> QED
  BY <1>3, <1>5, <1>6, <1>7 DEF Next

\* A client that refreshes is never left without a refresh token.
THEOREM RefreshKeepsAccess == Spec => RotationKeepsAccess
<1>1. ASSUME NegotiationInv, [Next]_vars
      PROVE  [\A r \in RefreshId :
                refreshStore[r] # None /\ ~refreshStore[r].expired /\ refreshStore'[r] = None
                => \E s \in RefreshId : refreshStore[s] = None /\ refreshStore'[s] # None]_vars
  BY <1>1, StepRotates
<1> QED
  BY <1>1, NegotiationCorrect, PTL DEF Spec, RotationKeepsAccess

-----------------------------------------------------------------------------
(* Derivations.                                                             *)

\* What a handler still needs, or found allowed, belongs to its ticket, and what
\* it no longer needs was proven.
Settled(h) ==
  pc[h] # "free" =>
    /\ frame[h].needed \subseteq ticket[frame[h].dialog].requested
    /\ frame[h].pending \subseteq ticket[frame[h].dialog].requested
    /\ frame[h].granted \subseteq ticket[frame[h].dialog].requested
    /\ ticket[frame[h].dialog].requested \ frame[h].needed
         \subseteq ticket[frame[h].dialog].provided
    /\ pc[h] = "mint" => Missing(h) = {}

\* A ticket asks for the derivations of all it asks for.
DerivationInv ==
  /\ \A d \in opened : \A p \in ticket[d].requested \cap Permission :
       DerivedFrom[p] \subseteq ticket[d].requested
  /\ \A h \in Handler : Settled(h)

\* The other handlers notice nothing: an open ticket asks for what it did, and
\* what is proven in it stays proven.
LEMMA OthersSettled ==
  ASSUME TypeOK, DerivationInv, NEW h \in Handler, Settled(h)',
         \A g \in Handler \ {h} : pc'[g] = pc[g] /\ frame'[g] = frame[g],
         \A d \in opened : /\ ticket'[d].requested = ticket[d].requested
                           /\ ticket[d].provided \subseteq ticket'[d].provided,
         \A d \in opened' \ opened : \A p \in ticket'[d].requested \cap Permission :
           DerivedFrom[p] \subseteq ticket'[d].requested
  PROVE  DerivationInv'
<1>1. \A d \in opened' : \A p \in ticket'[d].requested \cap Permission :
        DerivedFrom[p] \subseteq ticket'[d].requested
  BY DEF DerivationInv
<1>2. ASSUME NEW g \in Handler PROVE Settled(g)'
  <2>1. CASE g = h
    BY <2>1
  <2>2. CASE g # h
    <3>1. pc'[g] = pc[g] /\ frame'[g] = frame[g]
      BY <2>2
    <3>2. pc[g] # "free" => frame[g].dialog \in opened
      BY DEF TypeOK
    <3> QED
      BY <3>1, <3>2 DEF DerivationInv, Settled, Missing
  <2> QED
    BY <2>1, <2>2
<1> QED
  BY <1>1, <1>2 DEF DerivationInv, Settled

\* An initialized ticket asks for all derivations.
LEMMA InitializedClosed ==
  ASSUME NEW asked \in SUBSET Permission
  PROVE  \A p \in Initialized(asked) \cap Permission : DerivedFrom[p] \subseteq Initialized(asked)
<1>1. \A p \in Permission : DerivedFrom[p] \subseteq Derived
  BY RequestAssumption
<1>2. Derived \cap Permission = {}
  BY RequestAssumption
<1> QED
  BY <1>1, <1>2 DEF Initialized

\* A request opens a dialog.
LEMMA OpenSettles ==
  ASSUME TypeOK, DerivationInv, NEW h \in Handler, NEW kind \in Kind, NEW d \in Unused,
         NEW r \in RefreshId \cup {None}, NEW pushed \in SUBSET Credential,
         NEW asked \in SUBSET Permission, NEW claims \in SUBSET Credential,
         Open(d, Initialized(asked), claims),
         Start(h, kind, d, r, pushed, Unsettled(Initialized(asked), claims))
  PROVE  DerivationInv'
<1> DEFINE wanted == Initialized(asked)
           needed == Unsettled(wanted, claims)
<1>1. d \in Dialog /\ d \notin opened /\ opened' = opened \cup {d}
  BY DEF Unused, Open
<1>2. ticket' = [ticket EXCEPT ![d] = [requested |-> wanted, provided |-> claims]]
  BY DEF Open
<1>3. /\ pc' = [pc EXCEPT ![h] = IF pushed = {} THEN "evaluate" ELSE "verify"]
      /\ frame' = [frame EXCEPT ![h] =
           [kind |-> kind, dialog |-> d, refresh |-> r, pushed |-> pushed,
            needed |-> needed, pending |-> needed, granted |-> {}, since |-> changes]]
  BY DEF Start
<1>4. ticket'[d].requested = wanted /\ ticket'[d].provided = claims
  BY <1>1, <1>2 DEF TypeOK
<1>5. needed \subseteq wanted /\ wanted \ needed \subseteq claims
  BY DEF Unsettled
<1> HIDE DEF needed
<1>6. Settled(h)'
  BY <1>3, <1>4, <1>5 DEF TypeOK, Settled
<1>7. \A g \in Handler \ {h} : pc'[g] = pc[g] /\ frame'[g] = frame[g]
  BY <1>3 DEF TypeOK
<1>8. \A e \in opened : ticket'[e] = ticket[e]
  BY <1>1, <1>2 DEF TypeOK
<1>9. \A e \in opened' \ opened : \A p \in ticket'[e].requested \cap Permission :
        DerivedFrom[p] \subseteq ticket'[e].requested
  BY <1>1, <1>4, InitializedClosed
<1> QED
  BY <1>6, <1>7, <1>8, <1>9, OthersSettled

\* A client wants to derive something from the one resource of its ticket: what
\* that resource is derived from, the ticket asks for already.
LEMMA DeriveSettles ==
  ASSUME NegotiationInv, DerivationInv, NEW h \in Handler, NEW i \in TicketId,
         NEW r \in DOMAIN Creation, NEW pushed \in SUBSET Credential,
         RedeemForDerivation(h, i, r, pushed)
  PROVE  DerivationInv'
<1> DEFINE d == ticketStore[i]
           wanted == ticket[d].requested \cup {Creation[r]}
<1>1. TypeOK /\ TicketSingleUse /\ Unopened
  BY DEF NegotiationInv
<1>2. /\ d # None
      /\ {ResourceOf[p] : p \in ticket[d].requested} = {r}
      /\ Start(h, "grant", d, None, pushed, wanted)
      /\ opened' = opened
  BY DEF RedeemForDerivation
<1>3. /\ d \in Dialog
      /\ ticket'[d].requested = wanted
      /\ wanted \in SUBSET Wanted
      /\ \A e \in Dialog \ {d} : ticket'[e] = ticket[e]
  BY <1>1, DerivationTicket
<1>4. Stored(i, d)
  BY DEF Stored
<1>5. d \in opened
  BY <1>1, <1>3, <1>4 DEF Unopened, Unused
<1>6. PICK q \in ticket[d].requested : ResourceOf[q] = r
  BY <1>2
<1>7. /\ q \in Permission /\ DerivedFrom[q] = DerivedFrom[Creation[r]]
      /\ Creation[r] \in Permission
  <2>1. q \in Wanted
    BY <1>3, <1>6
  <2>2. Creation[r] \in Permission /\ ResourceOf[Creation[r]] = r
    BY RequestAssumption
  <2>3. q \in Permission
    BY <1>6, <2>1, <2>2, RequestAssumption DEF Wanted
  <2> QED
    BY <1>6, <2>2, <2>3, RequestAssumption
<1>8. \A p \in wanted \cap Permission : DerivedFrom[p] \subseteq wanted
  BY <1>5, <1>6, <1>7 DEF DerivationInv
<1> HIDE DEF d, wanted
<1>9. \A e \in opened' : \A p \in ticket'[e].requested \cap Permission :
        DerivedFrom[p] \subseteq ticket'[e].requested
  <2> SUFFICES ASSUME NEW e \in opened
               PROVE  \A p \in ticket'[e].requested \cap Permission :
                        DerivedFrom[p] \subseteq ticket'[e].requested
    BY <1>2
  <2>1. CASE e = d
    BY <1>3, <1>8, <2>1
  <2>2. CASE e # d
    BY <1>1, <1>3, <2>2 DEF DerivationInv, TypeOK
  <2> QED
    BY <2>1, <2>2
<1>10. Settled(h)'
  BY <1>1, <1>2, <1>3 DEF TypeOK, Start, Settled
<1>11. ASSUME NEW g \in Handler, g # h PROVE Settled(g)'
  <2>1. pc'[g] = pc[g] /\ frame'[g] = frame[g]
    BY <1>1, <1>2, <1>11 DEF TypeOK, Start
  <2>2. CASE pc[g] = "free"
    BY <2>1, <2>2 DEF Settled
  <2>3. CASE pc[g] # "free"
    <3>1. frame[g].dialog \in Dialog
      BY <1>1, <2>3 DEF TypeOK
    <3>2. frame[g].dialog # d
      BY <1>1, <1>3, <1>4, <2>3 DEF TicketSingleUse, Working
    <3>3. ticket'[frame[g].dialog] = ticket[frame[g].dialog]
      BY <1>3, <3>1, <3>2
    <3> QED
      BY <2>1, <3>3 DEF DerivationInv, Settled, Missing
  <2> QED
    BY <2>2, <2>3
<1> QED
  BY <1>9, <1>10, <1>11 DEF DerivationInv

LEMMA ReceiveSettles ==
  ASSUME NegotiationInv, DerivationInv, NEW h \in Handler, Receive(h)
  PROVE  DerivationInv'
<1>1. TypeOK
  BY DEF NegotiationInv
<1>2. \A W \in SUBSET Wanted : Unsettled(W, {}) = W
  BY DEF Unsettled
<1>3. CASE \E asked \in Requests :
             RequestTicket(h, asked) \/ \E pushed \in Pushes : RequestToken(h, asked, pushed)
  <2> DEFINE d == Pick(Unused)
  <2>1. PICK asked \in Requests :
          RequestTicket(h, asked) \/ \E pushed \in Pushes : RequestToken(h, asked, pushed)
    BY <1>3
  <2>2. asked \in SUBSET Permission /\ Unsettled(Initialized(asked), {}) = Initialized(asked)
    BY <1>2, InitializedTyped, RequestAssumption
  <2>3. d \in Unused
    BY <2>1, PickIn DEF RequestTicket, RequestToken
  <2>4. CASE RequestTicket(h, asked)
    <3>1. /\ Open(d, Initialized(asked), {})
          /\ Start(h, "ticket", d, None, {}, Initialized(asked))
      BY <2>4 DEF RequestTicket
    <3> HIDE DEF d
    <3> QED
      BY <1>1, <2>2, <2>3, <3>1, OpenSettles DEF Kind
  <2>5. CASE \E pushed \in Pushes : RequestToken(h, asked, pushed)
    <3>1. PICK pushed \in Pushes : RequestToken(h, asked, pushed)
      BY <2>5
    <3>2. /\ Open(d, Initialized(asked), {})
          /\ Start(h, "grant", d, None, pushed, Initialized(asked))
      BY <3>1 DEF RequestToken
    <3>3. pushed \in SUBSET Credential
      BY RequestAssumption
    <3> HIDE DEF d
    <3> QED
      BY <1>1, <2>2, <2>3, <3>2, <3>3, OpenSettles DEF Kind
  <2> QED
    BY <2>1, <2>4, <2>5
<1>4. CASE \E i \in TicketId, pushed \in Pushes : RedeemTicket(h, i, pushed)
  <2>1. PICK i \in TicketId, pushed \in Pushes : RedeemTicket(h, i, pushed)
    BY <1>4
  <2> DEFINE d == ticketStore[i]
  <2>2. /\ d # None
        /\ Start(h, "grant", d, None, pushed, ticket[d].requested)
        /\ UNCHANGED <<opened, ticket>>
    BY <2>1 DEF RedeemTicket
  <2> HIDE DEF d
  <2>3. Settled(h)'
    BY <1>1, <2>2 DEF TypeOK, Start, Settled
  <2>4. \A g \in Handler \ {h} : pc'[g] = pc[g] /\ frame'[g] = frame[g]
    BY <1>1, <2>2 DEF TypeOK, Start
  <2> QED
    BY <1>1, <2>2, <2>3, <2>4, OthersSettled
<1>5. CASE \E r \in RefreshId : RefreshToken(h, r)
  <2>1. PICK r \in RefreshId : RefreshToken(h, r)
    BY <1>5
  <2> DEFINE d == Pick(Unused)
             asked == refreshStore[r].permissions \cap Permission
             claims == refreshStore[r].claims
  <2>2. /\ refreshStore[r] # None
        /\ Open(d, Initialized(asked), claims)
        /\ Start(h, "refresh", d, r, {}, Unsettled(Initialized(asked), claims))
    BY <2>1 DEF RefreshToken, StartRefresh
  <2>3. d \in Unused
    BY <2>1, PickIn DEF RefreshToken
  <2>4. refreshStore[r] \in RefreshInformation
    BY <1>1, <2>2 DEF TypeOK
  <2>5. claims \in SUBSET Credential /\ asked \in SUBSET Permission
    BY <2>4 DEF RefreshInformation
  <2> HIDE DEF d, asked, claims
  <2> QED
    BY <1>1, <2>2, <2>3, <2>5, OpenSettles DEF Kind
<1>6. CASE \E i \in TicketId, pushed \in Pushes :
             \E r \in DOMAIN Creation : RedeemForDerivation(h, i, r, pushed)
  <2>1. PICK i \in TicketId, pushed \in Pushes :
          \E r \in DOMAIN Creation : RedeemForDerivation(h, i, r, pushed)
    BY <1>6
  <2> QED
    BY <2>1, DeriveSettles, RequestAssumption
<1> QED
  BY <1>3, <1>4, <1>5, <1>6 DEF Receive

LEMMA HandleSettles ==
  ASSUME NegotiationInv, DerivationInv, NEW h \in Handler, Handle(h)
  PROVE  DerivationInv'
<1>1. TypeOK
  BY DEF NegotiationInv
<1>2. frame[h] \in Frame
  BY <1>1 DEF TypeOK
<1>3. CASE \E c \in Credential : Verify(h, c)
  <2>1. PICK c \in Credential : Verify(h, c)
    BY <1>3
  <2> DEFINE d == frame[h].dialog
             left == frame[h].pushed \ {c}
             needed == Unsettled(frame[h].needed, {c})
             f == [frame[h] EXCEPT !.pushed = left, !.needed = needed, !.pending = needed]
  <2>2. /\ pc[h] = "verify"
        /\ ticket' = [ticket EXCEPT ![d].provided = @ \cup {c}]
        /\ frame' = [frame EXCEPT ![h] = f]
        /\ pc' = [pc EXCEPT ![h] = IF left = {} THEN "evaluate" ELSE "verify"]
        /\ opened' = opened
    BY <2>1 DEF Verify, Collected
  <2>3. /\ f.needed = needed /\ f.pending = needed /\ f.granted = frame[h].granted
        /\ f.dialog = d
    BY <1>2 DEF Frame
  <2>4. /\ needed \subseteq frame[h].needed
        /\ frame[h].needed \ needed \subseteq {c}
    BY DEF Unsettled
  <2>5. d \in opened /\ d \in Dialog
    BY <1>1, <2>2 DEF TypeOK
  <2>6. /\ ticket'[d].requested = ticket[d].requested
        /\ ticket'[d].provided = ticket[d].provided \cup {c}
        /\ \A e \in opened \ {d} : ticket'[e] = ticket[e]
    BY <1>1, <2>2, <2>5 DEF TypeOK, Ticket
  <2>7. Settled(h)
    BY DEF DerivationInv
  <2> HIDE DEF needed, f, left
  <2>8. Settled(h)'
    <3>1. frame'[h] = f /\ pc'[h] # "mint"
      BY <1>1, <2>2 DEF TypeOK
    <3> QED
      BY <2>2, <2>3, <2>4, <2>6, <2>7, <3>1 DEF Settled
  <2>9. \A g \in Handler \ {h} : pc'[g] = pc[g] /\ frame'[g] = frame[g]
    BY <1>1, <2>2 DEF TypeOK
  <2> QED
    BY <1>1, <2>2, <2>6, <2>8, <2>9, OthersSettled
<1>4. CASE \E p \in Wanted : Evaluate(h, p)
  <2>1. PICK p \in Wanted : Evaluate(h, p)
    BY <1>4
  <2> DEFINE granted == IF p \in policy[ticket[frame[h].dialog].provided]
                        THEN frame[h].granted \cup {p} ELSE frame[h].granted
             f == [frame[h] EXCEPT !.pending = @ \ {p}, !.granted = granted]
  <2>2. /\ pc[h] = "evaluate" /\ p \in frame[h].pending
        /\ frame' = [frame EXCEPT ![h] = f]
        /\ UNCHANGED <<pc, ticket, opened>>
    BY <2>1 DEF Evaluate, stores
  <2>3. /\ f.needed = frame[h].needed /\ f.dialog = frame[h].dialog
        /\ f.pending \subseteq frame[h].pending
        /\ f.granted \subseteq frame[h].granted \cup {p}
    BY <1>2 DEF Frame
  <2> HIDE DEF f
  <2>4. frame'[h] = f
    BY <1>1, <2>2 DEF TypeOK
  <2>5. Settled(h)
    BY DEF DerivationInv
  <2>6. Settled(h)'
    BY <2>2, <2>3, <2>4, <2>5 DEF Settled
  <2>7. \A g \in Handler \ {h} : pc'[g] = pc[g] /\ frame'[g] = frame[g]
    BY <1>1, <2>2 DEF TypeOK
  <2> QED
    BY <1>1, <2>2, <2>6, <2>7, OthersSettled
<1>5. CASE Grant(h)
  <2>1. /\ pc[h] = "evaluate" /\ Missing(h) = {}
        /\ pc' = [pc EXCEPT ![h] = "mint"]
        /\ UNCHANGED <<frame, ticket, opened>>
    BY <1>5 DEF Grant, Evaluated, Resolved, stores
  <2>2. Settled(h)
    BY DEF DerivationInv
  <2>3. Settled(h)'
    BY <2>1, <2>2 DEF Settled, Missing
  <2>4. \A g \in Handler \ {h} : pc'[g] = pc[g] /\ frame'[g] = frame[g]
    BY <1>1, <2>1 DEF TypeOK
  <2> QED
    BY <1>1, <2>1, <2>3, <2>4, OthersSettled
<1>6. CASE \/ Refuse(h) \/ Public(h) \/ Deny(h) \/ Unwritable(h)
           \/ StoreTicket(h) \/ Mint(h) \/ MintContract(h)
  <2>1. Finish(h) /\ UNCHANGED <<ticket, opened>>
    BY <1>6 DEF Refuse, Public, Deny, Unwritable, StoreTicket, Mint, MintContract, stores
  <2>2. pc'[h] = "free" /\ \A g \in Handler \ {h} : pc'[g] = pc[g] /\ frame'[g] = frame[g]
    BY <1>1, <2>1 DEF Finish, TypeOK
  <2>3. Settled(h)'
    BY <2>2 DEF Settled
  <2> QED
    BY <1>1, <2>1, <2>2, <2>3, OthersSettled
<1> QED
  BY <1>3, <1>4, <1>5, <1>6 DEF Handle

LEMMA NextSettles ==
  ASSUME NegotiationInv, DerivationInv, [Next]_vars
  PROVE  DerivationInv'
<1>1. CASE \E h \in Handler : Receive(h) \/ Handle(h)
  BY <1>1, ReceiveSettles, HandleSettles
<1>2. CASE UNCHANGED <<opened, ticket, pc, frame>>
  BY <1>2 DEF DerivationInv, Settled, Missing
<1> QED
  BY <1>1, <1>2 DEF Next, ExpireRefresh, DropExpired, ChangePolicy, vars, stores

\* No token covers a derived resource without proof of access to its sources.
THEOREM DerivationsAlwaysProven == Spec => []DerivationsProven
<1>1. Init => DerivationInv
  BY DEF Init, DerivationInv, Settled
<1>2. ASSUME NegotiationInv, DerivationInv PROVE DerivationsProven
  <2> SUFFICES ASSUME NEW h \in Handler, pc[h] = "mint",
                      NEW p \in frame[h].granted \cap Permission
               PROVE  DerivedFrom[p] \subseteq ticket[frame[h].dialog].provided
    BY DEF DerivationsProven
  <2>1. frame[h].dialog \in opened
    BY <1>2 DEF NegotiationInv, TypeOK
  <2>2. Settled(h)
    BY <1>2 DEF DerivationInv
  <2>3. DerivedFrom[p] \subseteq ticket[frame[h].dialog].requested
    BY <1>2, <2>1, <2>2 DEF DerivationInv, Settled
  <2>4. DerivedFrom[p] \cap frame[h].needed = {}
    BY <2>2, RequestAssumption DEF Settled, Missing
  <2> QED
    BY <2>2, <2>3, <2>4 DEF Settled
<1> QED
  BY <1>1, <1>2, NextSettles, NegotiationCorrect, PTL DEF Spec

-----------------------------------------------------------------------------
(* Policies.                                                                *)

\* What a handler found allowed since its request came in, is.
Allowed(h) ==
  pc[h] # "free" =>
    /\ frame[h].since <= changes
    /\ pc[h] = "verify" => frame[h].granted = {}
    /\ frame[h].since = changes =>
         frame[h].granted \subseteq policy[ticket[frame[h].dialog].provided]

PolicyInv == \A h \in Handler : Allowed(h)

\* The claims of a dialog only change by the handler that works on it.
LEMMA OthersAllowed ==
  ASSUME TypeOK, PolicyInv, NEW h \in Handler, Allowed(h)',
         UNCHANGED <<negotiator, policy, changes>>,
         \A g \in Handler \ {h} : pc'[g] = pc[g] /\ frame'[g] = frame[g],
         \A g \in Handler \ {h} :
           pc[g] # "free" => ticket'[frame[g].dialog] = ticket[frame[g].dialog]
  PROVE  PolicyInv'
<1> SUFFICES ASSUME NEW g \in Handler, g # h PROVE Allowed(g)'
  BY DEF PolicyInv
<1>1. pc'[g] = pc[g] /\ frame'[g] = frame[g] /\ Allowed(g)
  BY DEF PolicyInv
<1>2. pc[g] # "free" => ticket'[frame[g].dialog] = ticket[frame[g].dialog]
  OBVIOUS
<1> QED
  BY <1>1, <1>2 DEF Allowed

LEMMA ReceiveAllows ==
  ASSUME NegotiationInv, PolicyInv, NEW h \in Handler, Receive(h)
  PROVE  PolicyInv'
<1>1. TypeOK /\ TicketSingleUse
  BY DEF NegotiationInv
<1>2. PICK kind, d, r, pushed, needed : Start(h, kind, d, r, pushed, needed)
  BY DEF Receive, RequestTicket, RequestToken, RedeemTicket, RedeemForDerivation,
         RefreshToken, StartRefresh
<1>3. /\ UNCHANGED <<negotiator, policy, changes>>
      /\ \A g \in Handler \ {h} : pc'[g] = pc[g] /\ frame'[g] = frame[g]
  BY <1>1, <1>2 DEF TypeOK, Start
<1>4. Allowed(h)'
  BY <1>1, <1>2 DEF TypeOK, Start, Allowed
<1>5. ASSUME NEW g \in Handler \ {h}, pc[g] # "free"
      PROVE  ticket'[frame[g].dialog] = ticket[frame[g].dialog]
  <2>1. frame[g].dialog \in opened /\ frame[g].dialog \in Dialog
    BY <1>1, <1>5 DEF TypeOK
  <2>2. CASE UNCHANGED ticket
    BY <2>2
  <2>3. CASE \E e \in Unused : \E wanted, claims : Open(e, wanted, claims)
    BY <1>1, <2>1, <2>3 DEF Open, TypeOK, Unused
  <2>4. CASE \E i \in TicketId, push \in Pushes :
               \E q \in DOMAIN Creation : RedeemForDerivation(h, i, q, push)
    <3>1. PICK i \in TicketId, push \in Pushes :
            \E q \in DOMAIN Creation : RedeemForDerivation(h, i, q, push)
      BY <2>4
    <3>2. PICK q \in DOMAIN Creation : RedeemForDerivation(h, i, q, push)
      BY <3>1
    <3>3. /\ ticketStore[i] \in Dialog
          /\ \A e \in Dialog \ {ticketStore[i]} : ticket'[e] = ticket[e]
      BY <1>1, <3>2, DerivationTicket, RequestAssumption
    <3>4. frame[g].dialog # ticketStore[i]
      BY <1>1, <1>5, <3>3 DEF TicketSingleUse, Working, Stored
    <3> QED
      BY <2>1, <3>3, <3>4
  <2> QED
    BY <2>2, <2>3, <2>4, PickIn
    DEF Receive, RequestTicket, RequestToken, RedeemTicket, RefreshToken
<1> QED
  BY <1>1, <1>3, <1>4, <1>5, OthersAllowed DEF TypeOK

LEMMA HandleAllows ==
  ASSUME NegotiationInv, PolicyInv, NEW h \in Handler, Handle(h)
  PROVE  PolicyInv'
<1>1. TypeOK /\ TicketSingleUse
  BY DEF NegotiationInv
<1>2. frame[h] \in Frame
  BY <1>1 DEF TypeOK
<1>3. Allowed(h)
  BY DEF PolicyInv
<1>4. CASE \E c \in Credential : Verify(h, c)
  <2>1. PICK c \in Credential : Verify(h, c)
    BY <1>4
  <2> DEFINE d == frame[h].dialog
             needed == Unsettled(frame[h].needed, {c})
             f == [frame[h] EXCEPT !.pushed = @ \ {c}, !.needed = needed, !.pending = needed]
  <2>2. /\ pc[h] = "verify"
        /\ ticket' = [ticket EXCEPT ![d].provided = @ \cup {c}]
        /\ frame' = [frame EXCEPT ![h] = f]
        /\ \E p \in {"evaluate", "verify"} : pc' = [pc EXCEPT ![h] = p]
        /\ UNCHANGED <<negotiator, policy, changes>>
    BY <2>1 DEF Verify, Collected
  <2>3. f.since = frame[h].since /\ f.granted = frame[h].granted
    BY <1>2 DEF Frame
  <2> HIDE DEF f
  <2>4. Allowed(h)'
    BY <1>1, <1>3, <2>2, <2>3 DEF TypeOK, Allowed
  <2>5. \A g \in Handler \ {h} : pc'[g] = pc[g] /\ frame'[g] = frame[g]
    BY <1>1, <2>2 DEF TypeOK
  <2>6. ASSUME NEW g \in Handler \ {h}, pc[g] # "free"
        PROVE  ticket'[frame[g].dialog] = ticket[frame[g].dialog]
    <3>1. d \in Dialog /\ frame[g].dialog \in Dialog
      BY <1>1, <2>2, <2>6 DEF TypeOK
    <3>2. frame[g].dialog # d
      BY <1>1, <2>2, <2>6, <3>1 DEF TicketSingleUse, Working
    <3> QED
      BY <1>1, <2>2, <3>1, <3>2 DEF TypeOK
  <2> QED
    BY <1>1, <2>2, <2>4, <2>5, <2>6, OthersAllowed
<1>5. CASE \E p \in Wanted : Evaluate(h, p)
  <2>1. PICK p \in Wanted : Evaluate(h, p)
    BY <1>5
  <2> DEFINE granted == IF p \in policy[ticket[frame[h].dialog].provided]
                        THEN frame[h].granted \cup {p} ELSE frame[h].granted
             f == [frame[h] EXCEPT !.pending = @ \ {p}, !.granted = granted]
  <2>2. /\ pc[h] = "evaluate"
        /\ frame' = [frame EXCEPT ![h] = f]
        /\ UNCHANGED <<pc, ticket, negotiator, policy, changes>>
    BY <2>1 DEF Evaluate, stores
  <2>3. /\ f.since = frame[h].since /\ f.dialog = frame[h].dialog
        /\ f.granted = granted
    BY <1>2 DEF Frame
  <2> HIDE DEF f
  <2>4. frame'[h] = f
    BY <1>1, <2>2 DEF TypeOK
  <2>5. Allowed(h)'
    BY <1>3, <2>2, <2>3, <2>4 DEF Allowed
  <2>6. \A g \in Handler \ {h} : pc'[g] = pc[g] /\ frame'[g] = frame[g]
    BY <1>1, <2>2 DEF TypeOK
  <2> QED
    BY <1>1, <2>2, <2>5, <2>6, OthersAllowed
<1>6. CASE Grant(h)
  <2>1. /\ pc[h] = "evaluate" /\ pc' = [pc EXCEPT ![h] = "mint"]
        /\ UNCHANGED <<frame, ticket, negotiator, policy, changes>>
    BY <1>6 DEF Grant, Evaluated, stores
  <2>2. Allowed(h)'
    BY <1>1, <1>3, <2>1 DEF TypeOK, Allowed
  <2>3. \A g \in Handler \ {h} : pc'[g] = pc[g] /\ frame'[g] = frame[g]
    BY <1>1, <2>1 DEF TypeOK
  <2> QED
    BY <1>1, <2>1, <2>2, <2>3, OthersAllowed
<1>7. CASE \/ Refuse(h) \/ Public(h) \/ Deny(h) \/ Unwritable(h)
           \/ StoreTicket(h) \/ Mint(h) \/ MintContract(h)
  <2>1. Finish(h) /\ UNCHANGED <<ticket, negotiator, policy, changes>>
    BY <1>7 DEF Refuse, Public, Deny, Unwritable, StoreTicket, Mint, MintContract, stores
  <2>2. pc'[h] = "free" /\ \A g \in Handler \ {h} : pc'[g] = pc[g] /\ frame'[g] = frame[g]
    BY <1>1, <2>1 DEF Finish, TypeOK
  <2>3. Allowed(h)'
    BY <2>2 DEF Allowed
  <2> QED
    BY <1>1, <2>1, <2>2, <2>3, OthersAllowed
<1> QED
  BY <1>4, <1>5, <1>6, <1>7 DEF Handle

LEMMA NextAllows ==
  ASSUME NegotiationInv, PolicyInv, [Next]_vars
  PROVE  PolicyInv'
<1>1. CASE \E h \in Handler : Receive(h) \/ Handle(h)
  BY <1>1, ReceiveAllows, HandleAllows
<1>2. CASE ChangePolicy
  <2>1. changes' = changes + 1 /\ UNCHANGED <<pc, frame>>
    BY <1>2 DEF ChangePolicy
  <2>2. \A h \in Handler : frame[h].since \in Nat /\ changes \in Nat
    BY DEF NegotiationInv, TypeOK, Frame
  <2> QED
    BY <2>1, <2>2 DEF PolicyInv, Allowed
<1>3. CASE UNCHANGED <<ticket, pc, frame, negotiator, policy, changes>>
  BY <1>3 DEF PolicyInv, Allowed
<1> QED
  BY <1>1, <1>2, <1>3 DEF Next, ExpireRefresh, DropExpired, vars, stores

\* A token that is about to be signed has what the policies allow.
THEOREM TokensAlwaysReflectPolicy == Spec => []TokensReflectPolicy
<1>1. Init => PolicyInv
  BY DEF Init, PolicyInv, Allowed
<1>2. PolicyInv => TokensReflectPolicy
  BY DEF PolicyInv, Allowed, TokensReflectPolicy
<1> QED
  BY <1>1, <1>2, NextAllows, NegotiationCorrect, PTL DEF Spec

=============================================================================
