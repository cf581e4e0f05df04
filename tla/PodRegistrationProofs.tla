------------------------ MODULE PodRegistrationProofs ------------------------
(****************************************************************************)
(* Theorems about PodRegistration, for every tree of resources and every    *)
(* sequence of settings: its behaviours are behaviours of the client in its *)
(* open environment, and what UmaClientProofs says of those holds; what     *)
(* users delete gets unregistered; and the first update leaves nothing out. *)
(****************************************************************************)
EXTENDS PodRegistration, UmaClientProofs

-----------------------------------------------------------------------------
(* What a step of the client does to the calls others wait for.             *)

\* u, if it is not fetchTicket, goes on with the same work, or is t and ends.
Keeps(t, u) ==
  \/ u = t /\ pc'[u] = "free"
  \/ /\ pc'[u] # "free"
     /\ frame'[u].kind = frame[u].kind
     /\ frame'[u].res = frame[u].res

LEMMA LeaveKeeps ==
  ASSUME CallsTyped, NEW t \in Call, NEW b, Leave(t, b),
         NEW u \in Call, pc[u] # "free"
  PROVE  Keeps(t, u)
  <1>1. CASE u = t
    BY <1>1 DEF Leave, CallsTyped, Keeps
  <1>2. CASE u # t
    <2>1. pc'[u] = pc[u] /\ frame[u] \in Frame
      BY <1>2 DEF Leave, CallsTyped
    <2>2. frame'[u].kind = frame[u].kind /\ frame'[u].res = frame[u].res
      BY <1>2, <2>1, FrameKeeps DEF Leave
    <2>3. QED
      BY <2>1, <2>2 DEF Keeps
  <1>3. QED
    BY <1>1, <1>2

\* t moves on and changes its own variables at most.
LEMMA MoveKeeps ==
  ASSUME CallsTyped, NEW t \in Call, NEW point, point # "free",
         pc' = [pc EXCEPT ![t] = point],
         NEW b,
         \/ UNCHANGED frame
         \/ frame' = [frame EXCEPT ![t].known = b]
         \/ frame' = [frame EXCEPT ![t].linked = b]
         \/ frame' = [frame EXCEPT ![t].ok = b]
         \/ frame' = [frame EXCEPT ![t].pat = b],
         NEW u \in Call, pc[u] # "free"
  PROVE  Keeps(t, u)
  <1>1. frame'[u].kind = frame[u].kind /\ frame'[u].res = frame[u].res
    BY FieldSet
  <1>2. pc'[u] # "free"
    BY DEF CallsTyped
  <1>3. QED
    BY <1>1, <1>2 DEF Keeps

\* Calls that were not in use are started.
LEMMA StartKeeps ==
  ASSUME CallsTyped, NEW u \in Call, pc[u] # "free",
         pc'[u] # "free", frame'[u] = frame[u], NEW t
  PROVE  Keeps(t, u)
  BY DEF Keeps

LEMMA PatStepKeeps ==
  ASSUME CallsTyped, NEW t \in Call, PatStep(t), NEW u \in Call, pc[u] # "free"
  PROVE  Keeps(t, u)
  <1>1. CASE GetPat(t)
    BY <1>1, MoveKeeps DEF GetPat, Goto
  <1>2. CASE PatConfigFails(t) \/ PatRefused(t)
    BY <1>2, LeaveKeeps DEF PatConfigFails, PatRefused
  <1>3. CASE PatIssued(t)
    BY <1>3, MoveKeeps DEF PatIssued, Goto
  <1>4. CASE PatReceived(t)
    BY <1>4, EmitType DEF PatReceived, EmitPat, CallsTyped, Keeps
  <1>5. CASE PatConfigRead(t)
    BY <1>5, MoveKeeps DEF PatConfigRead, Goto
  <1>6. QED
    BY <1>1, <1>2, <1>3, <1>4, <1>5 DEF PatStep

LEMMA SendKeeps ==
  ASSUME CallsTyped, NEW t \in Call, SendRegistration(t),
         NEW u \in Call, pc[u] # "free"
  PROVE  Keeps(t, u)
  <1> DEFINE r == frame[t].res
             again == Pick(Free)
             above == Pick(Free \ {again})
             linked == r # Root /\ ~Orphan(r)
             sent == [frame EXCEPT ![t].linked = linked]
  <1>1. sent[u].kind = frame[u].kind /\ sent[u].res = frame[u].res
    BY FrameKeeps DEF CallsTyped
  <1>2. CASE ~Orphan(r)
    BY <1>2, MoveKeeps DEF SendRegistration, Goto
  <1>3. CASE Orphan(r)
    <2>1. again \in Call /\ u # again
      BY <1>3, PickInSet DEF SendRegistration, Free
    <2>2. CASE Parent[r] \in inProgress
      BY <1>1, <1>3, <2>1, <2>2 DEF SendRegistration, CallsTyped, Keeps
    <2>3. CASE Parent[r] \notin inProgress
      <3>1. above \in Call /\ u # above
        BY <1>3, <2>3, PickInSet DEF SendRegistration, Free
      <3>2. QED
        BY <1>1, <1>3, <2>1, <2>3, <3>1 DEF SendRegistration, CallsTyped, Keeps
    <2>4. QED
      BY <2>2, <2>3
  <1>4. QED
    BY <1>2, <1>3

LEMMA RegisterStepKeeps ==
  ASSUME CallsTyped, NEW t \in Call, RegisterStep(t),
         NEW u \in Call, pc[u] # "free"
  PROVE  Keeps(t, u)
  <1>1. CASE Begin(t)
    BY <1>1, MoveKeeps DEF Begin, Enter, Goto
  <1>2. CASE HandleRegistration(t)
    BY <1>2, MoveKeeps DEF HandleRegistration, Goto
  <1>3. CASE RegistrationAnswered(t)
    <2>1. CASE Succeeded(t)
      BY <1>3, <2>1, EmitType DEF RegistrationAnswered, Emit, CallsTyped, Keeps
    <2>2. CASE ~Succeeded(t)
      BY <1>3, <2>2, LeaveKeeps DEF RegistrationAnswered
    <2>3. QED
      BY <2>1, <2>2
  <1>4. CASE Join(t)
    BY <1>4, LeaveKeeps DEF Join
  <1>5. CASE RejectEarly(t)
    <2> DEFINE loose == [frame EXCEPT ![t].for = NoCall]
    <2>0. [frame[t] EXCEPT !.for = NoCall] \in Frame
      BY FrameUpdate DEF CallsTyped, SameWork
    <2>1. /\ loose[u].kind = frame[u].kind /\ loose[u].res = frame[u].res
          /\ loose \in [Call -> Frame]
      BY <2>0, FrameKeeps DEF CallsTyped
    <2>2. frame' = [loose EXCEPT ![frame[t].for].bad = TRUE]
      BY <1>5 DEF RejectEarly
    <2>3. frame'[u].kind = frame[u].kind /\ frame'[u].res = frame[u].res
      <3> HIDE DEF loose
      <3> QED
        BY <2>1, <2>2, FrameKeeps
    <2>4. QED
      BY <1>5, <2>3 DEF RejectEarly, Keeps
  <1>6. QED
    BY <1>1, <1>2, <1>3, <1>4, <1>5, SendKeeps DEF RegisterStep

\* fetchTicket keeps to itself, but for the registration it makes.
LEMMA TicketStepKeeps ==
  ASSUME CallsTyped, OnlyTickets, NEW t \in Call, TicketStep(t),
         NEW u \in Call, pc[u] # "free", frame[u].kind # "ticket"
  PROVE  Keeps(t, u)
  <1>1. u # t
    BY DEF OnlyTickets, Ticketing, TicketStep, Lookup, Timeout, Woken, Probe, Registered
  <1>2. ASSUME NEW b, Leave(t, b) PROVE Keeps(t, u)
    BY <1>2, LeaveKeeps
  <1>3. CASE Lookup(t)
    BY <1>1, <1>3 DEF Lookup, Found, Goto, CallsTyped, Keeps
  <1>4. CASE Timeout(t)
    BY <1>2, <1>4 DEF Timeout
  <1>5. CASE Woken(t)
    BY <1>1, <1>5 DEF Woken, Found, Goto, CallsTyped, Keeps
  <1>6. CASE Probe(t)
    <2>1. CASE frame[t].res \in exists
      <3>1. u # Pick(Free)
        BY <1>6, <2>1, PickInSet DEF Probe, Free
      <3>2. QED
        BY <1>1, <1>6, <2>1, <3>1 DEF Probe, CallsTyped, Keeps
    <2>2. CASE frame[t].res \notin exists
      BY <1>2, <1>6, <2>2 DEF Probe
    <2>3. QED
      BY <2>1, <2>2
  <1>7. CASE Registered(t)
    BY <1>1, <1>2, <1>7 DEF Registered, Found, Goto, CallsTyped, Keeps
  <1>8. QED
    BY <1>3, <1>4, <1>5, <1>6, <1>7 DEF TicketStep

LEMMA StepKeeps ==
  ASSUME CallsTyped, OnlyTickets, NEW t \in Call, Step(t),
         NEW u \in Call, pc[u] # "free", frame[u].kind # "ticket"
  PROVE  Keeps(t, u)
  <1>1. CASE ConfigFails(t)
    BY <1>1, LeaveKeeps DEF ConfigFails
  <1>2. CASE ConfigRead(t)
    BY <1>2, LeaveKeeps, MoveKeeps DEF ConfigRead, Goto
  <1>3. CASE Send(t)
    BY <1>3, MoveKeeps DEF Send, Goto
  <1>4. CASE HandleTicket(t)
    BY <1>4, MoveKeeps DEF HandleTicket, Goto
  <1>5. CASE HandleDelete(t)
    BY <1>5, MoveKeeps DEF HandleDelete, Goto
  <1>6. CASE Answered(t)
    BY <1>6, LeaveKeeps DEF Answered
  <1>7. QED
    BY <1>1, <1>2, <1>3, <1>4, <1>5, <1>6,
       PatStepKeeps, RegisterStepKeeps, TicketStepKeeps DEF Step, RequestStep

-----------------------------------------------------------------------------
(* The walks.                                                               *)

\* The settings of the account are what calls are made for.
LEMMA SettingsType ==
  ASSUME PodTypeOK
  PROVE  /\ Settings # Nobody => Settings \in Account
         /\ \A w \in walks : /\ New(w.by) \in Account
                             /\ w.at = "unregister" => Previous(w.by) \in Account
  <1>1. Posts \in Seq(Account) /\ posted \in 0..Len(Posts)
    BY PodAssumption DEF PodTypeOK
  <1>2. \A n \in 1..Len(Posts) : Posts[n] \in Account
    BY <1>1
  <1>3. \A w \in walks : w.by \in 1..posted /\ (w.at = "unregister" => w.by > 1)
    BY DEF PodTypeOK
  <1>4. ASSUME NEW w \in walks
        PROVE  /\ New(w.by) \in Account
               /\ w.at = "unregister" => Previous(w.by) \in Account
    BY <1>1, <1>2, <1>3, <1>4 DEF New, Previous
  <1>5. Settings # Nobody => Settings \in Account
    BY <1>1, <1>2 DEF Settings
  <1>6. QED
    BY <1>4, <1>5

\* What walks and users do is among what the client is prepared for.
LEMMA PodStepIsOpen == PodTypeOK /\ [PodNext]_allVars => [OpenNext]_vars
  <1> SUFFICES ASSUME PodTypeOK, [PodNext]_allVars PROVE [OpenNext]_vars
    OBVIOUS
  <1> DEFINE all == [r \in Resource \ {Root} |-> Account]
  <1>1. CASE UpdateSettings
    BY <1>1 DEF UpdateSettings
  <1>2. ASSUME NEW w \in walks, CallClient(w) PROVE OpenNext
    <2>1. w.res \in Resource \ {Root}
      BY DEF PodTypeOK, WalkType
    <2>2. \E a \in all[w.res] : Unregister(w.res, a) \/ Reregister(w.res, a)
      BY <1>2, <2>1, SettingsType DEF CallClient
    <2>3. QED
      BY <2>1, <2>2 DEF OpenNext, Environment
  <1>3. ASSUME NEW w \in walks, ListMembers(w) PROVE UNCHANGED vars
    BY <1>3 DEF ListMembers
  <1>4. ASSUME NEW t \in Call, ClientStep(t) PROVE OpenNext
    BY <1>4 DEF ClientStep, OpenNext
  <1>5. ASSUME NEW r \in Resource \ {Root}, UserCreates(r) \/ UserDeletes(r)
        PROVE  OpenNext
    <2>1. \/ Unseen(r)
          \/ \E a \in all[r] : Create(r, a) \/ Delete(r, a)
      BY <1>5, SettingsType DEF UserCreates, UserDeletes
    <2>2. QED
      BY <2>1 DEF OpenNext, Environment
  <1>6. CASE UNCHANGED allVars
    BY <1>6 DEF allVars
  <1>7. QED
    BY <1>1, <1>2, <1>3, <1>4, <1>5, <1>6 DEF PodNext

\* A new call, if one is made, has an identity that was not in use.
LEMMA NewCallKeeps ==
  ASSUME CallsTyped, NEW point, point # "free", NEW f, NewCall(point, f)
  PROVE  /\ Pick(Free) \in Call
         /\ pc'[Pick(Free)] # "free" /\ frame'[Pick(Free)] = f
         /\ pc[Pick(Free)] = "free"
         /\ \A u \in Call : pc[u] # "free" => pc'[u] = pc[u] /\ frame'[u] = frame[u]
  <1>1. Pick(Free) \in Free
    BY PickInSet DEF NewCall
  <1>2. QED
    BY <1>1 DEF NewCall, Free, CallsTyped

\* A step that leaves the calls in use alone leaves walks well typed that were.
Sound(w) ==
  /\ w \in WalkType
  /\ w.by \in 1..posted
  /\ w.at = "unregister" => w.by > 1
  /\ w.at = "waiting" <=> w.call # NoCall
  /\ w.at = "waiting" => /\ pc[w.call] # "free"
                         /\ frame[w.call].kind \in {"register", "delete"}
                         /\ frame[w.call].res = w.res

LEMMA SoundKept ==
  ASSUME NEW w, Sound(w), posted' \in Nat, posted \in Nat, posted' >= posted,
         w.call \in Call => \/ pc[w.call] = "free"
                            \/ /\ pc'[w.call] # "free"
                               /\ frame'[w.call].kind = frame[w.call].kind
                               /\ frame'[w.call].res = frame[w.call].res
  PROVE  Sound(w)'
  BY DEF Sound, WalkType

LEMMA WalkSound ==
  ASSUME NEW n \in 1..posted', posted' \in Nat, NEW r \in Resource \ {Root},
         NEW point \in {"unregister", "register", "list"},
         point = "unregister" => n > 1
  PROVE  Sound(Walk(n, r, point))'
  BY DEF Sound, WalkType, Walk

LEMMA EnteredSound ==
  ASSUME NEW n \in 1..posted', posted' \in Nat, NEW r \in Resource \ {Root}
  PROVE  Sound(Entered(n, r))'
  <1>1. CASE n = 1
    BY <1>1, WalkSound DEF Entered
  <1>2. CASE n # 1
    BY <1>2, WalkSound DEF Entered
  <1>3. QED
    BY <1>1, <1>2

LEMMA PodTypeStep ==
  LockInv /\ PodTypeOK /\ [PodNext]_allVars => PodTypeOK'
  <1> SUFFICES ASSUME LockInv, PodTypeOK, [PodNext]_allVars PROVE PodTypeOK'
    OBVIOUS
  <1>a. /\ CallsTyped /\ OnlyTickets
        /\ \A w \in walks : Sound(w)
        /\ posted \in 0..Len(Posts) /\ Len(Posts) \in Nat
        /\ changes \in 0..MaxActs /\ MaxActs \in Nat
        /\ raced \subseteq gone /\ gone \subseteq Resource \ Pods
    BY PodAssumption DEF LockInv, TypeOK, PodTypeOK, Sound
  <1>b. ASSUME \A w \in walks' : Sound(w)',
               posted' \in 0..Len(Posts), changes' \in 0..MaxActs,
               raced' \subseteq gone', gone' \subseteq Resource \ Pods
        PROVE  PodTypeOK'
    BY <1>b DEF PodTypeOK, Sound
  <1>1. CASE UpdateSettings
    <2>0. PICK n \in Nat : n = posted + 1
      BY <1>a
    <2>1. posted' = n /\ posted' \in 0..Len(Posts) /\ n \in 1..posted'
      BY <1>a, <1>1, <2>0 DEF UpdateSettings
    <2>2. ASSUME NEW w \in walks PROVE Sound(w)'
      BY <1>a, <1>1, <2>0, <2>1, SoundKept DEF UpdateSettings, vars, callVars
    <2>3. ASSUME NEW r \in Pods PROVE Sound(Entered(n, r))'
      BY <2>1, EnteredSound DEF Pods
    <2>4. \A w \in walks' : Sound(w)'
      BY <1>1, <2>0, <2>2, <2>3 DEF UpdateSettings
    <2>5. QED
      BY <1>a, <1>b, <1>1, <2>1, <2>4 DEF UpdateSettings
  <1>2. ASSUME NEW w \in walks, CallClient(w) PROVE PodTypeOK'
    <2>0. PICK again : again = [w EXCEPT !.at = "waiting", !.call = Pick(Free)]
      OBVIOUS
    <2>1. PICK point, f :
            /\ point # "free" /\ NewCall(point, f)
            /\ f.kind \in {"register", "delete"} /\ f.res = w.res
      <3>1. CASE w.at = "unregister"
        <4>1. NewCall("config", Deleting(w.res, Previous(w.by)))
          BY <1>2, <3>1 DEF CallClient, Unregister
        <4>2. Deleting(w.res, Previous(w.by)).kind = "delete" /\ Deleting(w.res, Previous(w.by)).res = w.res
          BY DEF Deleting, Idle
        <4>3. QED
          BY <4>1, <4>2
      <3>2. CASE w.at = "register"
        <4>1. NewCall("start", Registering(w.res, New(w.by), NoCall))
          BY <1>2, <3>2 DEF CallClient, Reregister
        <4>2. Registering(w.res, New(w.by), NoCall).kind = "register" /\ Registering(w.res, New(w.by), NoCall).res = w.res
          BY DEF Registering, Idle
        <4>3. QED
          BY <4>1, <4>2
      <3>3. QED
        BY <1>2, <3>1, <3>2 DEF CallClient
    <2>2. /\ Pick(Free) \in Call
          /\ pc'[Pick(Free)] # "free" /\ frame'[Pick(Free)] = f
          /\ \A u \in Call : pc[u] # "free" => pc'[u] = pc[u] /\ frame'[u] = frame[u]
      BY <1>a, <2>1, NewCallKeeps
    <2>3. UNCHANGED <<posted, changes, gone, raced>>
      BY <1>2 DEF CallClient
    <2>4. ASSUME NEW v \in walks PROVE Sound(v)'
      BY <1>a, <2>2, <2>3, SoundKept
    <2>5. Sound(again)'
      <3>1. w \in WalkType /\ w.by \in 1..posted
        BY <1>a DEF Sound
      <3>2. /\ again \in WalkType /\ again.by = w.by /\ again.res = w.res
            /\ again.at = "waiting" /\ again.call = Pick(Free)
        BY <2>0, <2>2, <3>1 DEF WalkType
      <3>3. PICK u \in Call : u = Pick(Free)
        BY <2>2
      <3>4. again.call = u /\ u # NoCall /\ pc'[u] # "free" /\ frame'[u] = f
        BY <2>2, <3>2, <3>3, CallAssumption
      <3>5. QED
        BY <2>1, <2>3, <3>1, <3>2, <3>4 DEF Sound
    <2>6. \A v \in walks' : Sound(v)'
      BY <1>2, <2>0, <2>4, <2>5 DEF CallClient
    <2>7. QED
      BY <1>a, <1>b, <2>3, <2>6
  <1>3. ASSUME NEW w \in walks, ListMembers(w) PROVE PodTypeOK'
    <2>1. UNCHANGED <<posted, changes, gone, raced, pc, frame>>
      BY <1>3 DEF ListMembers, vars, callVars
    <2>2. ASSUME NEW v \in walks PROVE Sound(v)'
      BY <1>a, <2>1, SoundKept
    <2>3. ASSUME NEW c \in Members(w.res) PROVE Sound(Entered(w.by, c))'
      <3>1. c \in Resource \ {Root} /\ w.by \in 1..posted'
        BY <1>a, <2>1 DEF Members, Children, LockInv, TypeOK, Sound
      <3>2. QED
        BY <1>a, <2>1, <3>1, EnteredSound
    <2>4. \A v \in walks' : Sound(v)'
      BY <1>3, <2>2, <2>3 DEF ListMembers
    <2>5. QED
      BY <1>a, <1>b, <2>1, <2>4
  <1>4. ASSUME NEW t \in Call, ClientStep(t) PROVE PodTypeOK'
    <2>1. Step(t) /\ UNCHANGED <<posted, changes, gone, raced>>
      BY <1>4 DEF ClientStep
    <2>2. ASSUME NEW v \in walks, v.call # t \/ pc'[t] # "free" PROVE Sound(v)'
      <3>1. CASE v.at = "waiting"
        <4>1. /\ v.call \in Call /\ pc[v.call] # "free"
              /\ frame[v.call].kind # "ticket"
          BY <1>a, <3>1 DEF Sound, WalkType
        <4>2. Keeps(t, v.call)
          BY <1>a, <2>1, <4>1, StepKeeps
        <4>3. QED
          BY <1>a, <2>1, <2>2, <4>2, SoundKept DEF Keeps
      <3>2. CASE v.at # "waiting"
        BY <1>a, <2>1, <3>2, CallAssumption, SoundKept DEF Sound
      <3>3. QED
        BY <3>1, <3>2
    <2>3. ASSUME NEW v \in walks, NEW x \in Continued(t, v) PROVE Sound(x)'
      <3>1. v.by \in 1..posted' /\ v.res \in Resource \ {Root} /\ posted' \in Nat
        BY <1>a, <2>1 DEF Sound, WalkType
      <3>2. x = Walk(v.by, v.res, "register") \/ x = Walk(v.by, v.res, "list")
        BY <2>3 DEF Continued
      <3>3. QED
        BY <3>1, <3>2, WalkSound
    <2>4. \A v \in walks' : Sound(v)'
      <3>1. CASE pc'[t] = "free"
        BY <1>4, <2>2, <2>3, <3>1 DEF ClientStep
      <3>2. CASE pc'[t] # "free"
        BY <1>4, <2>2, <3>2 DEF ClientStep
      <3>3. QED
        BY <3>1, <3>2
    <2>5. QED
      BY <1>a, <1>b, <2>1, <2>4
  <1>5. ASSUME NEW r \in Resource \ {Root}, UserCreates(r) \/ UserDeletes(r)
        PROVE  PodTypeOK'
    <2>1. UNCHANGED <<posted, walks>> /\ changes' \in 0..MaxActs
      BY <1>a, <1>5 DEF UserCreates, UserDeletes, Changed
    <2>2. raced' \subseteq gone' /\ gone' \subseteq Resource \ Pods
      <3>1. CASE UserCreates(r)
        BY <1>a, <3>1 DEF UserCreates
      <3>2. CASE UserDeletes(r)
        BY <1>a, <3>2 DEF UserDeletes
      <3>3. QED
        BY <1>5, <3>1, <3>2
    <2>3. \A u \in Call : pc[u] # "free" => pc'[u] # "free" /\ frame'[u] = frame[u]
      <3>1. CASE Unseen(r)
        BY <3>1 DEF Unseen, callVars
      <3>2. CASE ~Unseen(r)
        <4>1. \E point, f : point # "free" /\ NewCall(point, f)
          BY <1>5, <3>2 DEF UserCreates, UserDeletes, Create, Delete
        <4>2. QED
          BY <1>a, <4>1, NewCallKeeps
      <3>3. QED
        BY <3>1, <3>2
    <2>4. \A v \in walks' : Sound(v)'
      BY <1>a, <2>1, <2>3, SoundKept
    <2>5. QED
      BY <1>a, <1>b, <2>1, <2>2, <2>4
  <1>6. CASE UNCHANGED allVars
    BY <1>6 DEF allVars, podVars, vars, callVars, PodTypeOK
  <1>7. QED
    BY <1>1, <1>2, <1>3, <1>4, <1>5, <1>6 DEF PodNext

-----------------------------------------------------------------------------
(* The theorems.                                                            *)

LEMMA PodInvariant == PodSpec => [](LockInv /\ PodTypeOK)
  <1>1. PodInit => LockInv
    BY InitLocks DEF PodInit
  <1>2. PodInit => PodTypeOK
    BY PodAssumption DEF PodInit, PodTypeOK
  <1>3. LockInv /\ PodTypeOK /\ [PodNext]_allVars => LockInv' /\ PodTypeOK'
    <2> SUFFICES ASSUME LockInv, PodTypeOK, [PodNext]_allVars
                 PROVE  LockInv' /\ PodTypeOK'
      OBVIOUS
    <2>1. [OpenNext]_vars
      BY PodStepIsOpen
    <2>2. TypeOK'
      BY <2>1, TypeStep DEF LockInv
    <2>3. QED
      BY <2>1, <2>2, LockStep, PodTypeStep
  <1>4. QED
    BY <1>1, <1>2, <1>3, PTL DEF PodSpec

\* A walk that waits does so for a call that works on its resource.
THEOREM PodsTyped == PodSpec => []PodTypeOK
  BY PodInvariant, PTL

\* Whatever PatUpdater and ResourceRegistrar ask for, and whenever they do:
\* it is a behaviour of the client in its open environment.
THEOREM PodsUseOpenClient == PodSpec => OpenSpec
  <1>1. PodInit => Init
    BY DEF PodInit
  <1>2. QED
    BY <1>1, PodInvariant, PodStepIsOpen, PTL DEF PodSpec, OpenSpec

\* So what keeps registrations apart does so here, across changes of issuer.
THEOREM PodRegistrationIsExclusive == PodSpec => []ExclusiveRegistration
  BY PodsUseOpenClient, RegistrationIsExclusive, PTL

\* One token request is under way at a time, across changes of credentials.
THEOREM PodPatRequestIsExclusive == PodSpec => []ExclusivePat
  BY PodsUseOpenClient, PatRequestIsExclusive, PTL

-----------------------------------------------------------------------------
(* What the proofs about the client say of pods.                            *)

\* No response is lost here.
LEMMA NothingIsLost == PodSpec => [](lost = 0)
  <1>1. PodInit => lost = 0
    BY DEF PodInit, Init
  <1>2. lost = 0 /\ [PodNext]_allVars => (lost = 0)'
    <2> SUFFICES ASSUME lost = 0, [PodNext]_allVars PROVE lost' = lost
      OBVIOUS
    <2> USE DEF serverVars
    <2>1. ASSUME NEW t \in Call, ClientStep(t) PROVE lost' = lost
      BY <2>1, StepKeepsServer DEF ClientStep
    <2>2. ASSUME NEW w \in walks, CallClient(w) PROVE lost' = lost
      BY <2>2 DEF CallClient, Unregister, Reregister, NewCall
    <2>3. ASSUME NEW r \in Resource \ {Root}, UserCreates(r) \/ UserDeletes(r)
          PROVE  lost' = lost
      BY <2>3 DEF UserCreates, UserDeletes, Create, Delete, Unseen, NewCall
    <2>4. CASE UNCHANGED vars
      BY <2>4 DEF vars
    <2>5. QED
      BY <2>1, <2>2, <2>3, <2>4 DEF PodNext, UpdateSettings, ListMembers, allVars
  <1>3. QED
    BY <1>1, <1>2, PTL DEF PodSpec

\* Walks over the pods and the events of resources that come and go register
\* nothing at an issuer that knows it already.
THEOREM PodsRegisterOnce == PodSpec => []NoDuplicateRegistration
  BY PodsUseOpenClient, NothingIsRegisteredTwice, NothingIsLost, PTL

\* What an issuer stores while a pod is walked over, moved to another issuer
\* and changed is what its ResourceRegistry would store.
THEOREM PodsFollowRegistry == PodSpec => FollowsRegistry
  BY PodsUseOpenClient, IssuersAreRegistries

-----------------------------------------------------------------------------
(* Containers.                                                              *)

\* What has everything its members are in has the lineage of each of them.
LEMMA LineageWithin ==
  ASSUME NEW S \in SUBSET Resource, Upward(S), NEW r \in S
  PROVE  Lineage[r] \subseteq S
  BY DEF Lineage

\* The lineage of a resource is the resource and the lineage of its parent.
LEMMA LineageOf ==
  ASSUME NEW r \in Resource
  PROVE  /\ r \in Lineage[r] /\ Lineage[r] \subseteq Resource
         /\ Upward(Lineage[r])
         /\ r = Root => Lineage[r] = {Root}
         /\ r # Root => Lineage[r] = {r} \cup Lineage[Parent[r]]
  <1>1. r \in Lineage[r] /\ Lineage[r] \subseteq Resource
    BY DEF Lineage
  <1>2. Upward(Lineage[r])
    BY ResourceAssumption DEF Lineage, Upward
  <1>3. ASSUME r = Root PROVE Lineage[r] = {Root}
    <2>1. Upward({Root})
      BY DEF Upward
    <2>2. QED
      BY <1>1, <1>3, <2>1, LineageWithin
  <1>4. ASSUME r # Root PROVE Lineage[r] = {r} \cup Lineage[Parent[r]]
    <2> PICK p \in Resource : p = Parent[r]
      BY <1>4, ResourceAssumption
    <2>1. p \in Lineage[p] /\ Lineage[p] \subseteq Resource /\ Upward(Lineage[p])
      BY ResourceAssumption DEF Lineage, Upward
    <2>2. Upward({r} \cup Lineage[p])
      BY <2>1 DEF Upward
    <2>3. Lineage[r] \subseteq {r} \cup Lineage[p]
      BY <2>1, <2>2, LineageWithin
    <2>4. p \in Lineage[r]
      BY <1>1, <1>2, <1>4 DEF Upward
    <2>5. Lineage[p] \subseteq Lineage[r]
      BY <1>1, <1>2, <2>4, LineageWithin
    <2>6. QED
      BY <1>1, <2>3, <2>5
  <1>5. QED
    BY <1>1, <1>2, <1>3, <1>4

-----------------------------------------------------------------------------
(* Steps of walks and users.                                                *)

\* What holds of the client in any environment holds of it here.
PodBase ==
  /\ PodTypeOK /\ IdsInv /\ PatInv /\ KnownInv /\ RelationInv /\ lost = 0

\* The behaviours of the callers are behaviours of the client's environment.
LEMMA PodBaseHolds == PodSpec => []PodBase
  BY PodInvariant, NothingIsLost, PodsUseOpenClient, IdsHold, PatsHold, KnownHolds,
     RelationsHold, PTL DEF PodBase

\* A call the server makes is made for a walk, or on a change of a resource of
\* an account with settings.
ForWalk(u) ==
  \E w \in walks : /\ CallClient(w)
                   /\ \/ /\ w.at = "unregister"
                         /\ frame'[u] = Deleting(w.res, Previous(w.by))
                      \/ /\ w.at = "register"
                         /\ frame'[u] = Registering(w.res, New(w.by), NoCall)

\* The call is made for a resource a user just created or deleted.
ForUser(u) ==
  /\ Settings # Nobody
  /\ \E r \in Resource \ {Root} :
       \/ UserCreates(r) /\ frame'[u] = Registering(r, Settings, NoCall)
       \/ UserDeletes(r) /\ frame'[u] = Deleting(r, Settings)

\* Nothing but walks and users makes a call.
LEMMA PodStarts ==
  ASSUME TypeOK, [PodNext]_allVars, NEW u \in Call, Starts(u), events' = events + 1
  PROVE  ForWalk(u) \/ ForUser(u)
  <1> USE DEF clientVars, callVars, serverVars, asVars
  <1>0. /\ events \in Nat /\ pc[u] = "free" /\ pc'[u] # "free"
        /\ pc \in [Call -> Point] /\ frame \in [Call -> Frame]
    BY DEF TypeOK, CallsTyped, Starts
  <1>1. ASSUME NEW p, NEW f, NewCall(p, f) PROVE frame'[u] = f
    BY <1>0, <1>1 DEF NewCall
  <1>2. CASE UNCHANGED vars
    BY <1>0, <1>2 DEF vars
  <1>3. ASSUME NEW w \in walks, CallClient(w) PROVE ForWalk(u)
    BY <1>1, <1>3 DEF CallClient, Unregister, Reregister, ForWalk
  <1>4. ASSUME NEW t \in Call, ClientStep(t) PROVE FALSE
    BY <1>0, <1>4, StepKeepsServer DEF ClientStep
  <1>5. ASSUME NEW r \in Resource \ {Root}, Unseen(r) PROVE FALSE
    BY <1>0, <1>5 DEF Unseen
  <1>6. ASSUME NEW r \in Resource \ {Root}, UserCreates(r) PROVE ForUser(u)
    BY <1>1, <1>5, <1>6 DEF UserCreates, Create, ForUser
  <1>7. ASSUME NEW r \in Resource \ {Root}, UserDeletes(r) PROVE ForUser(u)
    BY <1>1, <1>5, <1>7 DEF UserDeletes, Delete, ForUser
  <1>8. QED
    BY <1>2, <1>3, <1>4, <1>6, <1>7 DEF PodNext, UpdateSettings, ListMembers, allVars

\* Here PATs do not expire, and no response is lost.
LEMMA PodStores ==
  ASSUME TypeOK, [PodNext]_allVars
  PROVE  livePat \subseteq livePat'
  <1> USE DEF clientVars, callVars, serverVars, asVars
  <1>1. ASSUME NEW t \in Call, Step(t) PROVE livePat \subseteq livePat'
    BY <1>1 DEF Step, ConfigFails, ConfigRead, PatStep, GetPat, PatConfigRead,
       PatConfigFails, PatRefused, PatIssued, PatReceived, RegisterStep, Begin,
       SendRegistration, HandleRegistration, RegistrationAnswered, Join, RejectEarly,
       TicketStep, Lookup, Timeout, Woken, Probe, Registered, RequestStep, Send,
       HandleTicket, HandleDelete, Answered
  <1>2. ASSUME NEW p, NEW f, NewCall(p, f) PROVE livePat \subseteq livePat'
    BY <1>2 DEF NewCall
  <1>3. ASSUME NEW w \in walks, CallClient(w) PROVE livePat \subseteq livePat'
    BY <1>2, <1>3 DEF CallClient, Unregister, Reregister
  <1>4. ASSUME NEW r \in Resource \ {Root}, UserCreates(r) \/ UserDeletes(r)
        PROVE  livePat \subseteq livePat'
    BY <1>2, <1>4 DEF UserCreates, UserDeletes, Create, Delete, Unseen
  <1>5. CASE UNCHANGED vars
    BY <1>5 DEF vars
  <1>6. QED
    BY <1>1, <1>3, <1>4, <1>5 DEF PodNext, ClientStep, UpdateSettings, ListMembers, allVars

\* All that the proofs below look at of a step.
LEMMA PodEffects ==
  ASSUME PodBase, PodBase', [PodNext]_allVars
  PROVE  /\ [OpenNext]_vars /\ CallStep /\ StoreStep /\ TypeOK /\ TypeOK'
         /\ LockInv /\ LockInv' /\ lost' = lost /\ lost = 0
         /\ livePat \subseteq livePat'
         /\ umaIdStore \subseteq umaIdStore'
  <1>1. [OpenNext]_vars /\ LockInv /\ LockInv' /\ lost' = lost
    BY PodStepIsOpen DEF PodBase, IdsInv
  <1>2. CallStep /\ StoreStep
    BY <1>1, StepEffects
  <1>3. QED
    BY <1>1, <1>2, PodStores, IdsGrow DEF StoreStep, LockInv, PodBase

-----------------------------------------------------------------------------
(* What the rest of the server keeps to, over any number of updates.        *)

\* Accounts that were given a PAT have the credentials for one.
Paid == \A a \in Account : issuedPat[a] > 0 => a \notin BadAccount

\* An account has one PAT at most, which is valid and is kept, and what needs
\* one has it.
QuietPats ==
  /\ \A a \in Account : issuedPat[a] # 0 =>
       /\ issuedPat[a] = 1 /\ a \in livePat
       /\ patStorage[a] = 1 \/ \E t \in Call : pc[t] = "patAnswered" /\ frame[t].acct = a
  /\ \A t \in Call : pc[t] \in Carrying \cup {"patAnswered"} => frame[t].pat # 0

\* Nobody asks for access here.
NoTickets == \A t \in Call : pc[t] # "free" => frame[t].kind \in {"register", "delete"}

\* Resources are in containers that exist.
Rooted == Root \in exists /\ Upward(exists)

\* The part of the invariants below that holds for any settings.
PodCalls == PodBase /\ Configured /\ Paid /\ QuietPats /\ NoTickets /\ Rooted

\* A call passes fetchUmaConfig if its issuer can be read.
LEMMA PodConfigured ==
  ASSUME PodCalls, PodBase', [PodNext]_allVars PROVE Configured'
  <1> SUFFICES ASSUME NEW u \in Call,
                      pc'[u] \in Requesting \cup Ticketing \cup {"join"}
               PROVE  Works(frame'[u].acct)
    BY DEF Configured
  <1>0. CallStep /\ Configured
    BY PodEffects DEF PodCalls
  <1>1. CASE Stays(u)
    BY <1>0, <1>1 DEF Stays, SameJob, Configured
  <1>2. CASE Moves(u)
    BY <1>0, <1>2 DEF Moves, Edge, Assigned, Passed, Configured, Works,
                Requesting, Ticketing
  <1>3. ~Starts(u)
    BY DEF Starts, FromServer, FromChild, FromTicket, Enter, Requesting, Ticketing
  <1>4. QED
    BY <1>0, <1>1, <1>2, <1>3 DEF CallStep, Ends, MayEnd, Requesting, Ticketing

\* The issuer refuses bad credentials.
LEMMA PodPaid ==
  ASSUME PodCalls, PodBase', [PodNext]_allVars PROVE Paid'
  <1>0. /\ IssuedStep /\ TypeOK /\ Paid /\ issuedPat \in [Account -> Nat]
    BY PodEffects DEF PodCalls, StoreStep, TypeOK
  <1>1. ASSUME NEW t \in Call, pc[t] = "patSent", frame[t].acct \notin BadAccount,
               issuedPat' = [issuedPat EXCEPT ![frame[t].acct] = @ + 1]
        PROVE  Paid'
    BY <1>0, <1>1 DEF Paid
  <1>2. QED
    BY <1>0, <1>1 DEF IssuedStep, Paid

\* Who asks for a PAT finds none in the cache, and waits until one that was
\* asked for has arrived.
LEMMA PodPats ==
  ASSUME PodCalls, PodBase', [PodNext]_allVars PROVE QuietPats'
  <1>0. /\ CallStep /\ IssuedStep /\ CacheStep /\ TypeOK /\ TypeOK' /\ QuietPats
        /\ NoTickets /\ PatsNumbered /\ AskedUncached /\ ExclusivePat
        /\ lost' = lost /\ lost \in Nat /\ livePat \subseteq livePat'
    BY PodEffects DEF PodCalls, PodBase, PatInv, LockInv, StoreStep, TypeOK
  <1>a. /\ issuedPat \in [Account -> Nat] /\ patStorage \in [Account -> Nat]
        /\ issuedPat' \in [Account -> Nat]
    BY <1>0 DEF TypeOK
  <1>1. ASSUME NEW u \in Call, pc'[u] \in Carrying \cup {"patAnswered"}
        PROVE  frame'[u].pat # 0
    <2>1. CASE Stays(u)
      BY <1>0, <1>1, <2>1 DEF Stays, SameJob, QuietPats
    <2>2. CASE Moves(u) /\ pc[u] = "patSent"
      <3>1. frame[u].acct \in Account /\ issuedPat[frame[u].acct] \in Nat
        BY <1>0, <2>2, CallTypes DEF TypeOK
      <3>2. QED
        BY <2>2, <3>1 DEF Moves, Passed
    <2>3. CASE Moves(u) /\ pc[u] # "patSent"
      BY <1>0, <1>1, <2>3 DEF Moves, Edge, Assigned, Passed, QuietPats, Carrying, Ticketing
    <2>4. ~Starts(u) /\ ~Ends(u)
      BY <1>1 DEF Starts, Ends, MayEnd, FromServer, FromChild, FromTicket, Enter, Carrying
    <2>5. QED
      BY <1>0, <2>1, <2>2, <2>3, <2>4 DEF CallStep
  <1>2. ASSUME NEW a \in Account, issuedPat[a] # 0
        PROVE  patStorage'[a] = 1 \/ \E t \in Call : pc'[t] = "patAnswered" /\ frame'[t].acct = a
    <2>0. issuedPat[a] = 1 /\ a \in livePat
      BY <1>0, <1>2 DEF QuietPats
    <2>1. CASE patStorage[a] = 1
      <3>1. ASSUME NEW t \in Call, pc[t] = "patAnswered",
                   patStorage' = [patStorage EXCEPT ![frame[t].acct] = frame[t].pat]
            PROVE  patStorage'[a] = 1
        <4>1. frame[t].acct # a
          BY <1>0, <2>1, <3>1 DEF AskedUncached, AskingPat
        <4>2. QED
          BY <1>a, <2>1, <3>1, <4>1
      <3>2. ASSUME NEW b \in Account \ livePat, patStorage' = [patStorage EXCEPT ![b] = 0]
            PROVE  patStorage'[a] = 1
        BY <1>a, <2>0, <2>1, <3>2
      <3>3. QED
        BY <1>0, <2>1, <3>1, <3>2 DEF CacheStep
    <2>2. ASSUME NEW t \in Call, pc[t] = "patAnswered", frame[t].acct = a
          PROVE  \/ patStorage'[a] = 1
                 \/ pc'[t] = "patAnswered" /\ frame'[t].acct = a
      <3>1. CASE Stays(t)
        BY <2>2, <3>1 DEF Stays, SameJob
      <3>2. CASE Moves(t)
        <4>1. pc'[t] = "send"
          BY <1>0, <2>2, <3>2 DEF Moves, Edge, Passed, Ticketing
        <4>2. patStorage' = [patStorage EXCEPT ![a] = frame[t].pat]
          BY <2>2, <3>2, <4>1 DEF Moves, Passed
        <4>3. frame[t].pat \in Nat /\ frame[t].pat # 0 /\ frame[t].pat <= issuedPat[a]
          BY <1>0, <2>2, CallTypes DEF QuietPats, PatsNumbered
        <4>4. QED
          BY <1>a, <2>0, <4>2, <4>3
      <3>3. ~Starts(t) /\ ~Ends(t)
        BY <1>0, <2>2 DEF Starts, Ends, MayEnd, NoTickets
      <3>4. QED
        BY <1>0, <3>1, <3>2, <3>3 DEF CallStep
    <2>3. QED
      BY <1>0, <1>2, <2>1, <2>2 DEF QuietPats
  <1>3. ASSUME NEW a \in Account, issuedPat'[a] # 0
        PROVE  /\ issuedPat'[a] = 1 /\ a \in livePat'
               /\ patStorage'[a] = 1
                    \/ \E t \in Call : pc'[t] = "patAnswered" /\ frame'[t].acct = a
    <2>1. CASE UNCHANGED issuedPat
      BY <1>0, <1>2, <1>3, <2>1 DEF QuietPats
    <2>2. ASSUME NEW t \in Call, pc[t] = "patSent", pc'[t] = "patAnswered",
                 issuedPat' = [issuedPat EXCEPT ![frame[t].acct] = @ + 1],
                 livePat' = livePat \cup {frame[t].acct}
          PROVE  /\ issuedPat'[a] = 1 /\ a \in livePat'
                 /\ patStorage'[a] = 1
                      \/ \E v \in Call : pc'[v] = "patAnswered" /\ frame'[v].acct = a
      <3>1. CASE frame[t].acct = a
        <4>1. patStorage[a] = 0
          BY <1>0, <2>2, <3>1 DEF AskedUncached, AskingPat
        <4>2. ASSUME NEW v \in Call PROVE pc[v] # "patAnswered"
          BY <1>0, <2>2 DEF ExclusivePat, AskingPat
        <4>3. issuedPat[a] = 0
          BY <1>0, <4>1, <4>2 DEF QuietPats
        <4>4. frame'[t].acct = a
          BY <1>0, <2>2, <3>1 DEF CallStep, Stays, Ends, Moves, Assigned, Starts
        <4>5. QED
          BY <1>a, <2>2, <3>1, <4>3, <4>4
      <3>2. CASE frame[t].acct # a
        <4>1. issuedPat'[a] = issuedPat[a]
          BY <1>a, <2>2, <3>2
        <4>2. QED
          BY <1>0, <1>2, <1>3, <4>1 DEF QuietPats
      <3>3. QED
        BY <3>1, <3>2
    <2>3. QED
      BY <1>0, <2>1, <2>2 DEF IssuedStep
  <1>4. QED
    BY <1>1, <1>3 DEF QuietPats

\* The walks and the users make no requests for access.
LEMMA PodNoTickets ==
  ASSUME PodCalls, PodBase', [PodNext]_allVars PROVE NoTickets'
  <1> SUFFICES ASSUME NEW u \in Call, pc'[u] # "free"
               PROVE  frame'[u].kind \in {"register", "delete"}
    BY DEF NoTickets
  <1>0. CallStep /\ TypeOK /\ NoTickets
    BY PodEffects DEF PodCalls
  <1>1. CASE Stays(u) \/ Moves(u)
    BY <1>0, <1>1 DEF Stays, SameJob, Moves, Assigned, NoTickets
  <1>2. CASE Starts(u) /\ FromServer(u)
    <2>1. ForWalk(u) \/ ForUser(u)
      BY <1>0, <1>2, PodStarts DEF FromServer
    <2>2. \A r, a : Deleting(r, a).kind = "delete" /\ Registering(r, a, NoCall).kind = "register"
      BY DEF Deleting, Registering, Idle
    <2>3. QED
      BY <2>1, <2>2 DEF ForWalk, ForUser
  <1>3. CASE Starts(u) /\ ~FromServer(u)
    BY <1>3 DEF Starts, FromChild, FromTicket
  <1>4. QED
    BY <1>0, <1>1, <1>2, <1>3 DEF CallStep, Ends

\* How resources come and go.
LEMMA PodExists ==
  ASSUME [PodNext]_allVars
  PROVE  \/ UNCHANGED <<exists, gone, raced>>
         \/ \E r \in Resource \ {Root} :
              /\ UserCreates(r) /\ UNCHANGED <<gone, raced>>
              /\ Parent[r] \in exists /\ exists' = exists \cup {r}
         \/ \E r \in Resource \ {Root} :
              /\ UserDeletes(r) /\ gone' = gone \cup {r}
              /\ r \in exists /\ Children(r) = {} /\ exists' = exists \ {r}
              /\ raced' = IF Underway(r) THEN raced \cup {r} ELSE raced
  <1> USE DEF serverVars
  <1>1. ASSUME NEW t \in Call, ClientStep(t) PROVE UNCHANGED <<exists, gone, raced>>
    BY <1>1, StepKeepsServer DEF ClientStep
  <1>2. ASSUME NEW w \in walks, CallClient(w) PROVE UNCHANGED <<exists, gone, raced>>
    BY <1>2 DEF CallClient, Unregister, Reregister
  <1>3. ASSUME NEW r \in Resource \ {Root}, UserCreates(r)
        PROVE  UNCHANGED <<gone, raced>> /\ Parent[r] \in exists /\ exists' = exists \cup {r}
    BY <1>3 DEF UserCreates, Create, Unseen
  <1>4. ASSUME NEW r \in Resource \ {Root}, UserDeletes(r)
        PROVE  /\ gone' = gone \cup {r} /\ r \in exists /\ Children(r) = {}
               /\ exists' = exists \ {r}
               /\ raced' = IF Underway(r) THEN raced \cup {r} ELSE raced
    BY <1>4 DEF UserDeletes, Delete, Unseen
  <1>5. QED
    BY <1>1, <1>2, <1>3, <1>4 DEF PodNext, UpdateSettings, ListMembers, allVars, vars, podVars

\* A container is deleted when it is empty.
LEMMA PodRooted ==
  ASSUME PodCalls, PodBase', [PodNext]_allVars PROVE Rooted'
  <1>0. Root \in exists /\ Upward(exists)
    BY DEF PodCalls, Rooted
  <1>1. ASSUME NEW r \in Resource \ {Root}, Parent[r] \in exists, exists' = exists \cup {r}
        PROVE  Rooted'
    BY <1>0, <1>1 DEF Rooted, Upward
  <1>2. ASSUME NEW r \in Resource \ {Root}, Children(r) = {}, exists' = exists \ {r}
        PROVE  Rooted'
    BY <1>0, <1>2 DEF Rooted, Upward, Children
  <1>3. QED
    BY <1>0, <1>1, <1>2, PodExists DEF Rooted, Upward

\* The calls are made as above, whatever the settings.
LEMMA PodCallsHold == PodSpec => []PodCalls
  <1>1. PodInit /\ PodBase => PodCalls
    <2> SUFFICES ASSUME PodInit, PodBase PROVE PodCalls
      OBVIOUS
    <2>1. Init /\ \A t \in Call : pc[t] = "free" /\ frame[t] = Idle
      BY DEF PodInit, Init
    <2>2. Configured /\ NoTickets
      BY <2>1 DEF Configured, NoTickets, Requesting, Ticketing
    <2>3. Paid /\ QuietPats
      BY <2>1 DEF Init, Paid, QuietPats, Carrying
    <2>4. Rooted
      BY <2>1, EventAssumption, TreeAssumption DEF Init, Rooted
    <2>5. QED
      BY <2>2, <2>3, <2>4 DEF PodCalls
  <1>2. PodCalls /\ PodBase' /\ [PodNext]_allVars => PodCalls'
    BY PodConfigured, PodPaid, PodPats, PodNoTickets, PodRooted DEF PodCalls
  <1>3. QED
    BY <1>1, <1>2, PodBaseHolds, PTL DEF PodSpec

-----------------------------------------------------------------------------
(* What was removed is unregistered, after one update of the settings.      *)

\* After one update there are the calls and the registrations of one account.
OneAccount ==
  /\ \A t \in Call : pc[t] # "free" => posted > 0 /\ frame[t].acct = Posts[1]
  /\ \A i \in Issuer, r \in Resource : registrations[i][r] # Nobody =>
       /\ posted > 0 /\ registrations[i][r] = Posts[1] /\ i = IssuerOf[Posts[1]]
       /\ Posts[1] \in Account \ BadAccount /\ Works(Posts[1])

\* u has yet to unregister r.
Removing(u, r) ==
  /\ frame[u].kind = "delete" /\ frame[u].res = r
  /\ pc[u] \in {"config", "pat", "waitPat", "patConfig", "patSent", "patAnswered",
                "send", "sent"}

\* What was deleted will not be registered, and what was registered will not
\* stay so.
Detached ==
  \A r \in gone \ exists : r \in raced \/
    /\ ~Underway(r)
    /\ \A i \in Issuer : registrations[i][r] # Nobody => \E u \in Call : Removing(u, r)

\* The issuer of the first settings can be read at any time, or never.
Steady == Posts # <<>> => IssuerOf[Posts[1]] \notin FlakyIssuer

\* Inductive for RemovedAreUnregistered.
PodInv == PodCalls /\ (posted <= 1 => OneAccount /\ Detached)

\* The settings do not get older.
LEMMA PostedStep ==
  ASSUME PodTypeOK, [PodNext]_allVars
  PROVE  posted \in Nat /\ posted' \in Nat /\ posted <= posted'
  <1>1. posted \in Nat
    BY PodAssumption DEF PodTypeOK
  <1>2. posted' = posted \/ posted' = posted + 1
    BY DEF PodNext, UpdateSettings, CallClient, ListMembers, ClientStep, UserCreates,
           UserDeletes, Changed, allVars, podVars
  <1>3. QED
    BY <1>1, <1>2

\* The calls that are made after one update.
LEMMA FirstStarts ==
  ASSUME PodCalls, posted <= 1, [PodNext]_allVars, NEW u \in Call, Starts(u), FromServer(u)
  PROVE  /\ posted = 1
         /\ \/ \E w \in walks : /\ CallClient(w) /\ w.at = "register"
                               /\ frame'[u] = Registering(w.res, Posts[1], NoCall)
            \/ \E r \in Resource \ {Root} :
                 \/ UserCreates(r) /\ frame'[u] = Registering(r, Posts[1], NoCall)
                 \/ UserDeletes(r) /\ frame'[u] = Deleting(r, Posts[1])
  <1>0. TypeOK /\ PodTypeOK /\ posted \in Nat
    BY PodAssumption DEF PodCalls, PodBase, IdsInv, LockInv, PodTypeOK
  <1>1. ForWalk(u) \/ ForUser(u)
    BY <1>0, PodStarts DEF FromServer
  <1>2. ASSUME NEW w \in walks PROVE posted = 1 /\ w.by = 1 /\ w.at # "unregister"
    <2>1. w.by \in 1..posted /\ (w.at = "unregister" => w.by > 1)
      BY <1>0 DEF PodTypeOK
    <2>2. QED
      BY <1>0, <2>1
  <1>3. ASSUME Settings # Nobody PROVE posted = 1 /\ Settings = Posts[1]
    BY <1>0, <1>3 DEF Settings
  <1>4. QED
    BY <1>1, <1>2, <1>3 DEF ForWalk, ForUser, New

\* A call is made for the account of the one that needs it, and a registration
\* belongs to the account of the call that asked for it.
LEMMA OneAccountStep ==
  ASSUME PodInv, PodBase', [PodNext]_allVars, posted' <= 1 PROVE OneAccount'
  <1>0. /\ CallStep /\ RegistryStep /\ TypeOK /\ TypeOK' /\ PodTypeOK
        /\ PodCalls /\ Configured /\ Paid /\ QuietPats
        /\ posted \in Nat /\ posted' \in Nat /\ posted <= posted' /\ posted <= 1
        /\ OneAccount
    BY PodEffects, PostedStep DEF PodInv, PodCalls, PodBase, StoreStep
  <1>1. ASSUME NEW u \in Call, pc'[u] # "free"
        PROVE  posted' > 0 /\ frame'[u].acct = Posts[1]
    <2>1. CASE Stays(u) \/ Moves(u)
      BY <1>0, <1>1, <2>1 DEF Stays, SameJob, Moves, Assigned, OneAccount
    <2>2. CASE Starts(u) /\ FromServer(u)
      <3>1. \A r : Deleting(r, Posts[1]).acct = Posts[1] /\ Registering(r, Posts[1], NoCall).acct = Posts[1]
        BY DEF Deleting, Registering, Idle
      <3>2. QED
        BY <1>0, <2>2, <3>1, FirstStarts
    <2>3. CASE Starts(u) /\ ~FromServer(u)
      BY <1>0, <2>3 DEF Starts, FromChild, FromTicket, OneAccount
    <2>4. QED
      BY <1>0, <1>1, <2>1, <2>2, <2>3 DEF CallStep, Ends
  <1>2. ASSUME NEW i \in Issuer, NEW r \in Resource, registrations'[i][r] # Nobody
        PROVE  /\ posted' > 0 /\ registrations'[i][r] = Posts[1] /\ i = IssuerOf[Posts[1]]
               /\ Posts[1] \in Account \ BadAccount /\ Works(Posts[1])
    <2>1. CASE registrations'[i][r] = registrations[i][r]
      BY <1>0, <1>2, <2>1 DEF OneAccount
    <2>2. ASSUME NEW t \in Call, Accepts(t), registrations'[i][r] # registrations[i][r]
          PROVE  /\ posted > 0 /\ registrations'[i][r] = Posts[1] /\ i = IssuerOf[Posts[1]]
                 /\ Posts[1] \in Account \ BadAccount /\ Works(Posts[1])
      <3> PICK a \in Account : a = frame[t].acct
        BY <1>0, <2>2, CallTypes DEF Accepts
      <3>1. posted > 0 /\ a = Posts[1] /\ Works(a) /\ frame[t].pat # 0
        BY <1>0, <2>2 DEF Accepts, OneAccount, Configured, Requesting, QuietPats, Carrying
      <3>2. issuedPat[a] \in Nat /\ issuedPat[a] # 0
        BY <1>0, <2>2, <3>1 DEF Accepts, Acceptable, PatValid, TypeOK
      <3>3. a \notin BadAccount
        BY <1>0, <3>2 DEF Paid
      <3>4. registrations'[i][r] = a /\ i = IssuerOf[a]
        BY <1>0, <2>2 DEF Accepts, TypeOK
      <3>5. QED
        BY <3>1, <3>3, <3>4
    <2>3. ASSUME NEW t \in Call, Deletes(t), registrations'[i][r] # registrations[i][r]
          PROVE  FALSE
      BY <1>0, <1>2, <2>3 DEF Deletes, TypeOK
    <2>4. QED
      BY <1>0, <2>1, <2>2, <2>3 DEF RegistryStep
  <1>3. QED
    BY <1>1, <1>2 DEF OneAccount

\* What is deleted for good in this step was so before, or is deleted now.
LEMMA GoneStep ==
  ASSUME [PodNext]_allVars, NEW r \in gone' \ exists', r \notin raced'
  PROVE  /\ r \notin raced
         /\ \/ r \in gone \ exists
            \/ UserDeletes(r) /\ ~Underway(r)
  BY PodExists

\* A walk is over what one was over before, over a pod, or over what is there.
LEMMA WalksStep ==
  ASSUME PodTypeOK, [PodNext]_allVars, NEW v \in walks'
  PROVE  (\E w \in walks : v.res = w.res) \/ v.res \in Pods \/ v.res \in exists'
  <1>0. walks \subseteq WalkType
    BY DEF PodTypeOK
  <1>1. \A n, r, p : Walk(n, r, p).res = r
    BY DEF Walk
  <1>2. CASE UpdateSettings
    BY <1>1, <1>2 DEF UpdateSettings, Entered
  <1>3. ASSUME NEW w \in walks, CallClient(w) PROVE \E x \in walks : v.res = x.res
    <2>1. \A q : [w EXCEPT !.at = "waiting", !.call = q].res = w.res
      BY <1>0 DEF WalkType
    <2>2. QED
      BY <1>3, <2>1 DEF CallClient
  <1>4. ASSUME NEW w \in walks, ListMembers(w)
        PROVE  (\E x \in walks : v.res = x.res) \/ v.res \in exists'
    BY <1>1, <1>4 DEF ListMembers, Members, Children, Entered, vars, serverVars
  <1>5. ASSUME NEW t \in Call, ClientStep(t) PROVE \E x \in walks : v.res = x.res
    <2>1. CASE v \in walks
      BY <2>1
    <2>2. CASE \E w \in walks : v \in Continued(t, w)
      BY <1>1, <2>2 DEF Continued
    <2>3. QED
      BY <1>5, <2>1, <2>2 DEF ClientStep
  <1>6. CASE walks' = walks
    BY <1>6
  <1>7. QED
    BY <1>2, <1>3, <1>4, <1>5, <1>6 DEF PodNext, UserCreates, UserDeletes, Changed,
       allVars, podVars

\* A registration is under way for what was registered before, or for what is
\* there, or for a parent nobody knows.
LEMMA OngoingStep ==
  ASSUME PodCalls, PodBase', [PodNext]_allVars, NEW x \in Ongoing'
  PROVE  /\ x \in Resource
         /\ \/ x \in Ongoing \/ x \in exists' \/ x \in Pods
            \/ \E y \in Ongoing \ {Root} : x = Parent[y] /\ x \notin umaIdStore
  <1>0. /\ CallStep /\ TypeOK /\ TypeOK' /\ PodTypeOK /\ PodTypeOK' /\ NoTickets
        /\ OnlyTickets
    BY PodEffects DEF PodCalls, PodBase, LockInv
  <1>1. ASSUME NEW u \in Call, frame'[u].kind = "register", x = frame'[u].res
        PROVE  \/ x \in Ongoing \/ x \in exists' \/ x \in Pods
               \/ \E y \in Ongoing \ {Root} : x = Parent[y] /\ x \notin umaIdStore
    <2>1. CASE Stays(u) \/ Moves(u)
      <3>1. frame[u].kind = "register" /\ frame[u].res = x
        BY <1>1, <2>1 DEF Stays, SameJob, Moves, Assigned
      <3>2. QED
        BY <3>1 DEF Ongoing
    <2>2. CASE Starts(u) /\ FromServer(u)
      <3>1. ForWalk(u) \/ ForUser(u)
        BY <1>0, <2>2, PodStarts DEF FromServer
      <3>2. /\ \A r, a : Deleting(r, a).kind = "delete"
            /\ \A r, a : Registering(r, a, NoCall).res = r
        BY DEF Deleting, Registering, Idle
      <3>3. CASE ForWalk(u)
        BY <1>1, <3>2, <3>3 DEF ForWalk, Ongoing
      <3>4. CASE ForUser(u)
        <4>1. PICK r \in Resource \ {Root} : UserCreates(r) /\ x = r
          BY <1>1, <3>2, <3>4 DEF ForUser
        <4>2. QED
          BY <4>1 DEF UserCreates, Create, Unseen
      <3>5. QED
        BY <3>1, <3>3, <3>4
    <2>3. CASE Starts(u) /\ ~FromServer(u)
      <3>1. PICK t \in Call :
              /\ frame[t].kind = "register"
              /\ \/ x = frame[t].res
                 \/ x = Parent[frame[t].res] /\ Orphan(frame[t].res)
        BY <1>0, <1>1, <2>3 DEF Starts, FromChild, FromTicket, NoTickets, OnlyTickets, Ticketing
      <3>2. frame[t].res \in Ongoing
        BY <3>1 DEF Ongoing
      <3>3. QED
        BY <3>1, <3>2 DEF Orphan
    <2>4. ~Ends(u)
      BY <1>1 DEF Ends, Idle
    <2>5. QED
      BY <1>0, <2>1, <2>2, <2>3, <2>4 DEF CallStep
  <1>2. ASSUME NEW v \in walks', x = v.res
        PROVE  x \in Ongoing \/ x \in exists' \/ x \in Pods
    BY <1>0, <1>2, WalksStep DEF Ongoing
  <1>3. \/ \E u \in Call : frame'[u].kind = "register" /\ x = frame'[u].res
        \/ \E v \in walks' : x = v.res
    BY DEF Ongoing
  <1>4. x \in Resource
    BY <1>0, <1>3, CallTypes DEF PodTypeOK, WalkType, TypeOK, CallsTyped, Frame
  <1>5. QED
    BY <1>1, <1>2, <1>3, <1>4

\* Nothing brings back what is not being registered: a walk goes over what is
\* there, and a registration that starts another one is of something below.
LEMMA StaysRemoved ==
  ASSUME PodCalls, PodBase', Rooted', [PodNext]_allVars,
         NEW r \in gone' \ exists', ~Underway(r)
  PROVE  ~Underway(r)'
  <1> SUFFICES ASSUME NEW x \in Ongoing', x = r \/ (r \notin umaIdStore' /\ r \in Lineage[x])
               PROVE  FALSE
    BY DEF Underway
  <1>0. /\ umaIdStore \subseteq umaIdStore' /\ exists' \subseteq Resource
        /\ r \notin Pods /\ r # Root /\ r \notin exists' /\ r \in Resource
    <2>1. umaIdStore \subseteq umaIdStore' /\ TypeOK'
      BY PodEffects DEF PodCalls
    <2>2. exists' \subseteq Resource
      BY <2>1 DEF TypeOK
    <2>3. r \in Resource \ Pods
      BY DEF PodBase, PodTypeOK
    <2>4. QED
      BY <2>1, <2>2, <2>3 DEF Rooted
  <1>1. x \in Resource /\ r \in Lineage[x]
    BY <1>0, OngoingStep, LineageOf
  <1>2. CASE x \in Ongoing
    BY <1>0, <1>2 DEF Underway
  <1>3. CASE x \in exists'
    BY <1>0, <1>1, <1>3, LineageWithin DEF Rooted
  <1>4. CASE x \in Pods
    <2>1. x # Root /\ Parent[x] = Root
      BY <1>4 DEF Pods
    <2>2. Lineage[x] = {x} \cup Lineage[Root] /\ Lineage[Root] = {Root}
      BY <1>1, <2>1, LineageOf, ResourceAssumption
    <2>3. QED
      BY <1>0, <1>1, <1>4, <2>2
  <1>5. ASSUME NEW y \in Ongoing \ {Root}, x = Parent[y], x \notin umaIdStore
        PROVE  FALSE
    <2>1. y \in Resource
      BY DEF PodCalls, PodBase, PodTypeOK, IdsInv, LockInv, TypeOK, CallsTyped, Frame,
             WalkType, Ongoing
    <2>2. r \in Lineage[y]
      BY <1>1, <1>5, <2>1, LineageOf
    <2>3. r \notin umaIdStore
      BY <1>0, <1>5
    <2>4. QED
      BY <2>2, <2>3 DEF Underway
  <1>6. QED
    BY <1>2, <1>3, <1>4, <1>5, OngoingStep

\* A call that has yet to unregister r goes on to do so.
LEMMA RemovingStep ==
  ASSUME Steady, PodInv, posted <= 1, PodBase', [PodNext]_allVars,
         NEW r \in Resource, ~Underway(r), NEW i \in Issuer, registrations[i][r] # Nobody,
         NEW u \in Call, Removing(u, r)
  PROVE  registrations'[i][r] = Nobody \/ Removing(u, r)'
  <1>0. /\ CallStep /\ TypeOK /\ PodCalls /\ QuietPats /\ KnownInv /\ OneAccount
        /\ lost' = lost /\ lost = 0
    BY PodEffects DEF PodInv, PodCalls, PodBase
  <1>1. /\ frame[u].kind = "delete" /\ frame[u].res = r /\ pc[u] # "free"
        /\ frame[u].acct = Posts[1] /\ i = IssuerOf[Posts[1]]
        /\ registrations[i][r] = Posts[1]
        /\ Posts[1] \in Account \ BadAccount /\ Works(Posts[1])
        /\ IssuerOf[Posts[1]] \notin FlakyIssuer
    <2>1. posted > 0
      BY <1>0 DEF OneAccount
    <2>2. Posts # <<>>
      BY <1>0, <2>1, PodAssumption DEF PodCalls, PodBase, PodTypeOK
    <2>3. QED
      BY <1>0, <2>2 DEF Removing, OneAccount, Steady
  <1>2. r \in umaIdStore
    <2>1. ASSUME NEW t \in Call, Arriving(t, r) PROVE FALSE
      BY <2>1 DEF Arriving, Underway, Ongoing
    <2>2. QED
      BY <1>0, <2>1 DEF KnownInv, RegisteredKnown
  <1>3. CASE Stays(u)
    BY <1>3 DEF Stays, SameJob, Removing
  <1>4. CASE Moves(u) /\ pc[u] # "sent"
    BY <1>1, <1>4 DEF Moves, Edge, Assigned, Passed, Removing, Ticketing
  <1>5. CASE Moves(u) /\ pc[u] = "sent"
    <2>1. issuedPat[Posts[1]] \in Nat /\ frame[u].pat \in Nat
      BY <1>0, <1>1, CallTypes DEF TypeOK
    <2>2. frame[u].pat # 0 /\ frame[u].pat <= issuedPat[Posts[1]]
      BY <1>0, <1>1, <1>5 DEF QuietPats, Carrying, PodCalls, PodBase, PatInv, PatsNumbered
    <2>3. issuedPat[Posts[1]] = 1 /\ Posts[1] \in livePat
      BY <1>0, <1>1, <2>1, <2>2 DEF QuietPats
    <2>4. PatValid(u)
      BY <1>1, <2>1, <2>2, <2>3 DEF PatValid
    <2>5. Deletes(u)
      BY <1>1, <1>5, <2>4 DEF Moves, Passed
    <2>6. QED
      BY <1>0, <1>1, <2>5 DEF Deletes, TypeOK
  <1>6. ~Starts(u) /\ ~Ends(u)
    BY <1>1, <1>2 DEF Starts, Ends, MayEnd, MayFail, Removing, Works
  <1>7. QED
    BY <1>0, <1>3, <1>4, <1>5, <1>6 DEF CallStep

\* What was deleted before the step is on its way out after it, and so is what
\* is deleted in it.
LEMMA DetachedStep ==
  ASSUME Steady, PodInv, PodBase', Rooted', [PodNext]_allVars, posted' <= 1
  PROVE  Detached'
  <1> SUFFICES ASSUME NEW r \in gone' \ exists', r \notin raced'
               PROVE  /\ ~Underway(r)'
                      /\ \A i \in Issuer : registrations'[i][r] # Nobody =>
                           \E u \in Call : Removing(u, r)'
    BY DEF Detached
  <1>0. /\ CallStep /\ RegistryStep /\ TypeOK /\ PodTypeOK /\ PodCalls
        /\ posted \in Nat /\ posted' \in Nat /\ posted <= posted' /\ posted <= 1
        /\ OneAccount /\ Detached /\ r \in Resource
    BY PodEffects, PostedStep DEF PodInv, PodCalls, PodBase, PodTypeOK, StoreStep
  <1>1. ~Underway(r)
    BY <1>0, GoneStep DEF Detached
  <1>2. ~Underway(r)'
    BY <1>0, <1>1, StaysRemoved
  <1>3. ASSUME NEW i \in Issuer, registrations'[i][r] # Nobody
        PROVE  registrations[i][r] # Nobody
    <2>1. ASSUME NEW t \in Call, Accepts(t) PROVE frame[t].res # r
      BY <1>1, <2>1 DEF Accepts, Underway, Ongoing
    <2>2. ASSUME NEW t \in Call, Accepts(t) PROVE registrations'[i][r] = registrations[i][r]
      BY <1>0, <2>1, <2>2 DEF Accepts, TypeOK
    <2>3. ASSUME NEW t \in Call, Deletes(t) PROVE registrations[i][r] # Nobody
      BY <1>0, <1>3, <2>3 DEF Deletes, TypeOK
    <2>4. QED
      BY <1>0, <1>3, <2>2, <2>3 DEF RegistryStep
  <1>4. CASE r \in gone \ exists
    BY <1>0, <1>1, <1>2, <1>3, <1>4, GoneStep, RemovingStep DEF Detached
  <1>5. CASE UserDeletes(r)
    <2>1. ASSUME NEW i \in Issuer, registrations'[i][r] # Nobody
          PROVE  \E u \in Call : Removing(u, r)'
      <3>1. posted > 0 /\ Posts[1] \in Account
        BY <1>0, <1>3, <2>1 DEF OneAccount
      <3>2. Settings = Posts[1] /\ Settings # Nobody
        BY <1>0, <3>1, AccountAssumption DEF Settings
      <3>3. NewCall("config", Deleting(r, Posts[1]))
        BY <1>5, <3>2 DEF UserDeletes, Delete
      <3>4. PICK u \in Call : pc'[u] = "config" /\ frame'[u] = Deleting(r, Posts[1])
        <4>1. Pick(Free) \in Free
          BY <3>3, PickInSet DEF NewCall
        <4>2. QED
          BY <1>0, <3>3, <4>1 DEF NewCall, Free, TypeOK, CallsTyped
      <3>5. Deleting(r, Posts[1]).kind = "delete" /\ Deleting(r, Posts[1]).res = r
        BY DEF Deleting, Idle
      <3>6. QED
        BY <3>4, <3>5 DEF Removing
    <2>2. QED
      BY <1>2, <2>1
  <1>6. QED
    BY <1>4, <1>5, GoneStep

\* The invariant is inductive: PodCalls does not need the rest.
LEMMA PodInvHolds == ASSUME Steady PROVE PodSpec => []PodInv
  <1>1. PodInit /\ PodCalls => PodInv
    BY DEF PodInit, Init, PodInv, OneAccount, Detached
  <1>2. PodInv /\ PodCalls' /\ [PodNext]_allVars => PodInv'
    BY OneAccountStep, DetachedStep DEF PodInv, PodCalls
  <1>3. QED
    BY <1>1, <1>2, PodCallsHold, PTL DEF PodSpec

\* What users deleted is not registered any more when the server comes to
\* rest, unless it was being registered when they did (ResourceRegistrar), or the
\* issuer failed to be read when it was to be unregistered.
THEOREM RemovedStaysUnregistered ==
  ASSUME Steady PROVE PodSpec => []RemovedAreUnregistered
  <1>1. PodInv => RemovedAreUnregistered
    BY DEF PodInv, Detached, RemovedAreUnregistered, AtRest, Known, Removing
  <1>2. QED
    BY <1>1, PodInvHolds, PTL

-----------------------------------------------------------------------------
(* Nothing is missed, after one update of the settings.                     *)

\* The issuer of the first settings can be read and accepts their credentials.
Usable == Steady /\ (Posts # <<>> => Works(Posts[1]) /\ Posts[1] \notin BadAccount)

\* A call that is awaited registers what its caller works on or a container
\* that is in, and the caller does not end before it.
Awaiting ==
  \A t, u \in Call : pc[t] # "free" /\ frame[t].for = u =>
    /\ pc[u] # "free" /\ frame[u].for # t
    /\ frame[t].kind = "register"
    /\ Lineage[frame[t].res] \subseteq Lineage[frame[u].res]

\* What is unregistered was deleted.
DeletesGone == \A t \in Call : pc[t] # "free" /\ frame[t].kind = "delete" => frame[t].res \in gone

\* The issuer keeps r, registered with the settings.
KeptThere(r) ==
  /\ Honoured(IssuerOf[Posts[1]], r)
  /\ registrations[IssuerOf[Posts[1]]][r] = Posts[1]

\* What the client knows of, or is being answered, is kept, and the issuer
\* refuses nothing; but for what was deleted before.
StillKept ==
  /\ \A r \in umaIdStore : Touched(r) \/ KeptThere(r)
  /\ \A t \in Call : pc[t] = "answered" /\ frame[t].kind = "register"
       => Touched(frame[t].res) \/ (frame[t].ok /\ KeptThere(frame[t].res))

\* Rejections come from there as well.
BadTouched == \A t \in Call : pc[t] # "free" /\ frame[t].bad => Touched(frame[t].res)

\* After one update walks only wait for registrations.
WalksRegister == \A w \in walks : w.at = "waiting" => frame[w.call].kind = "register"

\* The walk w is to come by r.
Ahead(w, r) == w.res \in Lineage[r] /\ (w.res = r => w.at = "register")

\* r is registered with the settings and linked to its parent.
Applied(r) ==
  /\ registrations[IssuerOf[Posts[1]]][r] = Posts[1]
  /\ r \in relations[IssuerOf[Posts[1]]]

\* Whatever is there is registered and linked, or a call or a walk will do so.
Covered ==
  posted = 1 => \A r \in exists \ {Root} :
    \/ Touched(r) \/ Applied(r)
    \/ \E u \in Call : Pending(u, r)
    \/ \E w \in walks : Ahead(w, r)

\* Inductive for NothingMissed, for settings that can be used.
FirstInv ==
  /\ PodInv /\ Awaiting
  /\ posted <= 1 => DeletesGone /\ StillKept /\ BadTouched /\ WalksRegister /\ Covered

\* In the lineage of r each container but r itself has a member.
LEMMA LineageMember ==
  ASSUME NEW r \in Resource, NEW c \in Lineage[r], c # r
  PROVE  \E x \in Lineage[r] \ {Root} : Parent[x] = c
  <1> SUFFICES ASSUME \A x \in Lineage[r] \ {Root} : Parent[x] # c PROVE FALSE
    OBVIOUS
  <1>1. r \in Lineage[r] /\ Lineage[r] \subseteq Resource /\ Upward(Lineage[r])
    BY LineageOf
  <1>2. Upward(Lineage[r] \ {c})
    BY <1>1 DEF Upward
  <1>3. r \in Lineage[r] \ {c} /\ Lineage[r] \ {c} \in SUBSET Resource
    BY <1>1
  <1>4. Lineage[r] \subseteq Lineage[r] \ {c}
    <2> DEFINE S == Lineage[r] \ {c}
    <2>1. S \in SUBSET Resource /\ Upward(S) /\ r \in S
      BY <1>2, <1>3
    <2> HIDE DEF S
    <2>2. Lineage[r] \subseteq S
      BY <2>1, LineageWithin
    <2>3. QED
      BY <2>2 DEF S
  <1>5. QED
    BY <1>4

\* What is below something that was deleted was touched as well, and stays so.
LEMMA TouchedBelow ==
  ASSUME NEW r, NEW c, Lineage[c] \subseteq Lineage[r], Touched(c)
  PROVE  Touched(r)
  BY DEF Touched

\* Nothing that was deleted is forgotten.
LEMMA TouchedStays ==
  ASSUME [PodNext]_allVars, NEW r, Touched(r)
  PROVE  Touched(r)'
  <1>1. gone \subseteq gone'
    BY PodExists
  <1>2. QED
    BY <1>1 DEF Touched

\* A call that has its PAT has the one that is valid.
LEMMA PodPatValid ==
  ASSUME PodCalls, NEW u \in Call, pc[u] \in Carrying
  PROVE  PatValid(u)
  <1>0. TypeOK /\ QuietPats /\ PatsNumbered
    BY DEF PodCalls, PodBase, IdsInv, LockInv, PatInv
  <1> PICK a \in Account : a = frame[u].acct
    BY <1>0, CallTypes DEF Carrying
  <1>1. issuedPat[a] \in Nat /\ frame[u].pat \in Nat
    BY <1>0, CallTypes DEF TypeOK
  <1>2. frame[u].pat # 0 /\ frame[u].pat <= issuedPat[a]
    BY <1>0 DEF QuietPats, PatsNumbered, Carrying
  <1>3. issuedPat[a] = 1 /\ a \in livePat
    BY <1>0, <1>1, <1>2 DEF QuietPats
  <1>4. QED
    BY <1>1, <1>2, <1>3 DEF PatValid

\* The account of a call in use is the one of the settings.
LEMMA OneCall ==
  ASSUME PodInv, posted <= 1, NEW u \in Call, pc[u] # "free"
  PROVE  /\ posted = 1 /\ frame[u].acct = Posts[1] /\ Posts[1] \in Account
         /\ IssuerOf[Posts[1]] \in Issuer /\ frame[u].res \in Resource
         /\ frame[u].kind \in {"register", "delete"}
  <1>0. TypeOK /\ OneAccount /\ NoTickets /\ posted \in Nat
    BY PodAssumption DEF PodInv, PodCalls, PodBase, IdsInv, LockInv, PodTypeOK
  <1>1. posted > 0 /\ frame[u].acct = Posts[1]
    BY <1>0 DEF OneAccount
  <1>2. Posts[1] \in Account
    BY <1>0, <1>1, CallTypes
  <1>3. QED
    BY <1>0, <1>1, <1>2, CallTypes, AccountAssumption DEF NoTickets

\* Unless it was touched, the issuer accepts a registration.
LEMMA AcceptsUntouched ==
  ASSUME FirstInv, posted <= 1, NEW u \in Call, pc[u] = "sent", frame[u].kind = "register",
         ~Touched(frame[u].res)
  PROVE  Acceptable(u)
  <1>0. /\ TypeOK /\ ExclusiveRegistration /\ KnownInv /\ ParentsKnown /\ LinkedBelow
        /\ lost = 0 /\ StillKept /\ PodInv /\ PodCalls
    BY DEF FirstInv, PodInv, PodCalls, PodBase, RelationInv, RegistryInv, LockInv
  <1> PICK r \in Resource, a \in Account, i \in Issuer :
         /\ r = frame[u].res /\ a = frame[u].acct /\ i = IssuerOf[a] /\ a = Posts[1]
    BY <1>0, OneCall
  <1>1. PatValid(u)
    BY <1>0, PodPatValid DEF Carrying
  <1>2. frame[u].known = (r \in umaIdStore)
    BY <1>0 DEF KnownInv, KnownMeant, Requesting
  <1>3. registrations[i][r] = IF frame[u].known THEN a ELSE Nobody
    <2>1. CASE frame[u].known
      BY <1>0, <1>2, <2>1 DEF StillKept, KeptThere
    <2>2. CASE ~frame[u].known
      BY <1>0, <2>2, KnownNotTwice DEF NoDuplicateRegistration
    <2>3. QED
      BY <2>1, <2>2
  <1>4. ASSUME frame[u].linked \/ r \in relations[i] PROVE Parent[r] \in collections[i]
    <2>1. r # Root /\ Parent[r] \in umaIdStore
      BY <1>0, <1>4 DEF ParentsKnown, LinkedBelow
    <2>2. Parent[r] \in Container /\ Parent[r] \in Resource
      BY <2>1, ResourceAssumption DEF Container
    <2>3. Lineage[Parent[r]] \subseteq Lineage[r]
      BY <2>1, LineageOf
    <2>4. ~Touched(Parent[r])
      BY <2>3, TouchedBelow
    <2>5. KeptThere(Parent[r])
      BY <1>0, <2>1, <2>4 DEF StillKept
    <2>6. QED
      BY <2>2, <2>5 DEF KeptThere, Honoured
  <1>5. frame[u].linked \in BOOLEAN
    BY <1>0, CallTypes DEF Frame
  <1>6. frame[u].linked # (r \in relations[i]) => Parent[r] \in collections[i]
    BY <1>4, <1>5
  <1>7. QED
    BY <1>1, <1>3, <1>6 DEF Acceptable

\* Nobody is awaited for ever, nor by a call that is over.
LEMMA AwaitingStep ==
  ASSUME PodCalls, Awaiting, PodBase', [PodNext]_allVars PROVE Awaiting'
  <1> SUFFICES ASSUME NEW t \in Call, NEW u \in Call, pc'[t] # "free", frame'[t].for = u
               PROVE  /\ pc'[u] # "free" /\ frame'[u].for # t
                      /\ frame'[t].kind = "register"
                      /\ Lineage[frame'[t].res] \subseteq Lineage[frame'[u].res]
    BY DEF Awaiting
  <1>0. /\ CallStep /\ Released /\ NoTickets /\ OnlyTickets /\ TypeOK /\ Awaiting
    BY PodEffects, EveryStepTies DEF PodCalls, LockInv, TieStep
  <1>1. ASSUME NEW v \in Call, pc[v] # "free", pc'[v] # "free"
        PROVE  /\ frame'[v].kind = frame[v].kind /\ frame'[v].res = frame[v].res
               /\ frame'[v].for \in {frame[v].for, NoCall}
    <2>1. Stays(v) \/ Moves(v)
      BY <1>0, <1>1 DEF CallStep, Ends, Starts
    <2>2. frame[v].kind # "ticket"
      BY <1>0, <1>1 DEF NoTickets
    <2>3. frame'[v].kind = frame[v].kind /\ frame'[v].res = frame[v].res
      BY <2>1, <2>2 DEF Stays, SameJob, Moves, Assigned
    <2>4. QED
      BY <1>0, <1>1, <2>3 DEF Released
  <1>2. CASE pc[t] # "free"
    <2>1. frame[t].for = u
      BY <1>1, <1>2, CallAssumption
    <2>2. /\ pc[u] # "free" /\ frame[u].for # t /\ frame[t].kind = "register"
          /\ Lineage[frame[t].res] \subseteq Lineage[frame[u].res]
      BY <1>0, <1>2, <2>1 DEF Awaiting
    <2>3. pc'[u] # "free"
      BY <1>0, <1>2, <2>2 DEF Released
    <2>4. QED
      BY <1>1, <1>2, <2>2, <2>3, CallAssumption
  <1>3. CASE Starts(t)
    <2>1. FromChild(t)
      BY <1>0, <1>3, CallAssumption DEF Starts, FromServer, FromTicket, NoTickets,
                                        OnlyTickets, Ticketing
    <2>2. /\ pc[u] = "send" /\ frame[u].kind = "register" /\ Orphan(frame[u].res)
          /\ frame'[t].kind = "register"
          /\ frame'[t].res = frame[u].res \/ frame'[t].res = Parent[frame[u].res]
      BY <2>1 DEF FromChild
    <2>3. pc'[u] # "free"
      BY <1>0, <2>2 DEF CallStep, Stays, Ends, MayEnd, Moves, Starts
    <2>4. frame[u].for # t
      BY <1>0, <1>3, <2>2 DEF Awaiting, Starts
    <2>5. frame[u].res \in Resource \ {Root}
      BY <1>0, <2>2, CallTypes DEF Orphan
    <2>6. Lineage[frame'[t].res] \subseteq Lineage[frame[u].res]
      BY <2>2, <2>5, LineageOf
    <2>7. QED
      BY <1>1, <2>2, <2>3, <2>4, <2>6, CallAssumption
  <1>4. QED
    BY <1>0, <1>2, <1>3 DEF CallStep, Stays, Ends, Moves

\* Calls unregister what users deleted.
LEMMA DeletesGoneStep ==
  ASSUME FirstInv, PodBase', [PodNext]_allVars, posted' <= 1 PROVE DeletesGone'
  <1> SUFFICES ASSUME NEW u \in Call, pc'[u] # "free", frame'[u].kind = "delete"
               PROVE  frame'[u].res \in gone'
    BY DEF DeletesGone
  <1>0. /\ CallStep /\ PodCalls /\ posted <= 1 /\ DeletesGone /\ gone \subseteq gone'
    BY PodEffects, PostedStep, PodExists DEF FirstInv, PodInv, PodCalls, PodBase
  <1>1. CASE Stays(u) \/ Moves(u)
    BY <1>0, <1>1 DEF Stays, SameJob, Moves, Assigned, DeletesGone
  <1>2. CASE Starts(u) /\ FromServer(u)
    <2>1. /\ \A r, a : Registering(r, a, NoCall).kind = "register"
          /\ \A r, a : Deleting(r, a).res = r
      BY DEF Deleting, Registering, Idle
    <2>2. PICK r \in Resource \ {Root} : UserDeletes(r) /\ frame'[u].res = r
      BY <1>0, <1>2, <2>1, FirstStarts
    <2>3. QED
      BY <2>2 DEF UserDeletes
  <1>3. CASE Starts(u) /\ ~FromServer(u)
    BY <1>3 DEF Starts, FromChild, FromTicket
  <1>4. QED
    BY <1>0, <1>1, <1>2, <1>3 DEF CallStep, Ends

\* What is kept stays so until it is unregistered.
LEMMA KeptThereStays ==
  ASSUME FirstInv, PodBase', [PodNext]_allVars, posted <= 1,
         NEW r \in Resource, ~Touched(r), KeptThere(r)
  PROVE  KeptThere(r)'
  <1>0. RegistryStep /\ TypeOK /\ PodInv /\ DeletesGone /\ gone \subseteq Resource
    BY PodEffects DEF FirstInv, PodInv, PodCalls, PodBase, StoreStep, PodTypeOK
  <1>1. CASE UNCHANGED <<registrations, relations, collections>>
    BY <1>1 DEF KeptThere, Honoured
  <1>2. ASSUME NEW t \in Call, Accepts(t) PROVE KeptThere(r)'
    <2> PICK p \in Account, i \in Issuer : p = Posts[1] /\ i = IssuerOf[p] /\ p = frame[t].acct
      BY <1>0, <1>2, OneCall DEF Accepts
    <2>1. registrations[i][r] = p => registrations'[i][r] = p
      BY <1>0, <1>2 DEF Accepts, TypeOK
    <2>2. collections[i] \subseteq collections'[i]
      BY <1>0, <1>2 DEF Accepts, TypeOK
    <2>3. QED
      BY <2>1, <2>2 DEF KeptThere, Honoured
  <1>3. ASSUME NEW t \in Call, Deletes(t) PROVE KeptThere(r)'
    <2> PICK p \in Account, i \in Issuer : p = Posts[1] /\ i = IssuerOf[p] /\ p = frame[t].acct
      BY <1>0, <1>3, OneCall DEF Deletes
    <2>1. frame[t].res # r
      BY <1>0, <1>3, LineageOf DEF Deletes, DeletesGone, Touched
    <2>2. registrations'[i][r] = registrations[i][r] /\ collections' = collections
      BY <1>0, <1>3, <2>1 DEF Deletes, TypeOK
    <2>3. QED
      BY <2>2 DEF KeptThere, Honoured
  <1>4. QED
    BY <1>0, <1>1, <1>2, <1>3 DEF RegistryStep

\* umaIdStore learns of a registration when the issuer has it, and only an
\* unregistration takes it away from the issuer, which deletions alone ask for.
LEMMA StillKeptStep ==
  ASSUME FirstInv, PodBase', [PodNext]_allVars, posted <= 1 PROVE StillKept'
  <1>0. CallStep /\ IdsStep /\ TypeOK /\ TypeOK' /\ PodInv /\ StillKept
    BY PodEffects DEF FirstInv, PodInv, PodCalls, StoreStep
  <1>1. ASSUME NEW r \in Resource, Touched(r) \/ KeptThere(r)
        PROVE  Touched(r)' \/ KeptThere(r)'
    BY <1>1, KeptThereStays, TouchedStays
  <1>2. ASSUME NEW r \in umaIdStore' PROVE Touched(r)' \/ KeptThere(r)'
    <2>1. r \in Resource
      BY <1>0 DEF TypeOK
    <2>2. Touched(r) \/ KeptThere(r)
      BY <1>0 DEF IdsStep, StillKept
    <2>3. QED
      BY <1>1, <2>1, <2>2
  <1>3. ASSUME NEW u \in Call, pc'[u] = "answered", frame'[u].kind = "register",
               NEW r, r = frame'[u].res
        PROVE  Touched(r)' \/ (frame'[u].ok /\ KeptThere(r)')
    <2>0. r \in Resource
      BY <1>0, <1>3, CallTypes DEF TypeOK, CallsTyped, Frame
    <2>1. CASE Stays(u)
      <3>1. /\ pc[u] = "answered" /\ frame[u].kind = "register"
            /\ r = frame[u].res /\ frame'[u].ok = frame[u].ok
        BY <1>3, <2>1 DEF Stays, SameJob
      <3>2. Touched(r) \/ (frame[u].ok /\ KeptThere(r))
        BY <1>0, <3>1 DEF StillKept
      <3>3. QED
        BY <1>1, <2>0, <3>1, <3>2, TouchedStays
    <2>2. CASE Moves(u)
      <3>1. /\ pc[u] = "sent" /\ frame[u].kind = "register" /\ r = frame[u].res
            /\ frame'[u].ok = Acceptable(u) /\ (frame'[u].ok => Accepts(u))
        BY <1>3, <2>2 DEF Moves, Edge, Assigned, Passed, Ticketing
      <3>2. CASE Touched(r)
        BY <3>2, TouchedStays
      <3>3. CASE ~Touched(r)
        <4>1. Acceptable(u) /\ frame'[u].ok /\ Accepts(u)
          BY <3>1, <3>3, AcceptsUntouched
        <4> PICK p \in Account, i \in Issuer : p = Posts[1] /\ i = IssuerOf[p] /\ p = frame[u].acct
          BY <1>0, <3>1, OneCall
        <4>2. registrations'[i][r] = p /\ (r \in Container => r \in collections'[i])
          BY <1>0, <2>0, <3>1, <4>1 DEF Accepts, TypeOK
        <4>3. KeptThere(r)'
          BY <4>2, AccountAssumption DEF KeptThere, Honoured
        <4>4. QED
          BY <4>1, <4>3
      <3>4. QED
        BY <3>2, <3>3
    <2>3. ~Starts(u) /\ ~Ends(u)
      BY <1>3 DEF Starts, Ends, FromServer, FromChild, FromTicket, Enter
    <2>4. QED
      BY <1>0, <2>1, <2>2, <2>3 DEF CallStep
  <1>4. QED
    BY <1>2, <1>3 DEF StillKept

\* A call that was not touched ends when it has registered its resource and all
\* that it awaits has been resolved.
LEMMA EndsUntouched ==
  ASSUME Usable, FirstInv, posted <= 1, NEW u \in Call, MayEnd(u),
         frame[u].kind = "register", ~Touched(frame[u].res)
  PROVE  pc[u] = "join" /\ ~frame[u].bad
  <1>0. PodInv /\ StillKept /\ BadTouched /\ pc[u] # "free"
    BY DEF FirstInv, MayEnd
  <1>1. frame[u].acct = Posts[1] /\ posted = 1
    BY <1>0, OneCall
  <1>2. Posts # <<>>
    BY <1>0, <1>1, PodAssumption DEF PodInv, PodCalls, PodBase, PodTypeOK
  <1>3. /\ Works(Posts[1]) /\ Posts[1] \notin BadAccount
        /\ IssuerOf[Posts[1]] \notin FlakyIssuer
    BY <1>2 DEF Usable, Steady
  <1>4. ~frame[u].bad
    BY <1>0 DEF BadTouched
  <1>5. pc[u] = "answered" => frame[u].ok
    BY <1>0 DEF StillKept
  <1>6. QED
    BY <1>1, <1>3, <1>4, <1>5 DEF MayEnd, MayFail, Works

\* A rejection is passed on from below.
LEMMA BadTouchedStep ==
  ASSUME Usable, FirstInv, PodBase', [PodNext]_allVars, posted <= 1 PROVE BadTouched'
  <1> SUFFICES ASSUME NEW u \in Call, pc'[u] # "free", frame'[u].bad,
                      NEW r, r = frame'[u].res
               PROVE  Touched(r)'
    BY DEF BadTouched
  <1>a. PodInv /\ PodCalls /\ PodBase /\ NoTickets /\ Awaiting /\ BadTouched
    BY DEF FirstInv, PodInv, PodCalls
  <1>b. CallStep /\ LockInv /\ [OpenNext]_vars
    BY <1>a, PodEffects
  <1>0. CallStep /\ Blamed /\ NoTickets /\ Awaiting /\ BadTouched /\ PodInv
    BY <1>a, <1>b, EveryStepTies DEF TieStep
  <1>1. Stays(u) \/ Moves(u)
    BY <1>0 DEF CallStep, Ends, Starts
  <1>2. pc[u] # "free" /\ frame'[u].res = frame[u].res
    BY <1>0, <1>1 DEF Stays, SameJob, Moves, Assigned, NoTickets
  <1>3. Touched(frame[u].res)
    <2>1. CASE frame[u].bad
      BY <1>0, <1>2, <2>1 DEF BadTouched
    <2>2. CASE ~frame[u].bad
      <3>1. PICK t \in Call : /\ pc[t] # "free" /\ frame[t].for = u
                              /\ frame[t].bad \/ (pc'[t] = "free" /\ pc[t] # "join")
        BY <1>0, <1>2, <2>2 DEF Blamed
      <3>2. frame[t].kind = "register" /\ Lineage[frame[t].res] \subseteq Lineage[frame[u].res]
        BY <1>0, <3>1 DEF Awaiting
      <3>3. pc'[t] = "free" => MayEnd(t)
        BY <1>0, <3>1 DEF CallStep, Stays, Ends, Moves, Starts
      <3>4. Touched(frame[t].res)
        BY <1>0, <3>1, <3>2, <3>3, EndsUntouched DEF BadTouched
      <3>5. QED
        BY <3>2, <3>4, TouchedBelow
    <2>3. QED
      BY <2>1, <2>2
  <1>4. QED
    BY <1>2, <1>3, TouchedStays

\* After one update a walk that waits does so for the registration it asked for.
LEMMA WalksRegisterStep ==
  ASSUME FirstInv, PodBase', [PodNext]_allVars, posted' <= 1 PROVE WalksRegister'
  <1> SUFFICES ASSUME NEW w \in walks', w.at = "waiting"
               PROVE  frame'[w.call].kind = "register"
    BY DEF WalksRegister
  <1>0. /\ CallStep /\ TypeOK /\ PodTypeOK /\ PodTypeOK' /\ posted <= 1 /\ WalksRegister
        /\ posted \in Nat
    BY PodEffects, PostedStep DEF FirstInv, PodInv, PodCalls, PodBase
  <1>1. w.call \in Call /\ pc'[w.call] # "free"
    BY <1>0 DEF PodTypeOK, WalkType
  <1>2. CASE w \in walks
    <2>1. pc[w.call] # "free" /\ frame[w.call].kind = "register"
      BY <1>0, <1>2 DEF PodTypeOK, WalksRegister
    <2>2. QED
      BY <1>0, <1>1, <2>1 DEF CallStep, Stays, SameJob, Ends, Moves, Assigned, Starts
  <1>3. CASE w \notin walks
    <2>1. \A n, r, p : Walk(n, r, p).at = p
      BY DEF Walk
    <2>2. ASSUME NEW v \in walks, CallClient(v) PROVE frame'[w.call].kind = "register"
      <3>1. v \in WalkType /\ v.at # "unregister"
        <4>1. v.by \in 1..posted /\ (v.at = "unregister" => v.by > 1) /\ v \in WalkType
          BY <1>0 DEF PodTypeOK
        <4>2. QED
          BY <1>0, <4>1
      <3>2. NewCall("start", Registering(v.res, New(v.by), NoCall))
        BY <2>2, <3>1 DEF CallClient, Reregister
      <3>3. frame'[Pick(Free)] = Registering(v.res, New(v.by), NoCall)
        BY <1>0, <3>2, NewCallKeeps DEF TypeOK
      <3>4. w = [v EXCEPT !.at = "waiting", !.call = Pick(Free)]
        BY <1>3, <2>2 DEF CallClient
      <3>5. w.call = Pick(Free)
        BY <3>1, <3>4 DEF WalkType
      <3>6. frame'[Pick(Free)].kind = "register"
        <4>1. \A r, a, c : Registering(r, a, c).kind = "register"
          BY DEF Registering, Idle
        <4>2. QED
          BY <3>3, <4>1
      <3>7. QED
        BY <3>5, <3>6
    <2>3. ASSUME NEW v \in walks, ListMembers(v) PROVE FALSE
      BY <1>3, <2>1, <2>3 DEF ListMembers, Entered
    <2>4. ASSUME NEW t \in Call, ClientStep(t) PROVE FALSE
      BY <1>3, <2>1, <2>4 DEF ClientStep, Continued
    <2>5. CASE UpdateSettings
      BY <1>3, <2>1, <2>5 DEF UpdateSettings, Entered
    <2>6. CASE walks' = walks
      BY <1>3, <2>6
    <2>7. QED
      BY <2>2, <2>3, <2>4, <2>5, <2>6 DEF PodNext, UserCreates, UserDeletes, Changed,
         allVars, podVars
  <1>4. QED
    BY <1>2, <1>3

\* A registration that is there stays, and its relation.
LEMMA AppliedStays ==
  ASSUME FirstInv, PodBase', [PodNext]_allVars, posted <= 1,
         NEW r \in Resource, ~Touched(r), NEW p \in Account, p = Posts[1],
         registrations[IssuerOf[p]][r] = p, r \in relations[IssuerOf[p]]
  PROVE  registrations'[IssuerOf[p]][r] = p /\ r \in relations'[IssuerOf[p]]
  <1> PICK i \in Issuer : i = IssuerOf[p]
    BY AccountAssumption
  <1>0. /\ RegistryStep /\ TypeOK /\ PodInv /\ DeletesGone /\ RelationInv /\ [OpenNext]_vars
    BY PodEffects DEF FirstInv, PodInv, PodCalls, PodBase, StoreStep
  <1>1. ASSUME NEW t \in Call, Deletes(t) PROVE frame[t].res # r
    BY <1>0, <1>1, LineageOf DEF Deletes, DeletesGone, Touched
  <1>2. r \in relations'[i]
    BY <1>0, <1>1, LinkStays
  <1>3. ASSUME NEW t \in Call, Accepts(t) PROVE registrations'[i][r] = p
    <2>1. frame[t].acct = p
      BY <1>0, <1>3, OneCall DEF Accepts
    <2>2. QED
      BY <1>0, <1>3, <2>1 DEF Accepts, TypeOK
  <1>4. ASSUME NEW t \in Call, Deletes(t) PROVE registrations'[i][r] = p
    BY <1>0, <1>1, <1>4 DEF Deletes, TypeOK
  <1>5. QED
    BY <1>0, <1>2, <1>3, <1>4 DEF RegistryStep

\* A call that has yet to tell of r goes on, leaves that to another one, or has
\* it done.
LEMMA PendingStep ==
  ASSUME Usable, FirstInv, PodBase', [PodNext]_allVars, posted <= 1,
         NEW r \in Resource \ {Root}, ~Touched(r), NEW u \in Call, Pending(u, r),
         NEW p \in Account, p = Posts[1]
  PROVE  \/ registrations'[IssuerOf[p]][r] = p /\ r \in relations'[IssuerOf[p]]
         \/ \E v \in Call : Pending(v, r)'
  <1>0. CallStep /\ TypeOK /\ PodInv
    BY PodEffects DEF FirstInv, PodInv, PodCalls
  <1>1. /\ frame[u].kind = "register" /\ frame[u].res = r /\ frame[u].acct = p
        /\ pc[u] # "free"
    BY <1>0, OneCall DEF Pending
  <1>2. CASE Stays(u)
    BY <1>2 DEF Stays, SameJob, Pending
  <1>3. CASE Moves(u) /\ pc[u] \notin {"send", "sent"}
    BY <1>1, <1>3 DEF Moves, Edge, Assigned, Passed, Pending, Enter, Ticketing
  <1>4. CASE Moves(u) /\ pc[u] = "send"
    <2>1. pc'[u] = "sent" /\ frame'[u].kind = "register" /\ frame'[u].res = r
      BY <1>1, <1>4 DEF Moves, Edge, Assigned, Ticketing
    <2>2. CASE Orphan(r)
      BY <1>1, <1>4, <2>2 DEF Moves, Passed, Pending
    <2>3. CASE ~Orphan(r)
      BY <1>1, <1>4, <2>1, <2>3 DEF Moves, Passed, Pending
    <2>4. QED
      BY <2>2, <2>3
  <1>5. CASE Moves(u) /\ pc[u] = "sent"
    <2>1. frame[u].linked
      BY <1>5 DEF Pending
    <2>2. Accepts(u)
      BY <1>1, <1>5, AcceptsUntouched DEF Moves, Passed
    <2> PICK i \in Issuer : i = IssuerOf[p]
      BY AccountAssumption
    <2>3. registrations'[i][r] = p /\ r \in relations'[i]
      BY <1>0, <1>1, <2>1, <2>2 DEF Accepts, TypeOK
    <2>4. QED
      BY <2>3
  <1>6. ~Starts(u)
    BY <1>1 DEF Starts
  <1>7. ~Ends(u)
    BY <1>1, EndsUntouched DEF Ends, Pending
  <1>8. QED
    BY <1>0, <1>2, <1>3, <1>4, <1>5, <1>6, <1>7 DEF CallStep

\* A walk that is to come by r goes on, or calls the client for r.
LEMMA AheadStep ==
  ASSUME Usable, FirstInv, PodBase', [PodNext]_allVars, posted = 1,
         NEW r \in exists \ {Root}, ~Touched(r), NEW w \in walks, Ahead(w, r)
  PROVE  (\E v \in Call : Pending(v, r)') \/ \E v \in walks' : Ahead(v, r)
  <1>0. /\ CallStep /\ TypeOK /\ PodTypeOK /\ PodInv /\ Rooted /\ WalksRegister
        /\ BadTouched /\ r \in Resource
    BY PodEffects DEF FirstInv, PodInv, PodCalls, PodBase, TypeOK
  <1>1. /\ w \in WalkType /\ w.by = 1 /\ w.res \in Resource \ {Root}
        /\ w.res \in Lineage[r]
    <2>1. w \in WalkType /\ w.by \in 1..posted
      BY <1>0 DEF PodTypeOK
    <2>2. QED
      BY <2>1 DEF Ahead, WalkType
  <1>2. CASE w \in walks'
    BY <1>2
  <1>3. CASE CallClient(w)
    <2>1. w.at = "register"
      BY <1>0, <1>1, <1>3 DEF CallClient, PodTypeOK
    <2>2. NewCall("start", Registering(w.res, New(w.by), NoCall))
      BY <1>3, <2>1 DEF CallClient, Reregister
    <2>3. PICK u \in Call : /\ u = Pick(Free) /\ pc'[u] = "start"
                            /\ frame'[u] = Registering(w.res, New(w.by), NoCall)
      <3>1. Pick(Free) \in Free
        BY <2>2, PickInSet DEF NewCall
      <3>2. QED
        BY <1>0, <2>2, <3>1 DEF NewCall, Free, TypeOK, CallsTyped
    <2>4. CASE w.res = r
      <3>1. Registering(r, New(w.by), NoCall).kind = "register" /\ Registering(r, New(w.by), NoCall).res = r
        BY DEF Registering, Idle
      <3>2. QED
        BY <2>3, <2>4, <3>1 DEF Pending
    <2>5. CASE w.res # r
      <3> PICK x : x = [w EXCEPT !.at = "waiting", !.call = Pick(Free)]
        OBVIOUS
      <3>1. x \in walks' /\ x.res = w.res
        BY <1>1, <1>3 DEF CallClient, WalkType
      <3>2. QED
        BY <1>1, <2>5, <3>1 DEF Ahead
    <2>6. QED
      BY <2>4, <2>5
  <1>4. ASSUME w.res # r
        PROVE  \E c \in Lineage[r] \ {Root} : Parent[c] = w.res /\ c \in exists
    <2>1. PICK c \in Lineage[r] \ {Root} : Parent[c] = w.res
      BY <1>0, <1>1, <1>4, LineageMember
    <2>2. Lineage[r] \subseteq exists
      BY <1>0, LineageWithin DEF Rooted, TypeOK
    <2>3. QED
      BY <2>1, <2>2
  <1>5. CASE ListMembers(w)
    <2>1. w.res # r
      BY <1>5 DEF ListMembers, Ahead
    <2>2. PICK c \in Lineage[r] \ {Root} : Parent[c] = w.res /\ c \in exists
      BY <1>4, <2>1
    <2>3. w.res \in exists
      BY <1>0, <1>1, LineageWithin DEF Rooted, TypeOK
    <2>4. Entered(w.by, c) \in walks'
      BY <1>5, <2>2, <2>3 DEF ListMembers, Members, Children
    <2>5. Entered(w.by, c).res = c /\ Entered(w.by, c).at = "register"
      BY <1>1 DEF Entered, Walk
    <2>6. QED
      BY <2>2, <2>4, <2>5 DEF Ahead
  <1>6. ASSUME NEW t \in Call, ClientStep(t), w.call = t, pc'[t] = "free"
        PROVE  \E v \in walks' : Ahead(v, r)
    <2>1. /\ w.at = "waiting" /\ pc[t] # "free" /\ frame[t].kind = "register"
          /\ frame[t].res = w.res
      BY <1>0, <1>6, CallAssumption DEF PodTypeOK, WalksRegister
    <2>2. w.res # r
      BY <2>1 DEF Ahead
    <2>3. ~Touched(w.res)
      <3>1. Lineage[w.res] \subseteq Lineage[r]
        BY <1>0, <1>1, LineageOf, LineageWithin
      <3>2. QED
        BY <3>1, TouchedBelow
    <2>4. MayEnd(t)
      BY <1>0, <1>6, <2>1 DEF CallStep, Stays, Ends, Moves, Starts
    <2>5. Resolves(t)
      BY <2>1, <2>3, <2>4, EndsUntouched DEF Resolves
    <2>6. w.res \in Container
      BY <1>0, <1>4, <2>2, LineageOf DEF Container
    <2>7. Walk(w.by, w.res, "list") \in Continued(t, w)
      BY <2>1, <2>5, <2>6 DEF Continued
    <2>8. Walk(w.by, w.res, "list") \in walks'
      BY <1>6, <2>7 DEF ClientStep
    <2>9. Walk(w.by, w.res, "list").res = w.res
      BY DEF Walk
    <2>10. QED
      BY <1>1, <2>2, <2>8, <2>9 DEF Ahead
  <1>7. QED
    <2>1. ASSUME NEW x \in walks, x # w, CallClient(x) \/ ListMembers(x) PROVE w \in walks'
      BY <2>1 DEF CallClient, ListMembers
    <2>2. ASSUME NEW t \in Call, ClientStep(t), w.call # t \/ pc'[t] # "free" PROVE w \in walks'
      BY <2>2 DEF ClientStep
    <2>3. CASE UpdateSettings
      BY <2>3 DEF UpdateSettings
    <2>4. CASE walks' = walks
      BY <2>4
    <2>5. QED
      BY <1>2, <1>3, <1>5, <1>6, <2>1, <2>2, <2>3, <2>4 DEF PodNext, UserCreates,
         UserDeletes, Changed, allVars, podVars

\* A step leaves nobody out: a walk that ends or goes on has called for its
\* resource and walks over its members, and a new resource has a call of its own.
LEMMA CoveredStep ==
  ASSUME Usable, FirstInv, PodBase', [PodNext]_allVars, posted' <= 1 PROVE Covered'
  <1> SUFFICES ASSUME posted' = 1, NEW r \in exists' \ {Root}, ~Touched(r)'
               PROVE  \/ Applied(r)'
                      \/ \E u \in Call : Pending(u, r)'
                      \/ \E w \in walks' : Ahead(w, r)
    BY DEF Covered
  <1>0. /\ TypeOK /\ TypeOK' /\ PodTypeOK' /\ posted \in Nat /\ posted <= 1
        /\ PodInv /\ PodCalls
    BY PodEffects, PostedStep DEF FirstInv, PodInv, PodCalls, PodBase
  <1>1. r \in Resource \ {Root} /\ ~Touched(r)
    BY <1>0, TouchedStays DEF TypeOK
  <1> PICK p \in Account : p = Posts[1]
    BY <1>0, PodAssumption DEF PodTypeOK
  <1>2. CASE posted = 0
    <2>1. UpdateSettings
      BY <1>2 DEF PodNext, CallClient, ListMembers, ClientStep, UserCreates, UserDeletes,
                  Changed, allVars, podVars
    <2>2. PICK c \in Lineage[r] \ {Root} : Parent[c] = Root
      BY <1>1, TreeAssumption, LineageMember
    <2>3. c \in Pods
      BY <1>1, <2>2, LineageOf DEF Pods
    <2>4. Entered(1, c) \in walks'
      BY <1>2, <2>1, <2>3 DEF UpdateSettings
    <2>5. Entered(1, c).res = c /\ Entered(1, c).at = "register"
      BY DEF Entered, Walk
    <2>6. QED
      BY <2>2, <2>4, <2>5 DEF Ahead
  <1>3. CASE posted = 1 /\ r \notin exists
    <2>1. UserCreates(r)
      BY <1>3, PodExists
    <2>2. Settings = p /\ Settings # Nobody
      BY <1>3, AccountAssumption DEF Settings
    <2>3. NewCall("start", Registering(r, p, NoCall))
      BY <2>1, <2>2 DEF UserCreates, Create
    <2>4. \E u \in Call : pc'[u] = "start" /\ frame'[u] = Registering(r, p, NoCall)
      <3>1. Pick(Free) \in Free
        BY <2>3, PickInSet DEF NewCall
      <3>2. QED
        BY <1>0, <2>3, <3>1 DEF NewCall, Free, TypeOK, CallsTyped
    <2>5. Registering(r, p, NoCall).kind = "register" /\ Registering(r, p, NoCall).res = r
      BY DEF Registering, Idle
    <2>6. QED
      BY <2>4, <2>5 DEF Pending
  <1>4. CASE posted = 1 /\ r \in exists
    <2>1. \/ registrations[IssuerOf[p]][r] = p /\ r \in relations[IssuerOf[p]]
          \/ \E u \in Call : Pending(u, r)
          \/ \E w \in walks : Ahead(w, r)
      BY <1>1, <1>4 DEF FirstInv, Covered, Applied
    <2>2. (registrations'[IssuerOf[p]][r] = p /\ r \in relations'[IssuerOf[p]]) => Applied(r)'
      BY DEF Applied
    <2>3. QED
      BY <1>0, <1>1, <1>4, <2>1, <2>2, AppliedStays, PendingStep, AheadStep
  <1>5. QED
    BY <1>0, <1>2, <1>3, <1>4

\* The invariant is inductive where the settings can be used.
LEMMA FirstInvHolds == ASSUME Usable PROVE PodSpec => []FirstInv
  <1>1. PodInit /\ PodInv => FirstInv
    <2> SUFFICES ASSUME PodInit, PodInv PROVE FirstInv
      OBVIOUS
    <2>1. /\ walks = {} /\ posted = 0 /\ umaIdStore = {}
          /\ \A t \in Call : pc[t] = "free" /\ frame[t] = Idle
      BY DEF PodInit, Init
    <2>2. QED
      BY <2>1 DEF FirstInv, Awaiting, DeletesGone, StillKept, BadTouched, WalksRegister, Covered
  <1>2. FirstInv /\ PodInv' /\ [PodNext]_allVars => FirstInv'
    <2> SUFFICES ASSUME FirstInv, PodInv', [PodNext]_allVars PROVE FirstInv'
      OBVIOUS
    <2>1. PodCalls /\ PodTypeOK /\ Awaiting /\ PodBase'
      BY DEF FirstInv, PodInv, PodCalls, PodBase
    <2>2. Awaiting'
      BY <2>1, AwaitingStep
    <2>3. posted' <= 1 => posted <= 1
      BY <2>1, PostedStep
    <2>4. posted' <= 1 => /\ DeletesGone' /\ StillKept' /\ BadTouched'
                          /\ WalksRegister' /\ Covered'
      BY <2>1, <2>3, DeletesGoneStep, StillKeptStep, BadTouchedStep, WalksRegisterStep,
         CoveredStep
    <2>5. QED
      BY <2>2, <2>4 DEF FirstInv
  <1>3. PodSpec => []PodInv
    BY PodInvHolds DEF Usable
  <1>4. QED
    BY <1>1, <1>2, <1>3, PTL DEF PodSpec

\* 'All user's resources will be registered recursively' (PatUpdateHandler.ts):
\* when the server comes to rest after the first update, whatever is there is
\* registered with the settings and linked to its parent, however the walk and
\* the users got in each other's way.
THEOREM FirstUpdateMissesNothing ==
  ASSUME Usable PROVE PodSpec => []NothingMissed
  <1>1. FirstInv => NothingMissed
    <2> SUFFICES ASSUME FirstInv, AtRest, posted = 1, NEW r \in exists \ {Root}, ~Touched(r)
                 PROVE  /\ registrations[IssuerOf[Settings]][r] = Settings
                        /\ r \in relations[IssuerOf[Settings]]
      BY DEF NothingMissed
    <2>1. Settings = Posts[1]
      BY DEF Settings
    <2>2. Applied(r)
      BY DEF FirstInv, Covered, AtRest, Pending
    <2>3. QED
      BY <2>1, <2>2 DEF Applied
  <1>2. QED
    BY <1>1, FirstInvHolds, PTL

=============================================================================
