-------------------------- MODULE PolicyStoreProofs --------------------------
(****************************************************************************)
(* Proofs about PolicyStore, for every number of requests, policies and     *)
(* edits and everything clients may write: no request for access gets two   *)
(* statuses unless it was written of in a policy, what counts as saved is   *)
(* on the disk, and an edit keeps to its policy.  They are invariants of    *)
(* all the copies of the store: of what the edits have isolated, of the     *)
(* files, of the backup being written and of the triples a restarted server *)
(* still has to read.                                                       *)
(****************************************************************************)
EXTENDS PolicyStore, TLAPS

-----------------------------------------------------------------------------
(* The inductive invariants.                                                *)

\* The requests nobody wrote of.
Unnamed == Request \ named

\* Of the requests R, each has one status in S at most.
Single(R, S) == \A q \in R : \A a, b \in Statuses(q, S) : a = b

\* Those that have a status in S.
Decidable(R, S) == {q \in R : Statuses(q, S) # {}}

\* None of them is linked to a policy.
Apart(R, S) == \A f \in S : f[2] \notin R

Consistent(R, S, made) ==
  Single(R, S) /\ Decidable(R, S) \subseteq made /\ Apart(R, S)

\* S says nothing of them.
Silent(R, S) == \A f \in S : f[1] \notin R /\ f[2] \notin R

\* What an edit has copied and will put, with the requests R and the triples L
\* that are still to be read.
FrameInv(R, f, point, made, L) ==
  /\ Consistent(R, f.omit, made) /\ Decidable(R, L) \cap Decidable(R, f.omit) = {}
  /\ Silent(R, f.put)
  /\ Apart(R, f.copy)
  /\ point = "update" => Silent(R, f.copy)

StatusInv ==
  /\ Consistent(Unnamed, store, asked) /\ Consistent(Unnamed, loading, asked)
  /\ Consistent(Unnamed, file.facts, asked) /\ Consistent(Unnamed, flush.facts, asked)
  /\ \A h \in Handler : FrameInv(Unnamed, frame[h], pc[h], asked, loading)
  /\ Decidable(Unnamed, loading) \cap Decidable(Unnamed, store) = {}
  /\ ~up => store = {} /\ loading = {} /\ frame = [h \in Handler |-> Idle]

SavedInv ==
  /\ CleanIsSaved
  /\ up /\ ~dataChanged /\ flush # NoFile => flush.facts = store
  /\ ~dataChanged /\ loading # {} => store = {} /\ loading = file.facts
  /\ loading # {} => flush = NoFile /\ backup = "idle"
  /\ backup \in {"rename", "first", "moved"} => dataChanged /\ flush = NoFile
  /\ flush.exists \/ flush = NoFile
  /\ ~up => /\ store = {} /\ ~dataChanged /\ loading = {}
            /\ flush = NoFile /\ backup = "idle"

-----------------------------------------------------------------------------
(* Statuses in sets of triples.                                             *)

LEMMA SmallerIsConsistent ==
  ASSUME NEW R, NEW S, NEW T, S \subseteq T
  PROVE  /\ Decidable(R, S) \subseteq Decidable(R, T)
         /\ \A made : Consistent(R, T, made) => Consistent(R, S, made)
BY DEF Consistent, Single, Decidable, Statuses, Apart

LEMMA EmptyIsConsistent ==
  ASSUME NEW R
  PROVE  /\ Decidable(R, {}) = {} /\ Silent(R, {}) /\ Apart(R, {})
         /\ \A made : Consistent(R, {}, made)
BY DEF Consistent, Single, Decidable, Statuses, Apart, Silent

\* Of fewer requests less has to hold, and more may be asked.
LEMMA FewerAreConsistent ==
  ASSUME NEW Q, NEW R, Q \subseteq R, NEW made, NEW more, made \subseteq more
  PROVE  /\ \A S : Consistent(R, S, made) => Consistent(Q, S, more)
         /\ \A S, T : Decidable(R, S) \cap Decidable(R, T) = {} =>
                      Decidable(Q, S) \cap Decidable(Q, T) = {}
BY DEF Consistent, Single, Decidable, Apart

LEMMA FewerFrames ==
  ASSUME NEW Q, NEW R, Q \subseteq R, NEW made, NEW more, made \subseteq more,
         NEW f, NEW point, NEW L, FrameInv(R, f, point, made, L)
  PROVE  FrameInv(Q, f, point, more, L)
<1>1. /\ Consistent(Q, f.omit, more)
      /\ Decidable(Q, L) \cap Decidable(Q, f.omit) = {}
  BY FewerAreConsistent DEF FrameInv
<1>2. Silent(Q, f.put) /\ Apart(Q, f.copy) /\ (point = "update" => Silent(Q, f.copy))
  BY DEF FrameInv, Silent, Apart
<1> QED
  BY <1>1, <1>2 DEF FrameInv

\* What is silent about requests leaves their statuses as they are.
LEMMA SilentAddsNothing ==
  ASSUME NEW R, NEW S, NEW X, Silent(R, X)
  PROVE  /\ Decidable(R, S \cup X) = Decidable(R, S)
         /\ \A made : Consistent(R, S, made) => Consistent(R, S \cup X, made)
<1>1. \A q \in R : Statuses(q, S \cup X) = Statuses(q, S)
  BY DEF Statuses, Silent
<1>2. Apart(R, S) => Apart(R, S \cup X)
  BY DEF Apart, Silent
<1> QED
  BY <1>1, <1>2 DEF Consistent, Single, Decidable

\* An unlinked request is no part of a policy.
LEMMA FactsAreSilent ==
  ASSUME NEW R \in SUBSET Request, NEW p \in Policy, NEW S \in SUBSET Fact, Apart(R, S)
  PROVE  Silent(R, FactsOf(p, S))
<1> SUFFICES ASSUME NEW f \in FactsOf(p, S), f[1] \in R PROVE FALSE
  BY DEF Silent, FactsOf, Apart
<1>1. f \in S /\ f[1] \in {p} \cup Linked(p, S)
  BY DEF FactsOf
<1>2. f[1] \notin Policy
  BY PolicyAssumption
<1>3. <<p, f[1]>> \notin S
  <2>1. <<p, f[1]>>[2] = f[1]
    OBVIOUS
  <2> QED
    BY <2>1 DEF Apart
<1>4. <<f[1], p>> \notin S
  <2>1. p \notin Status
    BY PolicyAssumption
  <2> QED
    BY <1>2, <2>1 DEF Fact, Link
<1> QED
  BY <1>1, <1>2, <1>3, <1>4 DEF Linked

\* The triples of a policy are some of those there are.
LEMMA FactsThere == ASSUME NEW p, NEW S PROVE FactsOf(p, S) \subseteq S
BY DEF FactsOf

\* What clients write is silent about what they never wrote of.
LEMMA WrittenIsSilent ==
  ASSUME NEW X, Writes(X)
  PROVE  Silent(Request \ named', X) /\ named \subseteq named' /\ asked' = asked
BY DEF Writes, Mentions, Silent

-----------------------------------------------------------------------------
(* What edits know.                                                         *)

\* An edit that goes on is about a policy.
Busy == \A h \in Handler : pc[h] # "free" => frame[h].policy # Nobody

LEMMA IdleTyped ==
  Idle \in Frame /\ Idle.omit = {} /\ Idle.put = {} /\ Idle.copy = {}
BY DEF Idle, Frame

LEMMA IdleIsConsistent ==
  ASSUME NEW R, NEW point, NEW made, NEW L
  PROVE  FrameInv(R, Idle, point, made, L)
BY IdleTyped, EmptyIsConsistent DEF FrameInv

\* An edit that notices a change keeps its copies.
LEMMA NoticedKeeps ==
  ASSUME TypeOK, NEW h
  PROVE  /\ Noticed(h) \in [Handler -> Frame]
         /\ \A g \in Handler :
              \/ Noticed(h)[g] = Idle
              \/ /\ g # h
                 /\ Noticed(h)[g].omit = frame[g].omit
                 /\ Noticed(h)[g].put = frame[g].put
                 /\ Noticed(h)[g].copy = frame[g].copy
<1>1. \A g \in Handler : frame[g] \in Frame
  BY DEF TypeOK
<1> QED
  BY <1>1, IdleTyped DEF Noticed, Frame

\* The part of StatusInv that is about edits survives such a change, as less is
\* to be read and more is asked.
LEMMA NoticedIsConsistent ==
  ASSUME TypeOK, StatusInv, NEW h, NEW R, R \subseteq Unnamed,
         NEW made, asked \subseteq made, NEW L, L \subseteq loading,
         NEW g \in Handler, NEW point, g # h => point = pc[g]
  PROVE  FrameInv(R, Noticed(h)[g], point, made, L)
<1>1. CASE Noticed(h)[g] = Idle
  BY <1>1, IdleIsConsistent
<1>2. CASE /\ g # h
           /\ Noticed(h)[g].omit = frame[g].omit
           /\ Noticed(h)[g].put = frame[g].put
           /\ Noticed(h)[g].copy = frame[g].copy
  <2>1. FrameInv(Unnamed, frame[g], pc[g], asked, loading)
    BY DEF StatusInv
  <2>2. FrameInv(R, frame[g], pc[g], made, loading)
    BY <2>1, FewerFrames
  <2>3. Decidable(R, L) \subseteq Decidable(R, loading)
    BY SmallerIsConsistent
  <2> QED
    BY <1>2, <2>2, <2>3 DEF FrameInv
<1> QED
  BY <1>1, <1>2, NoticedKeeps

-----------------------------------------------------------------------------
(* Types.                                                                   *)

LEMMA TypeInit == Init => TypeOK
<1> SUFFICES ASSUME Init PROVE TypeOK
  OBVIOUS
<1>1. pc \in [Handler -> Point] /\ frame \in [Handler -> Frame]
  BY IdleTyped DEF Init, Point
<1>2. NoFile \in File
  BY DEF NoFile, File
<1>3. begun \in 0 .. MaxEdits /\ crashes \in 0 .. MaxCrashes /\ faults \in 0 .. MaxFaults
  BY PolicyAssumption DEF Init
<1> QED
  BY <1>1, <1>2, <1>3 DEF Init, TypeOK

LEMMA WritesTyped ==
  ASSUME TypeOK, NEW X, Writes(X)
  PROVE  asked' \subseteq Request /\ named' \subseteq asked'
BY DEF TypeOK, Writes, Mentions

LEMMA WriteTyped ==
  ASSUME TypeOK, NEW new \in SUBSET Fact, Write(new), asked' \subseteq Request,
         named' \subseteq asked'
  PROVE  TypeOK'
BY NoticedKeeps DEF TypeOK, Write, disk, bounds

LEMMA BeginTyped ==
  ASSUME TypeOK, NEW p \in Policy, NEW point \in {"isolate", "remove"},
         NEW del \in SUBSET Fact, NEW put \in SUBSET Fact, Begin(p, point, del, put)
  PROVE  TypeOK'
<1> DEFINE h == Pick(Free)
           f == [policy |-> p, copy |-> store, omit |-> {}, del |-> del,
                 put |-> put, stale |-> FALSE]
<1>1. h \in Handler
  BY DEF Begin, Pick, Free
<1>2. f \in Frame
  BY DEF Frame, TypeOK
<1>3. pc' = [pc EXCEPT ![h] = point] /\ frame' = [frame EXCEPT ![h] = f]
  BY DEF Begin
<1> HIDE DEF h, f
<1>4. pc' \in [Handler -> Point] /\ frame' \in [Handler -> Frame]
  BY <1>1, <1>2, <1>3 DEF TypeOK, Point
<1>5. begun' \in 0 .. MaxEdits
  BY PolicyAssumption DEF TypeOK, Begin
<1>6. asked' \subseteq Request /\ named' \subseteq asked'
  BY WritesTyped DEF Begin
<1> QED
  BY <1>4, <1>5, <1>6 DEF TypeOK, Begin, memory, disk

LEMMA IsolateTyped ==
  ASSUME TypeOK, NEW h \in Handler, Isolate(h)
  PROVE  TypeOK'
<1> DEFINE filtered == FactsOf(frame[h].policy, frame[h].copy)
           f == [frame[h] EXCEPT !.copy = filtered, !.omit = store \ filtered]
<1>1. frame[h] \in Frame
  BY DEF TypeOK
<1>2. f \in Frame
  BY <1>1 DEF Frame, FactsOf, TypeOK
<1>3. \/ frame' = [frame EXCEPT ![h] = Idle]
      \/ frame' = [frame EXCEPT ![h] = f]
  BY DEF Isolate
<1> HIDE DEF f
<1>4. frame' \in [Handler -> Frame]
  BY <1>2, <1>3, IdleTyped DEF TypeOK
<1>5. pc' \in [Handler -> Point]
  BY DEF TypeOK, Isolate, Point
<1> QED
  BY <1>4, <1>5 DEF TypeOK, Isolate, memory, disk, bounds

LEMMA CommitTyped ==
  ASSUME TypeOK, NEW h \in Handler, NEW new \in SUBSET Fact, Commit(h, new)
  PROVE  TypeOK'
<1>1. pc' \in [Handler -> Point] /\ dataChanged' \in BOOLEAN
  BY DEF TypeOK, Commit, Point
<1> QED
  BY <1>1, NoticedKeeps DEF TypeOK, Commit, disk, bounds

\* Every edit ends with triples.
LEMMA CommitsTyped ==
  ASSUME TypeOK, Busy, NEW h \in Handler, pc[h] # "free"
  PROVE  /\ frame[h].policy \in Policy
         /\ Removed(h) \subseteq store
         /\ Removed(h) \cup frame[h].put \in SUBSET Fact
         /\ Updated(h) \subseteq frame[h].copy \cup frame[h].put
         /\ Patched(h, Updated(h)) \in SUBSET Fact
<1>1. frame[h] \in Frame /\ frame[h].policy # Nobody
  BY DEF TypeOK, Busy
<1>2. Removed(h) \subseteq store
  BY DEF Removed
<1>3. Updated(h) \subseteq frame[h].copy \cup frame[h].put
  BY FactsThere DEF Updated
<1> QED
  BY <1>1, <1>2, <1>3 DEF Patched, Frame, TypeOK

\* What a request writes: the triples there were, with a new status or with
\* what a policy says.
LEMMA DecideWrites ==
  ASSUME TypeOK, NEW q \in Request, NEW status \in {"accepted", "denied"},
         Decide(q, status)
  PROVE  \E X \in SUBSET (Policy \X Permission) :
           /\ Decided(q, status) \cup X \in SUBSET Fact
           /\ Write(Decided(q, status) \cup X)
<1> DEFINE X == IF status = "accepted" THEN {PolicyOf[q]} \X Granted ELSE {}
<1>1. X \subseteq Policy \X Permission
  BY PolicyAssumption
<1>2. Decided(q, status) \subseteq Fact
  BY DEF Decided, Fact, Status, TypeOK
<1>3. Write(Decided(q, status) \cup X)
  BY DEF Decide
<1> HIDE DEF X
<1>4. Decided(q, status) \cup X \in SUBSET Fact
  BY <1>1, <1>2 DEF Fact
<1> QED
  BY <1>1, <1>3, <1>4

LEMMA FilesTyped ==
  /\ NoFile \in File
  /\ \A S \in SUBSET Fact : FileOf(S) \in File
BY DEF NoFile, FileOf, File

LEMMA BackupTyped == ASSUME TypeOK, BackupStep PROVE TypeOK'
<1> USE DEF TypeOK, memory, edits, disk, bounds
<1>1. CASE StartBackup
  BY <1>1 DEF StartBackup
<1>2. CASE Rename
  BY <1>2, FilesTyped DEF Rename
<1>3. CASE FileFault
  <2>1. faults' \in 0 .. MaxFaults
    BY <1>3, PolicyAssumption DEF FileFault
  <2> QED
    BY <1>3, <2>1 DEF FileFault, Failed
<1>4. CASE Snapshot
  BY <1>4, FilesTyped DEF Snapshot
<1>5. CASE Unlink
  BY <1>5, FilesTyped DEF Unlink, Unlinked
<1>6. CASE Flush
  BY <1>6, FilesTyped DEF Flush
<1> QED
  BY <1>1, <1>2, <1>3, <1>4, <1>5, <1>6 DEF BackupStep

LEMMA ServerTyped == ASSUME TypeOK, Crash \/ Restart \/ Load PROVE TypeOK'
<1>1. CASE Crash
  <2>1. pc' \in [Handler -> Point] /\ frame' \in [Handler -> Frame]
    BY <1>1, IdleTyped DEF Crash, Point
  <2>2. crashes' \in 0 .. MaxCrashes
    BY <1>1, PolicyAssumption DEF Crash, TypeOK
  <2> QED
    BY <1>1, <2>1, <2>2, FilesTyped DEF Crash, TypeOK
<1>2. CASE Restart
  BY <1>2 DEF Restart, TypeOK, File, edits, disk, bounds
<1>3. CASE Load
  BY <1>3, NoticedKeeps DEF Load, TypeOK, disk, bounds
<1> QED
  BY <1>1, <1>2, <1>3

\* The kinds of steps, and what they write.
LEMMA Steps ==
  ASSUME TypeOK, Busy, Next
  PROVE  \/ \E q \in Request : AddRequest(q)
         \/ \E q \in Request, status \in {"accepted", "denied"} : Decide(q, status)
         \/ \E X \in SUBSET Fact : AddPolicy(X)
         \/ \E p \in Policy, point \in {"isolate", "remove"},
              del \in SUBSET Fact, put \in SUBSET Fact : Begin(p, point, del, put)
         \/ \E h \in Handler : Isolate(h)
         \/ \E h \in Handler : Remove(h)
         \/ \E h \in Handler : Patch(h)
         \/ BackupStep
         \/ Crash \/ Restart \/ Load
<1>1. \A p \in Policy, update \in Update : BeginPatch(p, update) =>
        \E del \in SUBSET Fact, put \in SUBSET Fact : Begin(p, "isolate", del, put)
  BY PolicyAssumption DEF BeginPatch
<1>2. \A p \in Policy, X \in Posted : BeginPut(p, X) =>
        \E put \in SUBSET Fact : Begin(p, "remove", {}, put)
  BY PolicyAssumption DEF BeginPut
<1>3. \A p \in Policy : BeginDelete(p) => Begin(p, "remove", {}, {})
  BY DEF BeginDelete
<1>4. {} \in SUBSET Fact /\ Posted \subseteq SUBSET Fact
  BY PolicyAssumption
<1> QED
  BY <1>1, <1>2, <1>3, <1>4 DEF Next, RequestStep, PolicyStep

LEMMA TypeStep == TypeOK /\ Busy /\ [Next]_vars => TypeOK'
<1> SUFFICES ASSUME TypeOK, Busy, [Next]_vars PROVE TypeOK'
  OBVIOUS
<1>1. ASSUME NEW q \in Request, AddRequest(q) PROVE TypeOK'
  <2>1. store \cup {<<q, "requested">>} \in SUBSET Fact
    BY DEF TypeOK, Fact, Status
  <2> QED
    BY <1>1, <2>1, WriteTyped DEF AddRequest, TypeOK
<1>2. ASSUME NEW q \in Request, NEW status \in {"accepted", "denied"}, Decide(q, status)
      PROVE  TypeOK'
  BY <1>2, DecideWrites, WriteTyped DEF Decide, TypeOK
<1>3. ASSUME NEW X \in SUBSET Fact, AddPolicy(X) PROVE TypeOK'
  <2>1. store \cup X \in SUBSET Fact
    BY DEF TypeOK
  <2> QED
    BY <1>3, <2>1, WriteTyped, WritesTyped DEF AddPolicy
<1>4. ASSUME NEW p \in Policy, NEW point \in {"isolate", "remove"},
             NEW del \in SUBSET Fact, NEW put \in SUBSET Fact, Begin(p, point, del, put)
      PROVE  TypeOK'
  BY <1>4, BeginTyped
<1>5. ASSUME NEW h \in Handler, Isolate(h) PROVE TypeOK'
  BY <1>5, IsolateTyped
<1>6. ASSUME NEW h \in Handler, Remove(h) PROVE TypeOK'
  BY <1>6, CommitTyped, CommitsTyped DEF Remove
<1>7. ASSUME NEW h \in Handler, Patch(h) PROVE TypeOK'
  BY <1>7, CommitTyped, CommitsTyped DEF Patch
<1>8. CASE UNCHANGED vars
  BY <1>8 DEF TypeOK, vars, memory, edits, disk, bounds
<1> QED
  BY <1>1, <1>2, <1>3, <1>4, <1>5, <1>6, <1>7, <1>8, BackupTyped, ServerTyped, Steps

LEMMA BusyStep == TypeOK /\ Busy /\ [Next]_vars => Busy'
<1> SUFFICES ASSUME TypeOK, Busy, [Next]_vars, NEW g \in Handler,
                    pc'[g] # "free"
             PROVE  frame'[g].policy # Nobody
  BY DEF Busy
<1> USE DEF Busy
<1>1. frame[g] \in Frame
  BY DEF TypeOK
<1>2. ASSUME NEW h, frame' = Noticed(h), g # h, pc[g] # "free"
      PROVE  frame'[g].policy # Nobody
  BY <1>1, <1>2 DEF Noticed, Frame
<1>3. ASSUME NEW new, Write(new) PROVE frame'[g].policy # Nobody
  <2>1. g # Nobody
    BY PolicyAssumption
  <2> QED
    BY <1>2, <1>3, <2>1 DEF Write
<1>4. ASSUME NEW h \in Handler, NEW new, Commit(h, new) PROVE frame'[g].policy # Nobody
  <2>1. pc' = [pc EXCEPT ![h] = "free"]
    BY <1>4 DEF Commit
  <2>2. g # h /\ pc[g] # "free"
    BY <2>1 DEF TypeOK
  <2> QED
    BY <1>2, <1>4, <2>2 DEF Commit
<1>5. ASSUME NEW p \in Policy, NEW point, NEW del, NEW put, Begin(p, point, del, put)
      PROVE  frame'[g].policy # Nobody
  <2> DEFINE h == Pick(Free)
  <2>1. p # Nobody
    BY PolicyAssumption
  <2>2. /\ pc' = [pc EXCEPT ![h] = point]
        /\ frame' = [frame EXCEPT ![h] = [policy |-> p, copy |-> store, omit |-> {},
                                          del |-> del, put |-> put, stale |-> FALSE]]
    BY <1>5 DEF Begin
  <2> HIDE DEF h
  <2> QED
    BY <2>1, <2>2 DEF TypeOK
<1>6. ASSUME NEW h \in Handler, Isolate(h) PROVE frame'[g].policy # Nobody
  <2>1. CASE g = h
    BY <1>1, <1>6, <2>1 DEF Isolate, TypeOK, Frame
  <2>2. CASE g # h
    BY <1>6, <2>2 DEF Isolate, TypeOK
  <2> QED
    BY <2>1, <2>2
<1>7. CASE BackupStep
  BY <1>7 DEF BackupStep, StartBackup, Rename, FileFault, Snapshot, Unlink, Flush, edits
<1>8. CASE Crash \/ Restart \/ Load
  <2>1. CASE Crash
    BY <2>1 DEF Crash
  <2>2. CASE Restart
    BY <2>2 DEF Restart, edits
  <2>3. CASE Load
    <3>1. g # Nobody
      BY PolicyAssumption
    <3> QED
      BY <1>2, <2>3, <3>1 DEF Load
  <2> QED
    BY <1>8, <2>1, <2>2, <2>3
<1>9. CASE UNCHANGED vars
  BY <1>9 DEF vars, edits
<1> QED
  BY <1>3, <1>4, <1>5, <1>6, <1>7, <1>8, <1>9, Steps
     DEF AddRequest, Decide, AddPolicy, Remove, Patch

THEOREM Typed == Spec => [](TypeOK /\ Busy)
<1>1. Init => TypeOK /\ Busy
  BY TypeInit DEF Init, Busy
<1> QED
  BY <1>1, TypeStep, BusyStep, PTL DEF Spec

\* The store, its copies, the edits and the files keep their types
\* (BaseController, FileBackupUCRulesStorage).
THEOREM PolicyStoreTyped == Spec => []TypeOK
BY Typed, PTL

-----------------------------------------------------------------------------
(* Statuses.                                                                *)

\* An edit only goes on while the server runs.
LEMMA EditsNeedServer ==
  ASSUME Busy, StatusInv, NEW h \in Handler, pc[h] # "free"
  PROVE  up
<1>1. frame[h].policy # Nobody
  BY DEF Busy
<1> QED
  BY <1>1 DEF StatusInv, Idle

\* A step that changes the store alone: it is up to the new store.  What is
\* asked and named may get more.
LEMMA StoreChanges ==
  ASSUME TypeOK, StatusInv, NEW h, frame' = Noticed(h),
         \A g \in Handler : g # h => pc'[g] = pc[g],
         asked \subseteq asked', named \subseteq named',
         up, up', UNCHANGED <<loading, file, flush>>,
         NEW R, R = Request \ named', Consistent(R, store', asked'),
         Decidable(R, loading) \cap Decidable(R, store') = {}
  PROVE  StatusInv'
<1>1. R \subseteq Unnamed
  BY DEF Unnamed
<1>2. \A g \in Handler : FrameInv(R, frame'[g], pc'[g], asked', loading)
  BY <1>1, NoticedIsConsistent
<1>3. /\ Consistent(R, loading, asked') /\ Consistent(R, file.facts, asked')
      /\ Consistent(R, flush.facts, asked')
  BY <1>1, FewerAreConsistent DEF StatusInv
<1> QED
  BY <1>2, <1>3 DEF StatusInv, Unnamed

LEMMA WriteStatus ==
  ASSUME TypeOK, StatusInv, up, NEW new, Write(new), asked \subseteq asked',
         UNCHANGED named, Consistent(Unnamed, new, asked'),
         Decidable(Unnamed, loading) \cap Decidable(Unnamed, new) = {}
  PROVE  StatusInv'
BY StoreChanges DEF Write, disk, Unnamed

LEMMA CommitStatus ==
  ASSUME TypeOK, StatusInv, up, NEW h \in Handler, NEW new, Commit(h, new),
         Consistent(Unnamed, new, asked),
         Decidable(Unnamed, loading) \cap Decidable(Unnamed, new) = {}
  PROVE  StatusInv'
<1>1. \A g \in Handler : g # h => pc'[g] = pc[g]
  BY DEF Commit, TypeOK
<1> QED
  BY <1>1, StoreChanges DEF Commit, disk, Unnamed

LEMMA AddRequestStatus ==
  ASSUME TypeOK, StatusInv, NEW q \in Request, AddRequest(q)
  PROVE  StatusInv'
<1> DEFINE new == store \cup {<<q, "requested">>}
<1>1. /\ up /\ Write(new) /\ asked' = asked \cup {q} /\ q \notin asked
      /\ UNCHANGED named
  BY DEF AddRequest
<1>2. /\ q \in Unnamed
      /\ q \notin Decidable(Unnamed, store) /\ q \notin Decidable(Unnamed, loading)
  BY <1>1 DEF StatusInv, Consistent, Unnamed, TypeOK
<1>3. \A r \in Unnamed : r # q => Statuses(r, new) = Statuses(r, store)
  BY DEF Statuses
<1>4. Statuses(q, new) = {<<q, "requested">>}
  BY <1>2 DEF Statuses, Decidable, Status
<1>5. Apart(Unnamed, new)
  <2>1. "requested" \notin Unnamed
    BY PolicyAssumption DEF Status, Unnamed
  <2>2. Apart(Unnamed, store)
    BY DEF StatusInv, Consistent
  <2> QED
    BY <2>1, <2>2 DEF Apart
<1> HIDE DEF new
<1>6. Decidable(Unnamed, new) = Decidable(Unnamed, store) \cup {q}
  BY <1>2, <1>3, <1>4 DEF Decidable
<1>7. Consistent(Unnamed, new, asked')
  <2>1. Single(Unnamed, new)
    BY <1>3, <1>4 DEF StatusInv, Consistent, Single
  <2>2. Decidable(Unnamed, store) \cup {q} \subseteq asked'
    BY <1>1 DEF StatusInv, Consistent
  <2> QED
    BY <1>5, <1>6, <2>1, <2>2 DEF Consistent
<1>8. Decidable(Unnamed, loading) \cap Decidable(Unnamed, new) = {}
  BY <1>2, <1>6 DEF StatusInv
<1> QED
  BY <1>1, <1>7, <1>8, WriteStatus

LEMMA DecideStatus ==
  ASSUME TypeOK, StatusInv, NEW q \in Request, NEW status \in {"accepted", "denied"},
         Decide(q, status)
  PROVE  StatusInv'
<1> DEFINE new == Decided(q, status)
<1>1. PICK X \in SUBSET (Policy \X Permission) : Write(new \cup X)
  BY DecideWrites
<1>2. up /\ UNCHANGED <<asked, named>> /\ Statuses(q, store) = {<<q, "requested">>}
  BY DEF Decide
<1>3. \A r \in Unnamed : r # q => Statuses(r, new) = Statuses(r, store)
  BY DEF Statuses, Decided
<1>4. Statuses(q, new) = {<<q, status>>}
  BY <1>2 DEF Statuses, Decided, Status
<1>5. Apart(Unnamed, new)
  <2>1. status \notin Unnamed
    BY PolicyAssumption DEF Status, Unnamed
  <2>2. Apart(Unnamed, store)
    BY DEF StatusInv, Consistent
  <2> QED
    BY <2>1, <2>2 DEF Apart, Decided
<1>6. Silent(Unnamed, X)
  BY PolicyAssumption DEF Silent, Unnamed
<1> HIDE DEF new
<1>7. Decidable(Unnamed, new) = Decidable(Unnamed, store)
  BY <1>2, <1>3, <1>4 DEF Decidable
<1>8. Single(Unnamed, new)
  BY <1>3, <1>4 DEF StatusInv, Consistent, Single
<1>9. Consistent(Unnamed, new, asked)
  BY <1>5, <1>7, <1>8 DEF StatusInv, Consistent
<1>10. /\ Consistent(Unnamed, new \cup X, asked)
       /\ Decidable(Unnamed, new \cup X) = Decidable(Unnamed, store)
  BY <1>6, <1>7, <1>9, SilentAddsNothing
<1> QED
  BY <1>1, <1>2, <1>10, WriteStatus DEF StatusInv

LEMMA AddPolicyStatus ==
  ASSUME TypeOK, StatusInv, NEW X \in SUBSET Fact, AddPolicy(X)
  PROVE  StatusInv'
<1> DEFINE R == Request \ named'
           new == store \cup X
<1>1. up /\ Write(new) /\ Writes(X)
  BY DEF AddPolicy
<1>2. Silent(R, X) /\ R \subseteq Unnamed /\ named \subseteq named' /\ asked' = asked
  BY <1>1, WrittenIsSilent DEF Unnamed
<1> HIDE DEF R
<1>3. Consistent(R, store, asked) /\ Decidable(R, loading) \cap Decidable(R, store) = {}
  BY <1>2, FewerAreConsistent DEF StatusInv
<1>4. Consistent(R, new, asked) /\ Decidable(R, new) = Decidable(R, store)
  BY <1>2, <1>3, SilentAddsNothing
<1>5. /\ frame' = Noticed(Nobody) /\ UNCHANGED <<loading, file, flush, pc, up>>
      /\ store' = new
  BY <1>1 DEF Write, disk
<1> HIDE DEF new
<1>6. Consistent(R, store', asked') /\ Decidable(R, loading) \cap Decidable(R, store') = {}
  BY <1>2, <1>3, <1>4, <1>5
<1>7. asked \subseteq asked'
  BY <1>2
<1> QED
  BY <1>1, <1>2, <1>5, <1>6, <1>7, StoreChanges DEF R

LEMMA BeginStatus ==
  ASSUME TypeOK, StatusInv, NEW p, NEW point \in {"isolate", "remove"}, NEW del, NEW put,
         Begin(p, point, del, put)
  PROVE  StatusInv'
<1> DEFINE h == Pick(Free)
           f == [policy |-> p, copy |-> store, omit |-> {}, del |-> del,
                 put |-> put, stale |-> FALSE]
           R == Request \ named'
<1>1. /\ up /\ frame' = [frame EXCEPT ![h] = f] /\ pc' = [pc EXCEPT ![h] = point]
      /\ Writes(put) /\ UNCHANGED <<store, loading, file, flush, up>>
  BY DEF Begin, memory, disk
<1>2. f.omit = {} /\ f.put = put /\ f.copy = store
  OBVIOUS
<1>3. Silent(R, put) /\ R \subseteq Unnamed /\ asked' = asked
  BY <1>1, WrittenIsSilent DEF Unnamed
<1> HIDE DEF h, f, R
<1>4. /\ Consistent(R, store, asked) /\ Consistent(R, loading, asked)
      /\ Consistent(R, file.facts, asked) /\ Consistent(R, flush.facts, asked)
      /\ Decidable(R, loading) \cap Decidable(R, store) = {}
  BY <1>3, FewerAreConsistent DEF StatusInv
<1>5. FrameInv(R, f, point, asked, loading)
  BY <1>2, <1>3, <1>4, EmptyIsConsistent DEF FrameInv, Consistent
<1>6. \A g \in Handler : FrameInv(R, frame[g], pc[g], asked, loading)
  BY <1>3, FewerFrames DEF StatusInv
<1>7. \A g \in Handler : FrameInv(R, frame'[g], pc'[g], asked, loading)
  <2> TAKE g \in Handler
  <2>1. CASE g = h
    BY <1>1, <1>5, <2>1 DEF TypeOK
  <2>2. CASE g # h
    BY <1>1, <1>6, <2>2 DEF TypeOK
  <2> QED
    BY <2>1, <2>2
<1> QED
  BY <1>1, <1>3, <1>4, <1>7 DEF StatusInv, Unnamed, R

LEMMA IsolateStatus ==
  ASSUME TypeOK, Busy, StatusInv, NEW h \in Handler, Isolate(h)
  PROVE  StatusInv'
<1> DEFINE filtered == FactsOf(frame[h].policy, frame[h].copy)
           f == [frame[h] EXCEPT !.copy = filtered, !.omit = store \ filtered]
<1>1. /\ frame[h] \in Frame /\ frame[h].policy \in Policy /\ Unnamed \in SUBSET Request
      /\ FrameInv(Unnamed, frame[h], pc[h], asked, loading)
  BY CommitsTyped DEF TypeOK, Isolate, StatusInv, Unnamed
<1>2. Silent(Unnamed, filtered)
  BY <1>1, FactsAreSilent DEF FrameInv, Frame
<1>3. f.omit = store \ filtered /\ f.put = frame[h].put /\ f.copy = filtered
  BY <1>1 DEF Frame
<1>4. /\ \/ frame' = [frame EXCEPT ![h] = Idle] /\ pc' = [pc EXCEPT ![h] = "free"]
         \/ frame' = [frame EXCEPT ![h] = f] /\ pc' = [pc EXCEPT ![h] = "update"]
      /\ UNCHANGED <<store, loading, file, flush, asked, named, up>>
  BY DEF Isolate, memory, disk
<1> HIDE DEF filtered
<1>5. /\ Consistent(Unnamed, f.omit, asked)
      /\ Decidable(Unnamed, f.omit) \subseteq Decidable(Unnamed, store)
  BY <1>3, SmallerIsConsistent DEF StatusInv
<1>6. Apart(Unnamed, filtered)
  BY <1>2 DEF Silent, Apart
<1>7. Decidable(Unnamed, loading) \cap Decidable(Unnamed, f.omit) = {}
  BY <1>5 DEF StatusInv
<1> HIDE DEF f
<1>8. FrameInv(Unnamed, f, "update", asked, loading)
  BY <1>1, <1>2, <1>3, <1>5, <1>6, <1>7 DEF FrameInv
<1>9. \A g \in Handler : FrameInv(Unnamed, frame'[g], pc'[g], asked, loading)
  <2> TAKE g \in Handler
  <2>1. CASE g = h
    BY <1>4, <1>8, <2>1, IdleIsConsistent DEF TypeOK
  <2>2. CASE g # h
    BY <1>4, <2>2 DEF TypeOK, StatusInv
  <2> QED
    BY <2>1, <2>2
<1>10. up
  BY EditsNeedServer DEF Isolate
<1> QED
  BY <1>4, <1>9, <1>10 DEF StatusInv, Unnamed

LEMMA CommitsStatus ==
  ASSUME TypeOK, Busy, StatusInv, NEW h \in Handler, Remove(h) \/ Patch(h)
  PROVE  StatusInv'
<1>1. up /\ pc[h] # "free"
  BY EditsNeedServer DEF Remove, Patch
<1>2. FrameInv(Unnamed, frame[h], pc[h], asked, loading)
  BY DEF StatusInv
<1>3. CASE Remove(h)
  <2>1. Removed(h) \subseteq store /\ Silent(Unnamed, frame[h].put)
    BY <1>1, <1>2, CommitsTyped DEF FrameInv
  <2>2. /\ Consistent(Unnamed, Removed(h), asked)
        /\ Decidable(Unnamed, Removed(h)) \subseteq Decidable(Unnamed, store)
    BY <2>1, SmallerIsConsistent DEF StatusInv
  <2>3. /\ Consistent(Unnamed, Removed(h) \cup frame[h].put, asked)
        /\ Decidable(Unnamed, Removed(h) \cup frame[h].put) \subseteq Decidable(Unnamed, store)
    BY <2>1, <2>2, SilentAddsNothing
  <2> QED
    BY <1>1, <1>3, <2>3, CommitStatus DEF Remove, StatusInv
<1>4. CASE Patch(h)
  <2> DEFINE new == Patched(h, Updated(h))
  <2>1. Updated(h) \subseteq frame[h].copy \cup frame[h].put
    BY <1>1, CommitsTyped
  <2>2. Silent(Unnamed, Updated(h))
    BY <1>2, <1>4, <2>1 DEF FrameInv, Patch, Silent
  <2>3. /\ Consistent(Unnamed, new, asked)
        /\ Decidable(Unnamed, new) = Decidable(Unnamed, frame[h].omit)
    BY <1>2, <2>2, SilentAddsNothing DEF Patched, FrameInv
  <2> HIDE DEF new
  <2>4. Decidable(Unnamed, loading) \cap Decidable(Unnamed, new) = {}
    BY <1>2, <2>3 DEF FrameInv
  <2> QED
    BY <1>1, <1>4, <2>3, <2>4, CommitStatus DEF Patch, new
<1> QED
  BY <1>3, <1>4

LEMMA BackupStatus == ASSUME StatusInv, BackupStep PROVE StatusInv'
<1> USE DEF StatusInv, Unnamed, memory, edits
<1>0. Consistent(Unnamed, NoFile.facts, asked) /\ Consistent(Unnamed, FileOf({}).facts, asked)
  BY EmptyIsConsistent DEF NoFile, FileOf
<1>1. CASE StartBackup
  BY <1>1 DEF StartBackup
<1>2. CASE Rename
  BY <1>0, <1>2 DEF Rename
<1>3. CASE FileFault
  BY <1>3 DEF FileFault
<1>4. CASE Snapshot
  BY <1>0, <1>4 DEF Snapshot, FileOf
<1>5. CASE Unlink
  BY <1>5 DEF Unlink
<1>6. CASE Flush
  BY <1>0, <1>6 DEF Flush
<1> QED
  BY <1>1, <1>2, <1>3, <1>4, <1>5, <1>6 DEF BackupStep

LEMMA CrashStatus == ASSUME StatusInv, Crash \/ Restart PROVE StatusInv'
<1>0. /\ Consistent(Unnamed, {}, asked) /\ Consistent(Unnamed, NoFile.facts, asked)
      /\ Decidable(Unnamed, {}) = {}
  BY EmptyIsConsistent DEF NoFile
<1>1. CASE Crash
  <2>1. \A h \in Handler : FrameInv(Unnamed, frame'[h], pc'[h], asked, {})
    BY <1>1, IdleIsConsistent DEF Crash
  <2> QED
    BY <1>0, <1>1, <2>1 DEF Crash, StatusInv, Unnamed
<1>2. CASE Restart
  <2>1. store = {} /\ frame = [h \in Handler |-> Idle]
    BY <1>2 DEF Restart, StatusInv
  <2>2. \A h \in Handler : FrameInv(Unnamed, frame[h], pc[h], asked, file.facts)
    BY <2>1, IdleIsConsistent
  <2> QED
    BY <1>0, <1>2, <2>1, <2>2 DEF Restart, StatusInv, Unnamed, edits, disk
<1> QED
  BY <1>1, <1>2

\* What is read and what there is are about different requests.
LEMMA LoadStatus == ASSUME TypeOK, StatusInv, Load PROVE StatusInv'
<1> DEFINE new == store \cup loading
<1>1. \A q \in Unnamed :
        \/ Statuses(q, store) = {} /\ Statuses(q, new) = Statuses(q, loading)
        \/ Statuses(q, loading) = {} /\ Statuses(q, new) = Statuses(q, store)
  BY DEF StatusInv, Decidable, Statuses
<1>2. Apart(Unnamed, new)
  BY DEF StatusInv, Consistent, Apart
<1> HIDE DEF new
<1>3. /\ Single(Unnamed, new)
      /\ Decidable(Unnamed, new) \subseteq Decidable(Unnamed, store) \cup Decidable(Unnamed, loading)
  BY <1>1 DEF StatusInv, Consistent, Single, Decidable
<1>4. Consistent(Unnamed, new, asked)
  BY <1>2, <1>3 DEF StatusInv, Consistent
<1>5. \A g \in Handler : FrameInv(Unnamed, frame'[g], pc[g], asked, {})
  BY NoticedIsConsistent DEF Load
<1>6. /\ Consistent(Unnamed, {}, asked) /\ Decidable(Unnamed, {}) = {}
      /\ Consistent(Unnamed, file.facts, asked) /\ Consistent(Unnamed, flush.facts, asked)
  BY EmptyIsConsistent DEF StatusInv
<1> QED
  BY <1>4, <1>5, <1>6 DEF Load, StatusInv, Unnamed, disk, new

LEMMA StatusInit == Init => StatusInv
<1> SUFFICES ASSUME Init PROVE StatusInv
  OBVIOUS
<1>1. /\ Consistent(Unnamed, {}, asked) /\ Consistent(Unnamed, NoFile.facts, asked)
      /\ Decidable(Unnamed, {}) = {}
  BY EmptyIsConsistent DEF NoFile
<1>2. \A h \in Handler : FrameInv(Unnamed, frame[h], pc[h], asked, loading)
  BY IdleIsConsistent DEF Init
<1> QED
  BY <1>1, <1>2 DEF Init, StatusInv

LEMMA StatusStep == TypeOK /\ Busy /\ StatusInv /\ [Next]_vars => StatusInv'
<1> SUFFICES ASSUME TypeOK, Busy, StatusInv, [Next]_vars PROVE StatusInv'
  OBVIOUS
<1>1. CASE UNCHANGED vars
  BY <1>1 DEF StatusInv, Unnamed, vars, memory, edits, disk
<1> QED
  BY <1>1, AddRequestStatus, DecideStatus, AddPolicyStatus, BeginStatus, IsolateStatus,
     CommitsStatus, BackupStatus, CrashStatus, LoadStatus, Steps

\* A request for access nobody wrote of in a policy never has two statuses,
\* whatever else is posted, put and patched, and whatever is copied, replaced,
\* saved and read (patchAccessRequest, and every operation of BaseController and
\* FileBackupUCRulesStorage around it).
THEOREM OneStatusPerRequest == Spec => []OneStatus
<1>1. Init => TypeOK /\ Busy /\ StatusInv
  BY TypeInit, StatusInit DEF Init, Busy
<1>2. StatusInv => OneStatus
  BY DEF StatusInv, Consistent, Single, OneStatus, Unnamed
<1> QED
  BY <1>1, <1>2, TypeStep, BusyStep, StatusStep, PTL DEF Spec

-----------------------------------------------------------------------------
(* What is saved.                                                           *)

LEMMA SavedInit == Init => SavedInv
BY DEF Init, SavedInv, CleanIsSaved, NoFile

LEMMA WriteSaved == ASSUME SavedInv, up, NEW new, Write(new) PROVE SavedInv'
BY DEF SavedInv, CleanIsSaved, Write, disk

\* A change that is not noted is none.
LEMMA CommitSaved ==
  ASSUME TypeOK, SavedInv, up, NEW h, NEW new, Commit(h, new)
  PROVE  SavedInv'
<1>1. dataChanged' \/ (~dataChanged /\ UNCHANGED store)
  BY DEF Commit, TypeOK
<1>2. UNCHANGED <<loading, flush, file, backup, up>>
  BY DEF Commit, disk
<1> QED
  BY <1>1, <1>2 DEF SavedInv, CleanIsSaved, Commit, TypeOK

LEMMA BackupSaved == ASSUME TypeOK, SavedInv, BackupStep PROVE SavedInv'
<1> USE DEF SavedInv, CleanIsSaved, memory, disk
<1>1. CASE StartBackup
  BY <1>1 DEF StartBackup
<1>2. CASE Rename
  BY <1>2 DEF Rename
<1>3. CASE FileFault
  BY <1>3 DEF FileFault, Failed
<1>4. CASE Snapshot
  <2>1. loading = {}
    BY <1>4 DEF Snapshot
  <2>2. flush'.exists /\ flush'.facts = store
    BY <1>4 DEF Snapshot, FileOf
  <2>3. flush' # NoFile
    BY <2>2 DEF NoFile
  <2> QED
    BY <1>4, <2>1, <2>2, <2>3 DEF Snapshot
<1>5. CASE Unlink
  BY <1>5 DEF Unlink, Unlinked
<1>6. CASE Flush
  <2>1. flush # NoFile
    BY <1>6 DEF Flush, NoFile
  <2>2. file' = flush /\ flush' = NoFile /\ UNCHANGED <<store, dataChanged, loading, backup, up>>
    BY <1>6 DEF Flush
  <2> QED
    BY <2>1, <2>2
<1> QED
  BY <1>1, <1>2, <1>3, <1>4, <1>5, <1>6 DEF BackupStep

LEMMA ServerSaved == ASSUME SavedInv, Crash \/ Restart \/ Load PROVE SavedInv'
<1> USE DEF SavedInv, CleanIsSaved
<1>1. CASE Crash
  BY <1>1 DEF Crash
<1>2. CASE Restart
  BY <1>2 DEF Restart, disk
<1>3. CASE Load
  <2>1. flush = NoFile /\ backup = "idle" /\ up /\ up' /\ loading' = {}
    BY <1>3 DEF Load
  <2>2. ~dataChanged => store' = file.facts
    BY <1>3 DEF Load
  <2> QED
    BY <1>3, <2>1, <2>2 DEF Load, disk
<1> QED
  BY <1>1, <1>2, <1>3

LEMMA SavedStep ==
  TypeOK /\ Busy /\ StatusInv /\ SavedInv /\ [Next]_vars => SavedInv'
<1> SUFFICES ASSUME TypeOK, Busy, StatusInv, SavedInv, [Next]_vars PROVE SavedInv'
  OBVIOUS
<1>1. ASSUME NEW q \in Request, AddRequest(q) PROVE SavedInv'
  BY <1>1, WriteSaved DEF AddRequest
<1>2. ASSUME NEW q \in Request, NEW status \in {"accepted", "denied"}, Decide(q, status)
      PROVE  SavedInv'
  BY <1>2, WriteSaved DEF Decide
<1>3. ASSUME NEW X, AddPolicy(X) PROVE SavedInv'
  BY <1>3, WriteSaved DEF AddPolicy
<1>4. ASSUME NEW p, NEW point, NEW del, NEW put, Begin(p, point, del, put) PROVE SavedInv'
  BY <1>4 DEF Begin, SavedInv, CleanIsSaved, memory, disk
<1>5. ASSUME NEW h \in Handler, Isolate(h) PROVE SavedInv'
  BY <1>5 DEF Isolate, SavedInv, CleanIsSaved, memory, disk
<1>6. ASSUME NEW h \in Handler, Remove(h) PROVE SavedInv'
  BY <1>6, EditsNeedServer, CommitSaved DEF Remove
<1>7. ASSUME NEW h \in Handler, Patch(h) PROVE SavedInv'
  BY <1>7, EditsNeedServer, CommitSaved DEF Patch
<1>8. CASE UNCHANGED vars
  BY <1>8 DEF SavedInv, CleanIsSaved, vars, memory, edits, disk
<1> QED
  BY <1>1, <1>2, <1>3, <1>4, <1>5, <1>6, <1>7, <1>8, BackupSaved, ServerSaved, Steps

\* When no change is pending and nothing is on its way, the backup file has
\* exactly what the store has, whatever failed or crashed before (backup,
\* initialize).
THEOREM CleanIsAlwaysSaved == Spec => []CleanIsSaved
<1>1. Init => TypeOK /\ Busy /\ StatusInv /\ SavedInv
  BY TypeInit, StatusInit, SavedInit DEF Init, Busy
<1>2. SavedInv => CleanIsSaved
  BY DEF SavedInv
<1> QED
  BY <1>1, <1>2, TypeStep, BusyStep, StatusStep, SavedStep, PTL DEF Spec

-----------------------------------------------------------------------------
(* What edits change.                                                       *)

\* Unless it is stale, what an edit has copied is what there is.
CopyOf(e, point) ==
  /\ ~e.stale /\ point \in {"isolate", "remove"} => e.copy = store
  /\ ~e.stale /\ point = "update" =>
       e.copy = FactsOf(e.policy, store) /\ e.omit = store \ FactsOf(e.policy, store)

CopyInv == \A h \in Handler : CopyOf(frame[h], pc[h])

LEMMA IdleCopies == CopyOf(Idle, "free") /\ CopyOf(Idle, "free")'
BY DEF CopyOf, Idle

\* Whoever notices a change is stale or has ended.
LEMMA NoticedCopies ==
  ASSUME TypeOK, CopyInv, NEW h, frame' = Noticed(h),
         \A g \in Handler : pc'[g] = (IF g = h THEN "free" ELSE pc[g])
  PROVE  CopyInv'
<1> SUFFICES ASSUME NEW g \in Handler PROVE CopyOf(frame[g], pc[g])'
  BY DEF CopyInv
<1>1. frame[g] \in Frame /\ CopyOf(frame[g], pc[g])
  BY DEF TypeOK, CopyInv
<1>2. CASE g = h
  BY <1>2, IdleCopies DEF Noticed
<1>3. CASE g # h /\ pc[g] = "free"
  BY <1>1, <1>3 DEF Noticed, CopyOf
<1>4. CASE g # h /\ pc[g] # "free"
  BY <1>1, <1>4 DEF Noticed, CopyOf, Frame
<1> QED
  BY <1>2, <1>3, <1>4

LEMMA SameStoreCopies ==
  ASSUME TypeOK, CopyInv, UNCHANGED store, NEW h \in Handler,
         \A g \in Handler : g # h => frame'[g] = frame[g] /\ pc'[g] = pc[g],
         CopyOf(frame[h], pc[h])'
  PROVE  CopyInv'
BY DEF CopyInv, CopyOf

LEMMA BeginCopies ==
  ASSUME TypeOK, CopyInv, NEW p \in Policy, NEW point \in {"isolate", "remove"},
         NEW del, NEW put, Begin(p, point, del, put)
  PROVE  CopyInv'
<1> DEFINE f == [policy |-> p, copy |-> store, omit |-> {}, del |-> del,
                 put |-> put, stale |-> FALSE]
<1>1. PICK h \in Handler :
        /\ pc' = [pc EXCEPT ![h] = point] /\ frame' = [frame EXCEPT ![h] = f]
        /\ UNCHANGED store
  BY DEF Begin, Pick, Free, memory
<1>2. f.policy = p /\ f.copy = store
  OBVIOUS
<1>3. frame'[h] = f /\ pc'[h] = point
  BY <1>1 DEF TypeOK
<1> HIDE DEF f
<1>4. CopyOf(frame[h], pc[h])'
  BY <1>1, <1>2, <1>3 DEF CopyOf
<1> QED
  BY <1>1, <1>4, SameStoreCopies DEF TypeOK

LEMMA IsolateCopies ==
  ASSUME TypeOK, CopyInv, NEW h \in Handler, Isolate(h)
  PROVE  CopyInv'
<1> DEFINE filtered == FactsOf(frame[h].policy, frame[h].copy)
           f == [frame[h] EXCEPT !.copy = filtered, !.omit = store \ filtered]
<1>1. frame[h] \in Frame /\ CopyOf(frame[h], pc[h])
  BY DEF TypeOK, CopyInv
<1>2. CopyOf(frame[h], pc[h])'
  <2>1. CASE pc' = [pc EXCEPT ![h] = "free"] /\ frame' = [frame EXCEPT ![h] = Idle]
    BY <2>1, IdleCopies DEF TypeOK
  <2>2. CASE pc' = [pc EXCEPT ![h] = "update"] /\ frame' = [frame EXCEPT ![h] = f]
    <3>1. /\ f.policy = frame[h].policy /\ f.copy = filtered
          /\ f.stale = frame[h].stale /\ f.omit = store \ filtered
      BY <1>1 DEF Frame
    <3>2. ~frame[h].stale =>
            /\ f.copy = FactsOf(f.policy, store)
            /\ f.omit = store \ FactsOf(f.policy, store)
      BY <1>1, <3>1 DEF CopyOf, Isolate
    <3>3. frame'[h] = f /\ pc'[h] = "update" /\ UNCHANGED store
      BY <2>2 DEF TypeOK, Isolate, memory
    <3> HIDE DEF f
    <3> QED
      BY <3>1, <3>2, <3>3 DEF CopyOf
  <2> QED
    BY <2>1, <2>2 DEF Isolate
<1>3. UNCHANGED store /\ \A g \in Handler : g # h => frame'[g] = frame[g] /\ pc'[g] = pc[g]
  BY DEF Isolate, memory, TypeOK
<1> QED
  BY <1>2, <1>3, SameStoreCopies

LEMMA CommitCopies ==
  ASSUME TypeOK, CopyInv, NEW h \in Handler, NEW new, Commit(h, new)
  PROVE  CopyInv'
BY NoticedCopies DEF Commit, TypeOK

LEMMA CopyStep == TypeOK /\ Busy /\ CopyInv /\ [Next]_vars => CopyInv'
<1> SUFFICES ASSUME TypeOK, Busy, CopyInv, [Next]_vars PROVE CopyInv'
  OBVIOUS
<1>0. \A g \in Handler : g # Nobody
  BY PolicyAssumption
<1>1. ASSUME NEW new, Write(new) PROVE CopyInv'
  BY <1>0, <1>1, NoticedCopies DEF Write
<1>2. ASSUME NEW p \in Policy, NEW point \in {"isolate", "remove"}, NEW del, NEW put,
             Begin(p, point, del, put)
      PROVE  CopyInv'
  BY <1>2, BeginCopies
<1>3. CASE UNCHANGED <<store, pc, frame>>
  BY <1>3 DEF CopyInv, CopyOf
<1>4. CASE BackupStep \/ Restart \/ UNCHANGED vars
  BY <1>3, <1>4 DEF BackupStep, StartBackup, Rename, FileFault, Snapshot, Unlink, Flush,
     Restart, vars, memory, edits
<1>5. CASE Crash
  BY <1>5, IdleCopies DEF Crash, CopyInv
<1>6. CASE Load
  BY <1>0, <1>6, NoticedCopies DEF Load
<1> QED
  BY <1>1, <1>2, <1>4, <1>5, <1>6, IsolateCopies, CommitCopies, Steps
     DEF AddRequest, Decide, AddPolicy, Remove, Patch

\* An edit ends in Patch or Remove: what it takes out and puts in.
KeepsToPolicy(h) ==
  /\ store \ store' \subseteq FactsOf(frame[h].policy, store)
  /\ store' \ store \subseteq frame[h].put

LEMMA EditEnds ==
  ASSUME TypeOK, Busy, CopyInv, [Next]_vars, NEW h \in Handler,
         pc[h] \in {"update", "remove"}, pc'[h] = "free", up', ~frame[h].stale
  PROVE  KeepsToPolicy(h)
<1>1. CopyOf(frame[h], pc[h])
  BY DEF CopyInv
<1>2. CASE Remove(h)
  <2>1. store' = (store \cap (store \ FactsOf(frame[h].policy, store))) \cup frame[h].put
    BY <1>1, <1>2 DEF Remove, Commit, Removed, CopyOf
  <2> QED
    BY <2>1 DEF KeepsToPolicy
<1>3. CASE Patch(h)
  <2>1. store' = (store \ FactsOf(frame[h].policy, store)) \cup Updated(h)
    BY <1>1, <1>3 DEF Patch, Commit, Patched, CopyOf
  <2>2. Updated(h) \subseteq FactsOf(frame[h].policy, store) \cup frame[h].put
    BY <1>1, <1>3, CommitsTyped DEF Patch, CopyOf
  <2> QED
    BY <2>1, <2>2, FactsThere DEF KeepsToPolicy
<1>4. ~UNCHANGED pc
  OBVIOUS
<1>5. ASSUME NEW g \in Handler, g # h,
             Isolate(g) \/ Remove(g) \/ Patch(g)
      PROVE  FALSE
  BY <1>5 DEF Isolate, Remove, Patch, Commit, TypeOK
<1>6. ASSUME NEW p, NEW point \in {"isolate", "remove"}, NEW del, NEW put,
             Begin(p, point, del, put)
      PROVE  FALSE
  BY <1>6 DEF Begin, TypeOK
<1>7. ~Isolate(h) /\ ~Crash
  BY DEF Isolate, Crash
<1>8. ASSUME NEW new, Write(new) PROVE UNCHANGED pc
  BY <1>8 DEF Write
<1>9. BackupStep \/ Restart \/ Load \/ UNCHANGED vars => UNCHANGED pc
  BY DEF BackupStep, StartBackup, Rename, FileFault, Snapshot, Unlink, Flush, Restart,
         Load, vars, edits
<1> QED
  BY <1>2, <1>3, <1>4, <1>5, <1>6, <1>7, <1>8, <1>9, Steps
     DEF AddRequest, Decide, AddPolicy

\* An edit during which nobody else changes the store takes out only what belongs
\* to its policy, and puts in only what the client wrote, whatever else the store
\* has and whatever the client wrote (patchEntity, deleteEntity, putEntity).
THEOREM EditsChangeTheirPolicyOnly == Spec => EditsKeepToTheirPolicy
<1>1. Init => TypeOK /\ Busy /\ CopyInv
  BY TypeInit, IdleCopies DEF Init, Busy, CopyInv
<1>2. TypeOK /\ Busy /\ CopyInv /\ [Next]_vars =>
        [\A h \in Handler :
           pc[h] \in {"update", "remove"} /\ pc'[h] = "free" /\ up' /\ ~frame[h].stale =>
             /\ store \ store' \subseteq FactsOf(frame[h].policy, store)
             /\ store' \ store \subseteq frame[h].put]_vars
  BY EditEnds DEF KeepsToPolicy
<1> QED
  BY <1>1, <1>2, TypeStep, BusyStep, CopyStep, PTL DEF Spec, EditsKeepToTheirPolicy

=============================================================================
