------------------------------ MODULE PolicyStore ------------------------------
(****************************************************************************)
(* The store of policies and access requests of an authorization server     *)
(* (packages/uma/src): the operations of controller/BaseController.ts,      *)
(* controller/AccessRequestController.ts and PolicyRequestController.ts on  *)
(* it, and its backup on disk, ucp/storage/FileBackupUCRulesStorage.ts.     *)
(*                                                                          *)
(* All operations share one in-memory store of triples.  Requests for       *)
(* access are created and decided without giving way to other requests; an  *)
(* edit of a policy queries copies of the store with an engine that gives   *)
(* way to the event loop now and then, and a backup waits for the disk.     *)
(*                                                                          *)
(* A triple is a fact about its subject: a request has a status, a policy   *)
(* has a permission.  A policy is also linked to what its rules share with   *)
(* others: another policy has one of them, or a request is written where a  *)
(* rule has a constraint.  Who writes a policy writes any facts.            *)
(****************************************************************************)
EXTENDS Naturals

CONSTANTS
  Request,    \* requests for access
  Policy,     \* policies, written by owners or made from accepted requests
  PolicyOf,   \* the policy each request leads to
  Permission, \* what a policy can say
  Granted,    \* what the policy of an accepted request says
  Posted,     \* the graphs clients post and put
  Update,     \* what clients patch: pairs of what they delete and insert
  Handler,    \* identities for edits of policies made at the same time
  Nobody,     \* no policy, no handler
  MaxEdits,   \* bound: edits of policies
  MaxCrashes, \* bound: crashes of the server
  MaxFaults   \* bound: failed renames and removals of files

Status == {"requested", "accepted", "denied"}
Link == Policy \X (Policy \cup Request)
Fact == (Request \X Status) \cup (Policy \X Permission) \cup Link

ASSUME PolicyAssumption ==
  /\ PolicyOf \in [Request -> Policy]
  /\ Granted \subseteq Permission /\ Posted \subseteq SUBSET Fact
  /\ Update \subseteq (SUBSET Fact) \X (SUBSET Fact)
  /\ Request \cap (Policy \cup Permission) = {} /\ Policy \cap Permission = {}
  /\ Status \cap (Request \cup Policy \cup Permission) = {}
  /\ Nobody \notin Policy \cup Request \cup Handler
  /\ MaxEdits \in Nat /\ MaxCrashes \in Nat /\ MaxFaults \in Nat

VARIABLES
  store,       \* the triples, MemoryUCRulesStorage.store
  asked,       \* the requests for access made so far
  named,       \* history: the requests that were ever written of in a policy
  pc,          \* where each edit is
  frame,       \* the local variables of each edit
  dataChanged, \* the store has changed since its last backup
  backup,      \* where the backup is; doingBackup holds unless it is idle
  flush,       \* the backup that is being written
  file,        \* the backup file
  old,         \* there is a file of the previous backup; nothing reads it
  up,          \* the server runs
  loading,     \* the triples of the backup the server still has to read
  begun, crashes, faults \* how often there was an edit, a crash, a fault

memory == <<store, dataChanged, loading>>
edits  == <<pc, frame>>
disk   == <<flush, file, old, backup>>
bounds == <<begun, crashes, faults>>
vars   == <<memory, edits, disk, asked, named, up, bounds>>

-----------------------------------------------------------------------------
\* free     not in use
\* isolate  sanitizeGet on a copy of the store, the first part of a PATCH
\* update   the update of the isolated policy and its second isolation
\* remove   sanitizeDelete on a copy of the store, in a DELETE or a PUT
Point == {"free", "isolate", "update", "remove"}

Frame == [policy : Policy \cup {Nobody},
          copy   : SUBSET Fact,  \* filteredStore
          omit   : SUBSET Fact,  \* omitStore
          del    : SUBSET Fact,  \* what the update of a PATCH deletes
          put    : SUBSET Fact,  \* what it inserts, or what a PUT adds
          stale  : BOOLEAN]      \* another request changed the store since

Idle == [policy |-> Nobody, copy |-> {}, omit |-> {}, del |-> {}, put |-> {},
         stale |-> FALSE]

\* The policies that share a rule with p, and what is written as a constraint.
Linked(p, S) == {e \in Policy \cup Request : <<p, e>> \in S \/ <<e, p>> \in S}

\* getPolicy, permissionToQuads: for every rule of the policy, the triples of all
\* policies that have it, of the rule, and of the nodes it has as constraints.
FactsOf(p, S) ==
  LET facts == {f \in S : f[1] \in {p} \cup Linked(p, S)} IN
  IF facts \cap (Policy \X Permission) = {} THEN {} ELSE facts

\* postPolicy: what is posted has a policy; executePost resolves to all of it.
IsPolicy(X) == X \cap (Policy \X Permission) # {}

\* noAlreadyDefinedSubjects.
NewSubjects(X, S) == \A f \in X, g \in S : f[1] # g[1]

\* patchPolicy: the client is an assigner in what was isolated.  Who is, got the
\* triples of the policy, and nobody else any.
IsAssigner(p, S) == FactsOf(p, S) # {}

\* The requests a graph is about, or has as a constraint.
Mentions(X) == {q \in Request : \E f \in X : q \in {f[1], f[2]}}

Statuses(q, S) == S \cap ({q} \X Status)

\* A file, or what is being written to one.
File == [exists : BOOLEAN, facts : SUBSET Fact]
NoFile == [exists |-> FALSE, facts |-> {}]
FileOf(facts) == [exists |-> TRUE, facts |-> facts]

\* Other edits have their copies; they do not notice a change of the store.
Noticed(h) ==
  [g \in Handler |-> IF g = h THEN Idle
                     ELSE IF pc[g] = "free" THEN frame[g]
                     ELSE [frame[g] EXCEPT !.stale = TRUE]]

\* addRule and removeData, by a request that does not wait in between.
Write(new) ==
  /\ store' = new
  /\ dataChanged' = TRUE
  /\ frame' = Noticed(Nobody)
  /\ UNCHANGED <<loading, pc, disk, up, bounds>>

-----------------------------------------------------------------------------
(* Requests for access.                                                     *)

\* AccessRequestController.addEntity.
AddRequest(q) ==
  /\ up
  /\ q \notin asked
  /\ asked' = asked \cup {q}
  /\ Write(store \cup {<<q, "requested">>})
  /\ UNCHANGED named

\* patchAccessRequest: the new status takes the place of the old one.
Decided(q, status) == (store \ {<<q, "requested">>}) \cup {<<q, status>>}

\* AccessRequestController.patchEntity.  A request with another status, or with
\* none, is refused.  Somebody who accepts a request makes a policy.
Decide(q, status) ==
  /\ up
  /\ Statuses(q, store) = {<<q, "requested">>}
  /\ Write(Decided(q, status) \cup
           (IF status = "accepted" THEN {PolicyOf[q]} \X Granted ELSE {}))
  /\ UNCHANGED <<asked, named>>

-----------------------------------------------------------------------------
(* Policies.                                                                *)

\* What a client writes can be about requests it knows of: the identifiers of
\* later ones are random.
Writes(X) ==
  /\ Mentions(X) \subseteq asked
  /\ named' = named \cup Mentions(X)
  /\ UNCHANGED asked

\* BaseController.addEntity: the query on what was posted comes first, the
\* check for conflicts and the addition are one step.
AddPolicy(X) ==
  /\ up
  /\ IsPolicy(X) /\ NewSubjects(X, store)
  /\ Writes(X)
  /\ Write(store \cup X)

\* The identities are alike: one of those that are free is taken.
Free == {h \in Handler : pc[h] = "free"}
Pick(S) == CHOOSE h \in S : TRUE

Begin(p, point, del, put) ==
  LET h == Pick(Free) IN
  /\ up
  /\ Free # {}
  /\ begun < MaxEdits
  /\ begun' = begun + 1
  /\ pc' = [pc EXCEPT ![h] = point]
  /\ frame' = [frame EXCEPT ![h] = [policy |-> p, copy |-> store, omit |-> {},
                                    del |-> del, put |-> put, stale |-> FALSE]]
  /\ Writes(put)
  /\ UNCHANGED <<memory, disk, up, crashes, faults>>

\* The body of a PATCH is an update: it may delete and insert anything.
BeginPatch(p, update) == Begin(p, "isolate", update[1], update[2])
BeginDelete(p) == Begin(p, "remove", {}, {})

\* putEntity up to the copy made by deleteEntity; the parts before it wait, but
\* leave nothing behind.  What is put is all that was posted: neither that it is
\* about this policy nor that its subjects are new is checked.
BeginPut(p, X) == IsPolicy(X) /\ Begin(p, "remove", {}, X)

\* patchEntity, isolate: the policy as it was, and the rest of the store as it
\* is by now.  Somebody who is no assigner of the policy is refused.
Isolate(h) ==
  LET filtered == FactsOf(frame[h].policy, frame[h].copy) IN
  /\ pc[h] = "isolate"
  /\ IF ~IsAssigner(frame[h].policy, filtered)
     THEN /\ pc' = [pc EXCEPT ![h] = "free"]
          /\ frame' = [frame EXCEPT ![h] = Idle]
     ELSE /\ pc' = [pc EXCEPT ![h] = "update"]
          /\ frame' = [frame EXCEPT ![h].copy = filtered,
                                    ![h].omit = store \ filtered]
  /\ UNCHANGED <<memory, disk, asked, named, up, bounds>>

\* The end of an edit: the store gets to be as the edit has it.
Commit(h, new) ==
  /\ store' = new
  /\ dataChanged' = (dataChanged \/ pc[h] = "remove" \/ new # store)
  /\ pc' = [pc EXCEPT ![h] = "free"]
  /\ frame' = Noticed(h)
  /\ UNCHANGED <<loading, disk, asked, named, up, bounds>>

\* Mutant: what changed is added to the store, nothing is taken out.
PatchedMerged(h, updated) == store \cup frame[h].omit \cup updated

\* patchEntity: what is in the store and not in the patched copy is removed,
\* what is in the copy and not in the store is added.
Patched(h, updated) == frame[h].omit \cup updated

\* The update runs on the isolated policy, and what is not the policy's after it
\* is left out: getPolicy again.
Updated(h) ==
  FactsOf(frame[h].policy, (frame[h].copy \ frame[h].del) \cup frame[h].put)

Patch(h) ==
  /\ pc[h] = "update"
  /\ Commit(h, Patched(h, Updated(h)))

\* Mutant: the whole copy is removed.
RemovedAll(h) == store \ frame[h].copy

\* deleteEntity: the copy without the policy, and of the store what is in it.
Removed(h) ==
  LET filtered == frame[h].copy \ FactsOf(frame[h].policy, frame[h].copy) IN
  store \cap filtered

\* A DELETE, or the removal and the addition of a PUT.
Remove(h) ==
  /\ pc[h] = "remove"
  /\ Commit(h, Removed(h) \cup frame[h].put)

-----------------------------------------------------------------------------
(* The backup.                                                              *)

\* setSafeInterval calls backup every five minutes: by then the backup file has
\* been read and the previous backup has been written.
StartBackup ==
  /\ up /\ backup = "idle"
  /\ dataChanged
  /\ loading = {} /\ flush = NoFile
  /\ backup' = "rename"
  /\ UNCHANGED <<memory, edits, flush, file, old, asked, named, up, bounds>>

\* The previous backup is moved, if there is one (ENOENT).
Rename ==
  /\ up /\ backup = "rename"
  /\ IF ~file.exists
     THEN backup' = "first" /\ UNCHANGED <<file, old>>
     ELSE backup' = "moved" /\ old' = TRUE /\ file' = NoFile
  /\ UNCHANGED <<memory, edits, flush, asked, named, up, bounds>>

\* Mutant: doingBackup stays set when the backup fails.
FailedStuck == "failed"

\* The finally block resets doingBackup.
Failed == "idle"

\* The file system refuses to move or remove a file.
FileFault ==
  /\ up /\ backup \in {"rename", "unlink"}
  /\ faults < MaxFaults
  /\ faults' = faults + 1
  /\ backup' = Failed
  /\ UNCHANGED <<memory, edits, flush, file, old, asked, named, up, begun, crashes>>

\* The stream gets the triples of the moment: later changes wait for the next
\* backup.
Snapshot ==
  /\ up /\ backup \in {"first", "moved"}
  /\ file' = FileOf({})
  /\ flush' = FileOf(store)
  /\ dataChanged' = FALSE
  /\ backup' = IF backup = "moved" THEN "unlink" ELSE "idle"
  /\ UNCHANGED <<store, loading, edits, old, asked, named, up, bounds>>

\* Mutant: the backup counts for all changes made before it has ended.
UnlinkedClean == FALSE

Unlinked == dataChanged

Unlink ==
  /\ up /\ backup = "unlink"
  /\ old' = FALSE
  /\ backup' = "idle"
  /\ dataChanged' = Unlinked
  /\ UNCHANGED <<store, loading, edits, flush, file, asked, named, up, bounds>>

\* The stream reaches the disk: nobody waits for it.
Flush ==
  /\ up /\ flush.exists
  /\ file' = flush
  /\ flush' = NoFile
  /\ UNCHANGED <<memory, edits, old, backup, asked, named, up, bounds>>

\* What was in memory is gone.  Of a backup that was being written nothing
\* reached the disk.
Crash ==
  /\ up /\ crashes < MaxCrashes
  /\ crashes' = crashes + 1
  /\ up' = FALSE
  /\ store' = {} /\ dataChanged' = FALSE /\ loading' = {}
  /\ pc' = [h \in Handler |-> "free"] /\ frame' = [h \in Handler |-> Idle]
  /\ flush' = NoFile /\ backup' = "idle"
  /\ UNCHANGED <<file, old, asked, named, begun, faults>>

\* FileBackupUCRulesStorage.initialize: only the backup file is looked at.
Restart ==
  /\ ~up
  /\ up' = TRUE
  /\ loading' = file.facts
  /\ UNCHANGED <<store, dataChanged, edits, disk, asked, named, bounds>>

\* The parser adds what it has read; requests are handled in the meantime.
Load ==
  /\ up /\ loading # {}
  /\ store' = store \cup loading
  /\ loading' = {}
  /\ frame' = Noticed(Nobody)
  /\ UNCHANGED <<dataChanged, pc, disk, asked, named, up, bounds>>

Init ==
  /\ store = {} /\ asked = {} /\ named = {}
  /\ pc = [h \in Handler |-> "free"]
  /\ frame = [h \in Handler |-> Idle]
  /\ dataChanged = FALSE
  /\ backup = "idle" /\ flush = NoFile /\ file = NoFile /\ old = FALSE
  /\ up = TRUE /\ loading = {}
  /\ begun = 0 /\ crashes = 0 /\ faults = 0

RequestStep ==
  \E q \in Request : AddRequest(q) \/ Decide(q, "accepted") \/ Decide(q, "denied")

PolicyStep ==
  \/ \E X \in Posted : AddPolicy(X)
  \/ \E p \in Policy :
       \/ \E update \in Update : BeginPatch(p, update)
       \/ BeginDelete(p)
       \/ \E X \in Posted : BeginPut(p, X)
  \/ \E h \in Handler : Isolate(h) \/ Patch(h) \/ Remove(h)

BackupStep == StartBackup \/ Rename \/ FileFault \/ Snapshot \/ Unlink \/ Flush

Next == RequestStep \/ PolicyStep \/ BackupStep \/ Crash \/ Restart \/ Load

Spec == Init /\ [][Next]_vars

\* The timer goes on, and the file system answers.  Nothing makes a client edit.
Fairness ==
  /\ WF_vars(StartBackup) /\ WF_vars(Rename) /\ WF_vars(Snapshot)
  /\ WF_vars(Unlink) /\ WF_vars(Flush) /\ WF_vars(Load)

FairSpec == Spec /\ Fairness

-----------------------------------------------------------------------------
(* Properties.                                                              *)

\* The type invariant of the store, the edits and the backup.
TypeOK ==
  /\ store \subseteq Fact /\ loading \subseteq Fact
  /\ asked \subseteq Request /\ named \subseteq asked
  /\ pc \in [Handler -> Point]
  /\ frame \in [Handler -> Frame]
  /\ dataChanged \in BOOLEAN /\ up \in BOOLEAN
  /\ backup \in {"idle", "rename", "first", "moved", "unlink"}
  /\ flush \in File /\ file \in File /\ old \in BOOLEAN
  /\ begun \in 0 .. MaxEdits /\ crashes \in 0 .. MaxCrashes /\ faults \in 0 .. MaxFaults

\* A request for access never has two statuses, whatever edits with old copies
\* of the store do around its decision (patchAccessRequest refuses to decide on
\* one that has), unless somebody wrote of it in a policy: nothing keeps a PUT
\* from giving it another status (putEntity).
OneStatus ==
  \A q \in Request \ named : \A a, b \in Statuses(q, store) : a = b

\* What the server considers saved, is: when no change is pending and nothing
\* is being read or written, the backup file has what the store has.
CleanIsSaved ==
  up /\ ~dataChanged /\ flush = NoFile /\ loading = {} => file.facts = store

\* An edit nobody interferes with takes out what belongs to its policy only, and
\* puts in what the client wrote only: the rest of the store comes out of its
\* copies as it went in (BaseController.patchEntity, deleteEntity, putEntity).
EditsKeepToTheirPolicy ==
  [][\A h \in Handler :
       pc[h] \in {"update", "remove"} /\ pc'[h] = "free" /\ up' /\ ~frame[h].stale =>
         /\ store \ store' \subseteq FactsOf(frame[h].policy, store)
         /\ store' \ store \subseteq frame[h].put]_vars

\* Every change is backed up in the end, unless the server crashes before:
\* a failed backup does not keep the next one from being made.
ChangesGetSaved == dataChanged ~> (~dataChanged \/ ~up)

\* access-request-management.md: "Requests can not be modified once accepted or
\* denied."
RequestsFinal ==
  [][\A q \in Request, status \in {"accepted", "denied"} :
       up' /\ <<q, status>> \in store => <<q, status>> \in store']_vars

=============================================================================
