--------------------------- MODULE PodRegistration ---------------------------
(****************************************************************************)
(* The callers of the UMA client for the resources of one account of the    *)
(* resource server:                                                         *)
(*   - PatUpdater walks over the pods of the account when it gets new       *)
(*     settings, one recursive call per resource (updateRecursive);         *)
(*   - ResourceRegistrar reacts to resources that come and go.              *)
(* Both are under packages/css/src.  The settings, (issuer, credentials),   *)
(* are read and written as a pair here; AccountSeeding is about the two     *)
(* halves.  An Account of UmaClient is such a pair, and the pairs of this   *)
(* account are at different issuers.  Calls are made on occasion of a walk  *)
(* or of a change, instead of whenever as in UmaClient.                     *)
(****************************************************************************)
EXTENDS UmaClient, Sequences

CONSTANTS
  Posts,        \* the settings the user enters, one update after another
  MaxActs       \* bound: updates, and resources the users create or delete

ASSUME PodAssumption ==
  /\ Posts \in Seq(Account)
  /\ MaxActs \in Nat
  /\ \A a, b \in Account : IssuerOf[a] = IssuerOf[b] => a = b

\* A resource is in the root container, through those it is in; none exists
\* without the container it is in.
ASSUME TreeAssumption ==
  /\ \A r \in Resource : Root \in Lineage[r]
  /\ Upward(InitExists)

VARIABLES
  posted,   \* how many of them were entered so far
  walks,    \* the calls of updateRecursive that are under way
  changes,  \* how many resources users created or deleted (bounds the model)
  gone,     \* history: resources that were deleted
  raced     \* history: those that were being registered at that moment

podVars == <<posted, walks, changes, gone, raced>>
allVars == <<vars, podVars>>

\* What findUmaSettings returns.
Settings == IF posted = 0 THEN Nobody ELSE Posts[posted]

Children(r) == {c \in exists \ {Root} : Parent[c] = r}

\* Mutant: the root container counts as one, being a storage as well.
PodsAndRoot == Container

\* podStore.findPods: the pods are next to each other in the root container.
Pods == {r \in Resource \ {Root} : Parent[r] = Root}

\* The settings of the nth update, and those it replaces.
New(n) == Posts[n]
Previous(n) == Posts[n - 1]

\* unregister   to call deleteResource with the previous settings
\* register     to call registerResource with the new ones
\* waiting      for that call
\* list         registered, to look for members
Walk(n, r, point) == [by |-> n, res |-> r, at |-> point, call |-> NoCall]

WalkType == [by : Nat, res : Resource \ {Root}, call : Call \cup {NoCall},
             at : {"unregister", "register", "waiting", "list"}]

Entered(n, r) == Walk(n, r, IF n = 1 THEN "register" ELSE "unregister")

-----------------------------------------------------------------------------
(* PatUpdater.                                                              *)

\* updateSettings: the walks over the pods are not awaited.
UpdateSettings ==
  /\ posted < Len(Posts) /\ posted + changes < MaxActs
  /\ posted' = posted + 1
  /\ walks' = walks \cup {Entered(posted + 1, r) : r \in Pods}
  /\ UNCHANGED <<changes, gone, raced, vars>>

\* The next call of the client; NewCall gives it the identity Pick(Free).
CallClient(w) ==
  /\ w \in walks
  /\ \/ w.at = "unregister" /\ Unregister(w.res, Previous(w.by))
     \/ w.at = "register" /\ Reregister(w.res, New(w.by))
  /\ walks' = (walks \ {w}) \cup {[w EXCEPT !.at = "waiting", !.call = Pick(Free)]}
  /\ UNCHANGED <<posted, changes, gone, raced>>

\* t ends in this step, and its promise is resolved.
Resolves(t) ==
  \/ frame[t].kind = "delete" /\ pc[t] = "answered"
  \/ frame[t].kind = "register" /\ pc[t] = "join" /\ ~frame[t].bad

\* What is left of w when the call it waits for ends: a rejection ends it too.
Continued(t, w) ==
  IF ~Resolves(t) THEN {}
  ELSE IF frame[t].kind = "delete" THEN {Walk(w.by, w.res, "register")}
  ELSE IF w.res \in Container THEN {Walk(w.by, w.res, "list")}
  ELSE {}

\* A step of a call, and of the walk that waits for it when it is the last.
ClientStep(t) ==
  LET waiting == {w \in walks : w.call = t} IN
  /\ Step(t)
  /\ walks' = IF pc'[t] = "free"
              THEN (walks \ waiting) \cup UNION {Continued(t, w) : w \in waiting}
              ELSE walks
  /\ UNCHANGED <<posted, changes, gone, raced>>

\* Mutant: only the containers among the members are walked over.
ContainersOf(r) == Children(r) \cap Container

\* The members the representation of r lists.
Members(r) == Children(r)

ListMembers(w) ==
  /\ w \in walks /\ w.at = "list"
  /\ walks' = (walks \ {w}) \cup
       (IF w.res \in exists THEN {Entered(w.by, c) : c \in Members(w.res)} ELSE {})
  /\ UNCHANGED <<posted, changes, gone, raced, vars>>

-----------------------------------------------------------------------------
(* ResourceRegistrar: without settings it throws, and logs that it did.     *)

Changed ==
  /\ posted + changes < MaxActs
  /\ changes' = changes + 1
  /\ UNCHANGED <<posted, walks>>

UserCreates(r) ==
  /\ r \notin exists /\ Parent[r] \in exists
  /\ \/ Settings # Nobody /\ Create(r, Settings)
     \/ Settings = Nobody /\ Unseen(r)
  /\ Changed
  /\ UNCHANGED <<gone, raced>>

\* What is being registered, or is to be before long.
Ongoing ==
  {frame[t].res : t \in {u \in Call : frame[u].kind = "register"}} \cup
  {w.res : w \in walks}

\* A registration of r is under way, or one of something that was below r and
\* will register r as its parent, not knowing an identifier of r.
Underway(r) ==
  \E x \in Ongoing : x = r \/ (r \notin umaIdStore /\ r \in Lineage[x])

\* A pod is not deleted, another container when it is empty.
UserDeletes(r) ==
  /\ r \in exists \ Pods /\ Children(r) = {}
  /\ \/ Settings # Nobody /\ Delete(r, Settings)
     \/ Settings = Nobody /\ Unseen(r)
  /\ Changed
  /\ gone' = gone \cup {r}
  /\ raced' = IF Underway(r) THEN raced \cup {r} ELSE raced

-----------------------------------------------------------------------------
(* The specification.                                                       *)

PodInit ==
  /\ Init
  /\ posted = 0
  /\ walks = {}
  /\ changes = 0
  /\ gone = {}
  /\ raced = {}

\* Lost answers and PATs that expire are left to UmaClient.
PodNext ==
  \/ UpdateSettings
  \/ \E w \in walks : CallClient(w) \/ ListMembers(w)
  \/ \E t \in Call : ClientStep(t)
  \/ \E r \in Resource \ {Root} : UserCreates(r) \/ UserDeletes(r)

PodSpec == PodInit /\ [][PodNext]_allVars

-----------------------------------------------------------------------------
(* Properties.                                                              *)

\* The type invariant of the callers: a walk that waits does so for a call
\* that works on its resource (updateRecursive awaits what it calls).
PodTypeOK ==
  /\ posted \in 0..Len(Posts)
  /\ changes \in 0..MaxActs
  /\ raced \subseteq gone /\ gone \subseteq Resource \ Pods
  /\ walks \subseteq WalkType
  /\ \A w \in walks :
       /\ w.by \in 1..posted
       /\ w.at = "unregister" => w.by > 1
       /\ w.at = "waiting" <=> w.call # NoCall
       /\ w.at = "waiting" => /\ pc[w.call] # "free"
                              /\ frame[w.call].kind \in {"register", "delete"}
                              /\ frame[w.call].res = w.res

\* Nothing of the server's is going on.
AtRest == walks = {} /\ \A t \in Call : pc[t] = "free"

Known(r) == {i \in Issuer : registrations[i][r] # Nobody}

\* r or a container it is in was deleted before.
Touched(r) == Lineage[r] \cap gone # {}

\* 'All user's resources will be registered recursively at the issuer using
\* these credentials' (PatUpdateHandler.ts 22-23), after the first update: the
\* walk over the pods and the events of resources that come and go meanwhile
\* leave none out.  What has been deleted before is another matter: its
\* identifier stays in umaIdStore.
NothingMissed ==
  AtRest /\ posted = 1 =>
    \A r \in exists \ {Root} : Touched(r) \/
      /\ registrations[IssuerOf[Settings]][r] = Settings
      /\ r \in relations[IssuerOf[Settings]]

\* 'Updates the UMA resource registrations when resources are added/removed'
\* (ResourceRegistrar.ts 14): what was deleted is not registered any more,
\* unless it was being registered when that happened.
RemovedAreUnregistered ==
  AtRest /\ posted <= 1 =>
    \A r \in gone \ exists : r \in raced \/ Known(r) = {}

\* The words of NothingMissed for any update (PatUpdateHandler.ts 22-23).
SettingsApplied ==
  AtRest /\ posted > 0 /\ changes = 0 =>
    \A r \in exists \ {Root} : registrations[IssuerOf[Settings]][r] = Settings

=============================================================================
