--------------------------- MODULE StorageProofs ---------------------------
(***************************************************************************)
(* What holds of the two things the hub keeps: of ObjectStore, for every   *)
(* set of digests and callers and any number of faults, and of Migrations, *)
(* whatever the schema commands, their failures and the rows in between.   *)
(***************************************************************************)
EXTENDS ObjectStore, Migrations, TLAPS

-----------------------------------------------------------------------------
(* The object store.                                                       *)

\* A call in progress has a digest.
WantOK == \A c \in Callers : pc[c] # "idle" => want[c] \in Digests

\* An object in place has its bytes on disk; a call that linked or found one
\* goes on with an object that is there, and past the directory sync with one
\* whose name is on disk.
OnDisk ==
  /\ \A d \in Digests : bytes[d] # "absent" => synced[d]
  /\ \A c \in Callers : pc[c] \in {"found", "linked", "kept"} => bytes[want[c]] # "absent"
  /\ \A c \in Callers : pc[c] = "kept" => named[want[c]]

Untorn == \A d \in Digests : bytes[d] # "torn"

Inv == TypeOK /\ WantOK /\ OnDisk /\ Untorn /\ ReturnedIsDurable

LEMMA InitInv == Init => Inv
BY FaultsAssumption DEF Init, Inv, TypeOK, WantOK, OnDisk, Untorn, ReturnedIsDurable, Steps

\* The steps of one call.
LEMMA CallInv ==
  ASSUME Inv, NEW c \in Callers,
         \/ \E d \in Digests : Open(c, d)
         \/ Write(c) \/ Sync(c) \/ Fail(c)
  PROVE  Inv'
BY FaultsAssumption
   DEF Inv, TypeOK, WantOK, OnDisk, Untorn, ReturnedIsDurable, Steps,
       Open, Write, Sync, Fail, Fault, Leave, GoTo

LEMMA LinkInv ==
  ASSUME Inv, NEW c \in Callers, Link(c)
  PROVE  Inv'
<1>1. want[c] \in Digests /\ pc[c] = "flushed"
  BY DEF Inv, WantOK, Link, Linkable
<1>2. CASE bytes[want[c]] = "absent"
  <2>1. /\ bytes'  = [bytes EXCEPT ![want[c]] = "whole"]
        /\ synced' = [synced EXCEPT ![want[c]] = TRUE]
        /\ pc' = [pc EXCEPT ![c] = "linked"]
        /\ UNCHANGED <<named, want, promised, faults>>
    <3>1. (pc[c] = "flushed") = TRUE
      BY <1>1
    <3>2. QED
      BY <1>2, <3>1 DEF Link, GoTo
  <2>2. TypeOK' /\ WantOK'
    BY <1>1, <2>1 DEF Inv, TypeOK, WantOK, Steps
  <2>3. OnDisk' /\ Untorn' /\ ReturnedIsDurable'
    BY <1>1, <2>1 DEF Inv, TypeOK, OnDisk, Untorn, ReturnedIsDurable
  <2>4. QED
    BY <2>2, <2>3 DEF Inv
<1>3. CASE bytes[want[c]] # "absent"
  BY <1>1, <1>3 DEF Inv, TypeOK, WantOK, OnDisk, Untorn, ReturnedIsDurable, Steps, Link, GoTo
<1>4. QED
  BY <1>2, <1>3

LEMMA CompareInv ==
  ASSUME Inv, NEW c \in Callers, Compare(c)
  PROVE  Inv'
BY DEF Inv, TypeOK, WantOK, OnDisk, Untorn, ReturnedIsDurable, Steps, Compare, Adopted, Leave, GoTo

LEMMA SyncDirectoryInv ==
  ASSUME Inv, NEW c \in Callers, SyncDirectory(c)
  PROVE  Inv'
BY DEF Inv, TypeOK, WantOK, OnDisk, Untorn, ReturnedIsDurable, Steps, SyncDirectory, GoTo

LEMMA ReturnInv ==
  ASSUME Inv, NEW c \in Callers, Return(c)
  PROVE  Inv'
BY DEF Inv, TypeOK, WantOK, OnDisk, Untorn, ReturnedIsDurable, Steps, Return, Leave, GoTo

\* The power fails: every object in place is on disk already, so none is torn,
\* and none that was returned is lost.
LEMMA PowerFailureInv ==
  ASSUME Inv, PowerFailure
  PROVE  Inv'
<1>1. PICK lost \in SUBSET {d \in Digests : ~named[d]}, torn \in SUBSET {d \in Digests : ~synced[d]} :
        bytes' = [d \in Digests |->
                   IF d \in lost THEN "absent"
                   ELSE IF bytes[d] # "absent" /\ d \in torn THEN "torn" ELSE bytes[d]]
  BY DEF PowerFailure
<1>2. \A d \in Digests : bytes'[d] = IF d \in lost THEN "absent" ELSE bytes[d]
  BY <1>1 DEF Inv, OnDisk
<1>3. TypeOK' /\ WantOK'
  BY <1>1, <1>2, FaultsAssumption DEF Inv, TypeOK, WantOK, PowerFailure, Fault, Steps
<1>4. OnDisk' /\ Untorn'
  BY <1>2 DEF Inv, OnDisk, Untorn, PowerFailure
<1>5. ReturnedIsDurable'
  BY <1>2 DEF Inv, TypeOK, ReturnedIsDurable, PowerFailure
<1>6. QED
  BY <1>3, <1>4, <1>5 DEF Inv

LEMMA DamageInv ==
  ASSUME Inv, NEW d \in Digests, Damage(d)
  PROVE  Inv'
BY FaultsAssumption DEF Inv, TypeOK, WantOK, OnDisk, Untorn, ReturnedIsDurable, Damage, Fault

LEMMA NextInv == Inv /\ [Next]_vars => Inv'
<1> SUFFICES ASSUME Inv, [Next]_vars PROVE Inv'
  OBVIOUS
<1>1. CASE UNCHANGED vars
  BY <1>1 DEF vars, Inv, TypeOK, WantOK, OnDisk, Untorn, ReturnedIsDurable
<1>2. ASSUME NEW c \in Callers,
             \/ \E d \in Digests : Open(c, d)
             \/ Write(c) \/ Sync(c) \/ Link(c) \/ Compare(c) \/ SyncDirectory(c) \/ Return(c)
             \/ Fail(c)
      PROVE  Inv'
  BY <1>2, CallInv, LinkInv, CompareInv, SyncDirectoryInv, ReturnInv
<1>3. CASE PowerFailure
  BY <1>3, PowerFailureInv
<1>4. ASSUME NEW d \in Digests, Damage(d) PROVE Inv'
  BY <1>4, DamageInv
<1>5. QED
  BY <1>1, <1>2, <1>3, <1>4 DEF Next

LEMMA SafeInv == Spec => []Inv
<1>1. QED
  BY InitInv, NextInv, PTL DEF Spec

\* Every reachable state of the store is well typed.
THEOREM TypeCorrect == Spec => []TypeOK
<1>1. Inv => TypeOK
  BY DEF Inv
<1>2. QED
  BY <1>1, SafeInv, PTL

\* A digest that store returned names an object that is on disk, bytes and
\* name, whatever other calls and failures there were.
THEOREM ReturnedObjectsSurvive == Spec => []ReturnedIsDurable
<1>1. Inv => ReturnedIsDurable
  BY DEF Inv
<1>2. QED
  BY <1>1, SafeInv, PTL

\* No partial object is ever left behind.
THEOREM ObjectsAreWhole == Spec => []NoTornObject
<1>1. Inv => NoTornObject
  BY DEF Inv, TypeOK, Untorn, NoTornObject, ReadOutcome
<1>2. QED
  BY <1>1, SafeInv, PTL

\* Both together.
THEOREM ObjectsStaySafe == Spec => []ObjectsAreSafe
<1>1. ReturnedIsDurable /\ NoTornObject => ObjectsAreSafe
  BY DEF ObjectsAreSafe
<1>2. QED
  BY <1>1, ReturnedObjectsSurvive, ObjectsAreWhole, PTL

-----------------------------------------------------------------------------
(* Refinement.                                                             *)

LEMMA InitPromise == Init => Promise!Init
BY DEF Init, Promise!Init

\* A step of one call is silent until the link puts the object in place, and
\* until the return makes a promise of it.
LEMMA CallPromise ==
  ASSUME Inv, NEW c \in Callers,
         \/ \E d \in Digests : Open(c, d)
         \/ Write(c) \/ Sync(c) \/ Link(c) \/ Compare(c) \/ SyncDirectory(c) \/ Return(c)
         \/ Fail(c)
  PROVE  [Promise!Next]_Promise!vars
<1>1. CASE Link(c) /\ bytes[want[c]] = "absent"
  <2>1. want[c] \in Digests
    BY <1>1 DEF Inv, WantOK, Link, Linkable
  <2>2. Promise!Appear(want[c])
    BY <1>1 DEF Link, Promise!Appear
  <2>3. QED
    BY <2>1, <2>2 DEF Promise!Next
<1>2. CASE Return(c)
  <2>1. want[c] \in Digests /\ bytes[want[c]] # "absent"
    BY <1>2 DEF Inv, WantOK, OnDisk, Return
  <2>2. Promise!Promise(want[c])
    BY <1>2, <2>1 DEF Return, Promise!Promise
  <2>3. QED
    BY <2>1, <2>2 DEF Promise!Next
<1>3. CASE ~(Link(c) /\ bytes[want[c]] = "absent") /\ ~Return(c)
  BY <1>3 DEF Promise!vars, Open, Write, Sync, Link, Compare, SyncDirectory, Fail
<1>4. QED
  BY <1>1, <1>2, <1>3

LEMMA PowerFailurePromise ==
  ASSUME Inv, PowerFailure
  PROVE  [Promise!Next]_Promise!vars
<1>1. PICK lost \in SUBSET {d \in Digests : ~named[d]}, torn \in SUBSET {d \in Digests : ~synced[d]} :
        bytes' = [d \in Digests |->
                   IF d \in lost THEN "absent"
                   ELSE IF bytes[d] # "absent" /\ d \in torn THEN "torn" ELSE bytes[d]]
  BY DEF PowerFailure
<1>2. bytes' = [d \in Digests |-> IF d \in lost THEN "absent" ELSE bytes[d]]
  BY <1>1 DEF Inv, OnDisk
<1>3. lost \in SUBSET (Digests \ promised)
  BY DEF Inv, ReturnedIsDurable
<1>4. promised' = promised
  BY DEF PowerFailure
<1>5. Promise!Lose
  BY <1>2, <1>3, <1>4 DEF Promise!Lose
<1>6. QED
  BY <1>5 DEF Promise!Next

LEMMA StepPromise == Inv /\ [Next]_vars => [Promise!Next]_Promise!vars
<1> SUFFICES ASSUME Inv, [Next]_vars PROVE [Promise!Next]_Promise!vars
  OBVIOUS
<1>1. CASE UNCHANGED vars
  BY <1>1 DEF vars, Promise!vars
<1>2. ASSUME NEW d \in Digests, Damage(d) PROVE [Promise!Next]_Promise!vars
  BY <1>2 DEF Damage, Promise!Damage, Promise!Next
<1>3. QED
  BY <1>1, <1>2, CallPromise, PowerFailurePromise DEF Next

\* The store keeps its promise: files, names, calls and power failures refine
\* an immutable set of promised objects.
THEOREM StoreKeepsPromise == Spec => ImplementsPromise
<1>1. QED
  BY InitPromise, StepPromise, SafeInv, PTL DEF Spec, ImplementsPromise, Promise!Spec

-----------------------------------------------------------------------------
(* The schema.                                                             *)

USE DEF Newest

\* What the script S has put there and left there, up to and without statement k.
PutBy(S, k, p) ==
  \E j \in 1..(k - 1) : p \in S[j].adds /\ \A i \in (j + 1)..(k - 1) : p \notin S[i].removes

Puts(S, p) == PutBy(S, Len(S) + 1, p)

\* What it has removed, if only for a while.
RemovedBy(S, k, p) == \E j \in 1..(k - 1) : p \in S[j].removes

\* The rows a database at revision r is not to have.
Barred(r) ==
  (IF r < 2 THEN {"identity"} ELSE {"legacy_author"})
  \cup (IF r < 3 THEN {"provenance"} ELSE {"legacy_artifact"})
  \cup (IF r < 4 THEN {"job"} ELSE {})

\* A command is in progress, and is an upgrade.
Working == command # Idle
Up == command.kind = "upgrade"

\* The hub is down while a command works on the revision next to the one
\* recorded, and up only at the head.
AtWork ==
  /\ ~Working => rollback = NoTransaction
  /\ Working =>
       /\ ~serving /\ ~upgraded
       /\ IF Up THEN command.of = revision + 1 /\ command.of <= command.target
                ELSE command.of = revision /\ command.target < command.of
       /\ command.at \in 1..(Len(Script) + 1)
  /\ serving => upgraded
  /\ upgraded => revision = Newest
  /\ cutShort \subseteq 1..revision

\* An open transaction goes back to the same revision and no fewer rows, and is
\* open from the first copy on.
Undoable ==
  /\ Working /\ rollback = NoTransaction => \A j \in 1..(command.at - 1) : ~Script[j].copies
  /\ rollback # NoTransaction =>
       /\ rows \subseteq rollback[2]
       /\ rollback[2] \cap Barred(revision) = {}
       /\ rollback[3] = revision
       /\ command.at > 1
       /\ IF Up THEN Trusted(revision, cutShort) \subseteq rollback[1]
                ELSE Trusted(revision, cutShort \cup {command.of}) \subseteq rollback[1]

\* No row is there that the revision bars or that the command has refused.
Screened ==
  /\ rows \cap Barred(revision) = {}
  /\ Working /\ command.at > 1 => rows \cap Script[1].refuses = {}

\* What is trusted is there, but for what the script has removed so far; what the
\* script has put there is there.
Built ==
  IF Working
  THEN /\ \A p \in Trusted(revision, cutShort) : p \in pieces \/ RemovedBy(Script, command.at, p)
       /\ \A p : PutBy(Script, command.at, p) => p \in pieces
  ELSE Trusted(revision, cutShort) \subseteq pieces

SchemaInv == SchemaTypeOK /\ AtWork /\ Undoable /\ Screened /\ Built

\* The fields of each kind of statement.
LEMMA Fields ==
  /\ \A R :
     /\ Refuse(R).adds = {} /\ Refuse(R).removes = {}
     /\ Refuse(R).refuses = R /\ Refuse(R).copies = FALSE
  /\ \A p :
     /\ Create(p).adds = {p} /\ Create(p).removes = {}
     /\ Create(p).refuses = {} /\ Create(p).copies = FALSE
  /\ \A t, p :
     /\ AddTo(t, p).adds = {p} /\ AddTo(t, p).removes = {}
     /\ AddTo(t, p).refuses = {} /\ AddTo(t, p).copies = FALSE
  /\ \A p :
     /\ Drop(p).adds = {} /\ Drop(p).removes = {p}
     /\ Drop(p).refuses = {} /\ Drop(p).copies = FALSE
  /\ \A p :
     /\ DropIfExists(p).adds = {} /\ DropIfExists(p).removes = {p}
     /\ DropIfExists(p).refuses = {} /\ DropIfExists(p).copies = FALSE
  /\ \A t :
     /\ DropTable(t).adds = {} /\ DropTable(t).removes = {t} \cup Attached[t]
     /\ DropTable(t).refuses = {} /\ DropTable(t).copies = FALSE
  /\ \A t, n, a, r :
     /\ Rebuild(t, n, a, r).adds = a /\ Rebuild(t, n, a, r).removes = {n} \cup r
     /\ Rebuild(t, n, a, r).refuses = {} /\ Rebuild(t, n, a, r).copies = TRUE
  /\ LET s == AddActiveAuthor
         IN s.adds = {"initial_status", "active_author"} /\ s.removes = {} /\ s.refuses = {} /\ s.copies = FALSE
  /\ LET s == DropActiveAuthor
         IN s.adds = {} /\ s.removes = {"initial_status", "active_author"} /\ s.refuses = {} /\ s.copies = FALSE
BY DEF AddActiveAuthor, DropActiveAuthor, Refuse, Create, AddTo, Drop, DropIfExists, DropTable,
       Rebuild, Nothing

LEMMA AttachedIs ==
  /\ Attached["artifacts"] = Columns \cup {"artifact_guards"}
  /\ Attached["authors"] = {"identity_revision"}
  /\ Attached["skill_versions"] = {"version_guards", "initial_status", "active_author", "requires_scan"}
  /\ Attached["skill_transition_audit"] = {"audit_guards", "evidence_guards"}
  /\ Attached["scan_jobs"] = {"job_guards"}
  /\ Attached["scan_events"] = {"event_guards"}
BY DEF Attached

LEMMA Pieces ==
  /\ PiecesOf[1] = Base /\ PiecesOf[2] = Identity /\ PiecesOf[3] = Columns /\ PiecesOf[4] = Scanning
  /\ PiecesAt(0) = {}
  /\ \A n \in 1..4 : PiecesAt(n) = PiecesAt(n - 1) \cup PiecesOf[n]
<1>1. PiecesOf[1] = Base /\ PiecesOf[2] = Identity /\ PiecesOf[3] = Columns /\ PiecesOf[4] = Scanning
  BY DEF PiecesOf
<1>2. PiecesAt(0) = {}
  BY DEF PiecesAt
<1>3. ASSUME NEW n \in 1..4 PROVE PiecesAt(n) = PiecesAt(n - 1) \cup PiecesOf[n]
  <2>1. 1..n = 1..(n - 1) \cup {n}
    OBVIOUS
  <2> QED  BY <2>1 DEF PiecesAt
<1> QED  BY <1>1, <1>2, <1>3


-----------------------------------------------------------------------------

\* All that the proof asks of the statements of revision n.  Going up they build
\* the revision's pieces and put back what they remove of earlier ones, they remove
\* nothing before the transaction is open, and refuse the rows that are barred from
\* then on.  Going down they put back what they remove of earlier revisions, and
\* the rows that go with a table were refused or are not there.
GoodUpgrade(n, S) ==
  /\ Len(S) \in Nat \ {0}
  /\ \A j \in 1..Len(S) : S[j].adds \subseteq Parts
  /\ \A p \in PiecesOf[n] : Puts(S, p)
  /\ \A j \in 1..Len(S) : \A p \in S[j].removes :
       /\ p \in PiecesAt(n - 1) => Puts(S, p)
       /\ RowsIn(p) = {}
       /\ \E i \in 1..j : S[i].copies
  /\ Barred(n) \subseteq Barred(n - 1) \cup S[1].refuses

GoodDowngrade(n, S) ==
  /\ Len(S) \in Nat \ {0}
  /\ \A j \in 1..Len(S) : S[j].adds \subseteq Parts
  /\ \A j \in 1..Len(S) : \A p \in S[j].removes :
       /\ p \in PiecesAt(n - 1) => Puts(S, p)
       /\ \A kind \in RowsIn(p) \cap History : kind \in Barred(n) \/ (j > 1 /\ kind \in S[1].refuses)
  /\ Barred(n - 1) \subseteq Barred(n) \cup S[1].refuses

LEMMA AllParts ==
  /\ Base \subseteq Parts /\ Identity \subseteq Parts /\ Columns \subseteq Parts /\ Scanning \subseteq Parts
  /\ {"new_authors", "new_credentials"} \subseteq Parts
<1>1. PiecesAt(4) = PiecesAt(3) \cup Scanning /\ PiecesAt(3) = PiecesAt(2) \cup Columns
      /\ PiecesAt(2) = PiecesAt(1) \cup Identity /\ PiecesAt(1) = Base
  BY Pieces
<1> QED  BY <1>1 DEF Parts

LEMMA Good1 == GoodUpgrade(1, Upgrade1) /\ GoodDowngrade(1, Downgrade1)
<1>1. Len(Upgrade1) = 9 /\ Len(Downgrade1) = 5
  BY DEF Upgrade1, Downgrade1
<1>2. \A j \in 1..9 : Upgrade1[j].removes = {} /\ Upgrade1[j].adds \subseteq Base
  BY Fields DEF Upgrade1, Base
<1>3. ASSUME NEW p \in Base PROVE \E j \in 1..9 : p \in Upgrade1[j].adds
  BY Fields DEF Upgrade1, Base
<1>4. \A p \in Base : Puts(Upgrade1, p)
  BY <1>1, <1>2, <1>3 DEF Puts, PutBy
<1>5. \A j \in 1..5 : Downgrade1[j].adds = {}
  BY Fields DEF Downgrade1
<1>6. PiecesAt(0) = {}
  BY Pieces
<1>7. Barred(0) = History /\ Barred(1) = History
  BY DEF Barred, History
<1>8. GoodUpgrade(1, Upgrade1)
  BY <1>1, <1>2, <1>4, <1>7, Pieces, AllParts DEF GoodUpgrade
<1>9. GoodDowngrade(1, Downgrade1)
  BY <1>1, <1>5, <1>6, <1>7 DEF GoodDowngrade
<1> QED  BY <1>8, <1>9

LEMMA Good2 == GoodUpgrade(2, Upgrade2) /\ GoodDowngrade(2, Downgrade2)
<1>1. Len(Upgrade2) = 11 /\ Len(Downgrade2) = 11
  BY DEF Upgrade2, Downgrade2
<1>2. \A j \in 1..11 : \A p \in Upgrade2[j].removes :
        \/ j = 3 /\ p = "new_authors"
        \/ j = 5 /\ p = "new_credentials"
        \/ j = 9 /\ p = "initial_status"
  BY Fields DEF Upgrade2
<1>3. \A j \in 1..11 : Upgrade2[j].adds \subseteq Parts /\ Downgrade2[j].adds \subseteq Parts
  BY Fields, AllParts DEF Upgrade2, Downgrade2, Identity, Base
<1>4. ASSUME NEW p \in Identity \cup {"initial_status"}
      PROVE \E j \in 3..11 : p \in Upgrade2[j].adds /\ j # 9
  BY Fields DEF Upgrade2, Identity
<1>4a. "initial_status" \in Upgrade2[10].adds
  BY Fields DEF Upgrade2
<1>5. \A p \in Identity : Puts(Upgrade2, p)
  BY <1>1, <1>2, <1>4 DEF Puts, PutBy, Identity
<1>6. Puts(Upgrade2, "initial_status")
  BY <1>1, <1>2, <1>4a DEF Puts, PutBy
<1>7. Upgrade2[3].copies
  BY Fields DEF Upgrade2
<1>8. \A j \in 1..11 : \A p \in Downgrade2[j].removes :
        p \in Identity \cup {"new_authors", "new_credentials"} \/ (j = 3 /\ p = "initial_status")
  BY Fields DEF Downgrade2, Identity
<1>9. Puts(Downgrade2, "initial_status")
  <2>1. "initial_status" \in Downgrade2[4].adds
    BY Fields DEF Downgrade2
  <2> QED  BY <1>1, <1>8, <2>1 DEF Puts, PutBy, Identity
<1>10. \A j \in 1..11 : \A p \in Downgrade2[j].removes : RowsIn(p) = {} \/ (RowsIn(p) = {"identity"} /\ j > 1)
  BY Fields DEF Downgrade2, RowsIn
<1>11. PiecesAt(1) = Base
  BY Pieces
<1>12. Upgrade2[1].refuses = {"legacy_author", "identity"} /\ Downgrade2[1].refuses = {"identity"}
  BY Fields DEF Upgrade2, Downgrade2
<1>13. GoodUpgrade(2, Upgrade2)
  <2>1. \A j \in 1..11 : \A p \in Upgrade2[j].removes :
       /\ p \in PiecesAt(1) => Puts(Upgrade2, p)
       /\ RowsIn(p) = {}
       /\ \E i \in 1..j : Upgrade2[i].copies
    BY <1>2, <1>6, <1>7, <1>11 DEF Base, RowsIn
  <2>2. Barred(2) \subseteq Barred(1) \cup Upgrade2[1].refuses
    BY <1>12 DEF Barred
  <2> QED  BY <1>1, <1>3, <1>5, <2>1, <2>2, Pieces DEF GoodUpgrade
<1>14. GoodDowngrade(2, Downgrade2)
  <2>1. \A j \in 1..11 : \A p \in Downgrade2[j].removes : p \in PiecesAt(1) => Puts(Downgrade2, p)
    BY <1>8, <1>9, <1>11 DEF Base, Identity
  <2>2. Barred(1) \subseteq Barred(2) \cup Downgrade2[1].refuses
    BY <1>12 DEF Barred
  <2> QED  BY <1>1, <1>3, <1>10, <1>12, <2>1, <2>2 DEF GoodDowngrade
<1> QED  BY <1>13, <1>14

LEMMA Good3 == GoodUpgrade(3, Upgrade3) /\ GoodDowngrade(3, Downgrade3)
<1>1. Len(Upgrade3) = 5 /\ Len(Downgrade3) = 5
  BY DEF Upgrade3, Downgrade3
<1>2. \A j \in 1..5 : Upgrade3[j].removes = {} /\ Upgrade3[j].adds \subseteq Columns
  BY Fields DEF Upgrade3, Columns
<1>3. ASSUME NEW p \in Columns PROVE \E j \in 1..5 : p \in Upgrade3[j].adds
  BY Fields DEF Upgrade3, Columns
<1>4. \A p \in Columns : Puts(Upgrade3, p)
  BY <1>1, <1>2, <1>3 DEF Puts, PutBy
<1>5. \A j \in 1..5 : Downgrade3[j].adds = {} /\ Downgrade3[j].removes \subseteq Columns
  BY Fields DEF Downgrade3, Columns
<1>6. PiecesAt(2) \cap Columns = {}
  BY Pieces DEF Base, Identity, Columns
<1>7. \A p \in Columns : RowsIn(p) = {}
  BY DEF Columns, RowsIn
<1>8. Upgrade3[1].refuses = {"legacy_artifact", "provenance"} /\ Downgrade3[1].refuses = Upgrade3[1].refuses
  BY Fields DEF Upgrade3, Downgrade3
<1>9. Barred(3) \subseteq Barred(2) \cup Upgrade3[1].refuses /\ Barred(2) \subseteq Barred(3) \cup Downgrade3[1].refuses
  BY <1>8 DEF Barred
<1>10. GoodUpgrade(3, Upgrade3)
  BY <1>1, <1>2, <1>4, <1>9, Pieces, AllParts DEF GoodUpgrade
<1>11. GoodDowngrade(3, Downgrade3)
  BY <1>1, <1>5, <1>6, <1>7, <1>9 DEF GoodDowngrade
<1> QED  BY <1>10, <1>11

LEMMA Good4 == GoodUpgrade(4, Upgrade4) /\ GoodDowngrade(4, Downgrade4)
<1>1. Len(Upgrade4) = 6 /\ Len(Downgrade4) = 7
  BY DEF Upgrade4, Downgrade4
<1>2. \A j \in 1..6 : Upgrade4[j].removes = {} /\ Upgrade4[j].adds \subseteq Scanning
  BY Fields DEF Upgrade4, Scanning
<1>3. ASSUME NEW p \in Scanning PROVE \E j \in 1..6 : p \in Upgrade4[j].adds
  BY Fields DEF Upgrade4, Scanning
<1>4. \A p \in Scanning : Puts(Upgrade4, p)
  BY <1>1, <1>2, <1>3 DEF Puts, PutBy
<1>5. \A j \in 1..7 : Downgrade4[j].adds = {} /\ Downgrade4[j].removes \subseteq Scanning
  BY Fields, AttachedIs DEF Downgrade4, Scanning
<1>6. PiecesAt(3) \cap Scanning = {}
  BY Pieces DEF Base, Identity, Columns, Scanning
<1>7. \A p \in Scanning : RowsIn(p) \subseteq {"job"}
  BY DEF Scanning, RowsIn
<1>8. Downgrade4[1].removes = {} /\ Downgrade4[1].refuses = {"job"}
  BY Fields DEF Downgrade4
<1>9. Barred(4) \subseteq Barred(3) /\ Barred(3) \subseteq Barred(4) \cup {"job"}
  BY DEF Barred
<1>10. GoodUpgrade(4, Upgrade4)
  BY <1>1, <1>2, <1>4, <1>9, Pieces, AllParts DEF GoodUpgrade
<1>11. GoodDowngrade(4, Downgrade4)
  BY <1>1, <1>5, <1>6, <1>7, <1>8, <1>9 DEF GoodDowngrade
<1> QED  BY <1>10, <1>11

LEMMA AllGood == \A n \in 1..4 : GoodUpgrade(n, Upgrades[n]) /\ GoodDowngrade(n, Downgrades[n])
BY Good1, Good2, Good3, Good4 DEF Upgrades, Downgrades

-----------------------------------------------------------------------------

LEMMA ScriptGood ==
  ASSUME SchemaTypeOK, Working
  PROVE  /\ command.of \in 1..4 /\ command.at \in Nat \ {0} /\ command.target \in 0..4
         /\ command.kind \in {"upgrade", "downgrade"}
         /\ Up => Script = Upgrades[command.of] /\ GoodUpgrade(command.of, Script)
         /\ ~Up => command.kind = "downgrade" /\ Script = Downgrades[command.of] /\ GoodDowngrade(command.of, Script)
<1>1. command \in Commands
  BY DEF SchemaTypeOK, Working
<1>2. command.of \in 1..4 /\ command.at \in Nat \ {0} /\ command.target \in 0..4 /\ command.kind \in {"upgrade", "downgrade"}
  BY <1>1 DEF Commands
<1> QED  BY <1>2, AllGood DEF Script, Up

LEMMA Fresh == \A c \in Commands : c # Idle
BY DEF Commands, Idle

\* Nothing is done yet of a script that begins.
LEMMA Beginning == \A S, p : ~PutBy(S, 1, p) /\ ~RemovedBy(S, 1, p)
BY DEF PutBy, RemovedBy

LEMMA InitSchema == SchemaInit => SchemaInv
<1> SUFFICES ASSUME SchemaInit PROVE SchemaInv
  OBVIOUS
<1>1. Trusted(0, {}) = {}
  BY Pieces DEF Trusted
<1>2. SchemaTypeOK
  <2>1. 0 \in 0..4 /\ {} \subseteq Parts /\ {} \subseteq Rows /\ {} \subseteq 1..4
    OBVIOUS
  <2> QED  BY <2>1, Zenon DEF SchemaInit, SchemaTypeOK
<1>3. AtWork /\ Undoable /\ Screened
  BY DEF SchemaInit, AtWork, Undoable, Screened, Working
<1>4. Built
  BY <1>1 DEF SchemaInit, Built, Working
<1> QED  BY <1>2, <1>3, <1>4 DEF SchemaInv

LEMMA GiveSchema ==
  ASSUME SchemaInv, NEW kind \in {"upgrade", "downgrade"}, NEW target \in 0..4, Give(kind, target)
  PROVE  SchemaInv'
<1> USE DEF SchemaInv
<1>0. command = Idle /\ ~serving /\ revision \in 0..4 /\ rollback = NoTransaction /\ ~Working
      /\ UNCHANGED <<pieces, rows, revision, rollback, serving, cutShort>>
  BY DEF Give, SchemaTypeOK, AtWork, Working, database
<1>1. CASE target = revision
  <2>1. command' = Idle /\ upgraded' = (target = 4)
    BY <1>1 DEF Give
  <2>2. SchemaTypeOK' /\ AtWork'
    BY <1>0, <1>1, <2>1 DEF SchemaTypeOK, AtWork, Working
  <2>3. Undoable' /\ Screened' /\ Built'
    BY <1>0, <2>1 DEF Undoable, Screened, Built, Working
  <2> QED  BY <2>2, <2>3
<1>2. CASE target # revision
  <2> DEFINE c == [kind |-> kind, target |-> target, at |-> 1,
                   of |-> IF kind = "upgrade" THEN revision + 1 ELSE revision]
  <2>1. command' = c /\ upgraded' = FALSE
    BY <1>2 DEF Give
  <2>2. IF kind = "upgrade" THEN target > revision ELSE target < revision
    BY <1>0, <1>2 DEF Give
  <2>3. c \in Commands
    BY <1>0, <2>2 DEF Commands
  <2>4. SchemaTypeOK'
    BY <1>0, <2>1, <2>3 DEF SchemaTypeOK
  <2>5. Working'
    BY <2>1, <2>3, Fresh DEF Working
  <2>6. Len(Script)' \in Nat \ {0}
    BY <2>4, <2>5, AllGood DEF Script, SchemaTypeOK, Commands, Working, GoodUpgrade, GoodDowngrade
  <2>7. AtWork'
    BY <1>0, <2>1, <2>2, <2>5, <2>6 DEF AtWork, Up, SchemaTypeOK
  <2>8. Undoable' /\ Screened'
    BY <1>0, <2>1 DEF Undoable, Screened
  <2>9. Built'
    <3>1. Trusted(revision, cutShort) \subseteq pieces
      BY <1>0 DEF Built
    <3>2. command'.at = 1
      BY <2>1
    <3> QED  BY <1>0, <2>5, <3>1, <3>2, Beginning DEF Built
  <2> QED  BY <2>4, <2>7, <2>8, <2>9
<1> QED  BY <1>1, <1>2

LEMMA Goes ==
  ASSUME SchemaInv, Execute
  PROVE  /\ Working /\ Working' /\ command' = [command EXCEPT !.at = @ + 1] /\ Script' = Script
         /\ command'.at = command.at + 1 /\ command'.of = command.of /\ command'.kind = command.kind
         /\ command'.target = command.target
         /\ command' \in Commands
         /\ command.at \in 1..Len(Script) /\ Len(Script) \in Nat
         /\ Accepts(Script[command.at])
         /\ rollback' = IF Script[command.at].copies /\ rollback = NoTransaction THEN database ELSE rollback
         /\ pieces' = (pieces \ Script[command.at].removes) \cup Script[command.at].adds
         /\ rows' = rows \ UNION {RowsIn(p) : p \in Script[command.at].removes}
         /\ UNCHANGED <<revision, serving, upgraded, cutShort>>
<1> USE DEF SchemaInv
<1>1. Working /\ command \in Commands
  BY DEF Execute, Working, SchemaTypeOK
<1>2. command' = [command EXCEPT !.at = @ + 1]
  BY DEF Execute
<1>3. /\ command'.at = command.at + 1 /\ command'.of = command.of /\ command'.kind = command.kind
      /\ command'.target = command.target /\ command' \in Commands
  BY <1>1, <1>2 DEF Commands
<1>4. Working' /\ Script' = Script
  BY <1>3, Fresh DEF Working, Script
<1>5. Len(Script) \in Nat /\ command.at \in 1..Len(Script)
  BY <1>1, ScriptGood DEF GoodUpgrade, GoodDowngrade, Execute
<1>6. rollback' = IF Script[command.at].copies /\ rollback = NoTransaction THEN database ELSE rollback
  BY DEF Execute, Begin
<1> QED  BY <1>1, <1>2, <1>3, <1>4, <1>5, <1>6 DEF Execute

\* One more statement.
LEMMA OneMore ==
  ASSUME NEW S, NEW k \in Nat \ {0}, NEW p
  PROVE  /\ PutBy(S, k + 1, p) <=> p \in S[k].adds \/ (PutBy(S, k, p) /\ p \notin S[k].removes)
         /\ RemovedBy(S, k + 1, p) <=> p \in S[k].removes \/ RemovedBy(S, k, p)
<1>1. 1..(k + 1 - 1) = 1..(k - 1) \cup {k} /\ k \notin 1..(k - 1) /\ (k + 1)..(k + 1 - 1) = {}
  OBVIOUS
<1>2. \A j \in 1..(k - 1) : (j + 1)..(k + 1 - 1) = (j + 1)..(k - 1) \cup {k}
  OBVIOUS
<1>3. PutBy(S, k + 1, p) <=> p \in S[k].adds \/ (PutBy(S, k, p) /\ p \notin S[k].removes)
  BY <1>1, <1>2 DEF PutBy
<1> QED  BY <1>1, <1>3 DEF RemovedBy

LEMMA DatabaseParts ==
  /\ database # NoTransaction
  /\ database[1] = pieces /\ database[2] = rows /\ database[3] = revision
BY DEF database, NoTransaction

\* Until a copy opens the transaction, an upgrade takes nothing away, and a
\* downgrade only what it is known to take.
LEMMA NotYetTaken ==
  ASSUME SchemaInv, Working, rollback = NoTransaction
  PROVE  IF Up THEN Trusted(revision, cutShort) \subseteq pieces
               ELSE Trusted(revision, cutShort \cup {command.of}) \subseteq pieces
<1> USE DEF SchemaInv
<1>1. \A j \in 1..(command.at - 1) : ~Script[j].copies
  BY DEF Undoable
<1>2. command.at \in 1..(Len(Script) + 1) /\ Len(Script) \in Nat
  BY ScriptGood DEF AtWork, GoodUpgrade, GoodDowngrade
<1>3. 1..(command.at - 1) \subseteq 1..Len(Script)
  BY <1>2
<1>4. CASE Up
  <2>1. \A p : ~RemovedBy(Script, command.at, p)
    <3> SUFFICES ASSUME NEW p, NEW j \in 1..(command.at - 1), p \in Script[j].removes PROVE FALSE
      BY DEF RemovedBy
    <3>1. PICK i \in 1..j : Script[i].copies
      BY <1>3, <1>4, ScriptGood DEF GoodUpgrade
    <3>2. i \in 1..(command.at - 1)
      BY <1>2
    <3> QED  BY <1>1, <3>1, <3>2
  <2> QED  BY <1>4, <2>1 DEF Built
<1>5. CASE ~Up
  <2>1. \A p : RemovedBy(Script, command.at, p) => Touched(Downgrades[command.of], p)
    BY <1>3, <1>5, ScriptGood DEF RemovedBy, Touched
  <2> QED  BY <1>5, <2>1 DEF Built, Trusted
<1> QED  BY <1>4, <1>5

LEMMA ExecuteSchema == ASSUME SchemaInv, Execute PROVE SchemaInv'
<1> DEFINE s == Script[command.at]
<1>1. /\ Working /\ Working' /\ Script' = Script /\ Up' = Up
      /\ command'.at = command.at + 1 /\ command'.of = command.of /\ command'.target = command.target
      /\ command' \in Commands
      /\ command.at \in 1..Len(Script) /\ Len(Script) \in Nat
      /\ Accepts(s)
      /\ rollback' = IF s.copies /\ rollback = NoTransaction THEN database ELSE rollback
      /\ pieces' = (pieces \ s.removes) \cup s.adds
      /\ rows' \subseteq rows
      /\ UNCHANGED <<revision, serving, upgraded, cutShort>>
  BY Goes DEF Up
<1>2. s.adds \subseteq Parts
  BY <1>1, ScriptGood DEF GoodUpgrade, GoodDowngrade, SchemaInv
<1>3. SchemaTypeOK'
  <2>1. rollback' = NoTransaction \/ rollback' \in (SUBSET Parts) \X (SUBSET Rows) \X (0..4)
    BY <1>1 DEF SchemaInv, SchemaTypeOK, database
  <2>2. pieces' \subseteq Parts /\ rows' \subseteq Rows
    BY <1>1, <1>2 DEF SchemaInv, SchemaTypeOK
  <2> QED  BY <1>1, <2>1, <2>2 DEF SchemaInv, SchemaTypeOK
<1>4. AtWork'
  BY <1>1 DEF SchemaInv, AtWork
<1>5. Screened'
  BY <1>1 DEF SchemaInv, Screened, Accepts
<1>6. Undoable'
  <2>1. ASSUME rollback' = NoTransaction, NEW j \in 1..(command'.at - 1) PROVE ~Script[j].copies
    <3>1. rollback = NoTransaction /\ ~s.copies
      BY <1>1, <2>1, DatabaseParts
    <3>2. j = command.at \/ j \in 1..(command.at - 1)
      BY <1>1
    <3> QED  BY <1>1, <3>1, <3>2 DEF SchemaInv, Undoable
  <2> DEFINE Kept(r) == /\ rows' \subseteq r[2] /\ r[2] \cap Barred(revision) = {} /\ r[3] = revision
                        /\ IF Up THEN Trusted(revision, cutShort) \subseteq r[1]
                                 ELSE Trusted(revision, cutShort \cup {command.of}) \subseteq r[1]
  <2>2. ASSUME rollback' # NoTransaction PROVE Kept(rollback')
    <3>1. CASE rollback # NoTransaction
      <4>1. rollback' = rollback
        BY <1>1, <3>1
      <4>2. Kept(rollback)
        BY <1>1, <3>1 DEF SchemaInv, Undoable
      <4> QED  BY <4>1, <4>2
    <3>2. CASE rollback = NoTransaction
      <4>1. rollback' = database
        BY <1>1, <2>2, <3>2
      <4>2. rows \cap Barred(revision) = {}
        BY DEF SchemaInv, Screened
      <4>3. IF Up THEN Trusted(revision, cutShort) \subseteq pieces
                  ELSE Trusted(revision, cutShort \cup {command.of}) \subseteq pieces
        BY <1>1, <3>2, NotYetTaken
      <4>4. Kept(database)
        BY <1>1, <4>2, <4>3, DatabaseParts
      <4> QED  BY <4>1, <4>4
    <3> QED  BY <3>1, <3>2
  <2>3. command'.at > 1
    BY <1>1
  <2> HIDE DEF Kept
  <2>4. Kept(rollback') => (/\ rows' \subseteq rollback'[2]
         /\ rollback'[2] \cap Barred(revision') = {}
         /\ rollback'[3] = revision'
         /\ IF Up' THEN Trusted(revision', cutShort') \subseteq rollback'[1]
                ELSE Trusted(revision', cutShort' \cup {command'.of}) \subseteq rollback'[1])
    BY <1>1 DEF Kept
  <2> QED  BY <1>1, <2>1, <2>2, <2>3, <2>4 DEF Undoable
<1>7. Built'
  <2>1. ASSUME NEW p \in Trusted(revision, cutShort) PROVE p \in pieces' \/ RemovedBy(Script, command'.at, p)
    BY <1>1, <2>1, OneMore DEF SchemaInv, Built
  <2>2. ASSUME NEW p, PutBy(Script, command'.at, p) PROVE p \in pieces'
    BY <1>1, <2>2, OneMore DEF SchemaInv, Built
  <2> QED  BY <1>1, <2>1, <2>2 DEF Built
<1> QED  BY <1>3, <1>4, <1>5, <1>6, <1>7 DEF SchemaInv

\* A script that is through has done what it is for, and only that.
LEMMA Through ==
  ASSUME SchemaInv, Record
  PROVE  /\ Working /\ revision' \in 0..4 /\ cutShort' \subseteq 1..revision'
         /\ Trusted(revision', cutShort') \subseteq pieces
         /\ rows \cap Barred(revision') = {}
<1> USE DEF SchemaInv
<1>1. Working
  BY DEF Record, Working
<1>2. /\ command.of \in 1..4 /\ revision \in 0..4
      /\ Len(Script) \in Nat \ {0} /\ command.at = Len(Script) + 1
  BY <1>1, ScriptGood DEF AtWork, GoodUpgrade, GoodDowngrade, Record, Due, SchemaTypeOK
<1>3. \A p : PutBy(Script, command.at, p) = Puts(Script, p) /\ RemovedBy(Script, command.at, p) = Touched(Script, p)
  <2>1. 1..(command.at - 1) = 1..Len(Script)
    BY <1>2
  <2> QED  BY <1>2, <2>1 DEF Puts, RemovedBy, Touched
<1>4. \A p \in Trusted(revision, cutShort) : p \in pieces \/ Touched(Script, p)
  BY <1>1, <1>3 DEF Built
<1>5. \A p : Puts(Script, p) => p \in pieces
  BY <1>1, <1>3 DEF Built
<1>6. rows \cap Barred(revision) = {} /\ rows \cap Script[1].refuses = {}
  BY <1>1, <1>2 DEF Screened
<1>7. CASE Up
  <2>1. /\ revision' = command.of /\ command.of = revision + 1 /\ cutShort' = cutShort
        /\ GoodUpgrade(command.of, Script) /\ cutShort \subseteq 1..revision
    BY <1>1, <1>2, <1>7, ScriptGood DEF Record, Up, AtWork
  <2>2. ASSUME NEW p \in Trusted(command.of, cutShort) PROVE p \in pieces
    <3>1. CASE p \in PiecesOf[command.of]
      BY <1>5, <2>1, <3>1 DEF GoodUpgrade
    <3>2. CASE p \in PiecesAt(revision)
      <4>1. p \in Trusted(revision, cutShort)
        BY <3>2 DEF Trusted
      <4>2. CASE Touched(Script, p)
        BY <1>2, <1>5, <2>1, <3>2, <4>2 DEF Touched, GoodUpgrade
      <4> QED  BY <1>4, <4>1, <4>2
    <3>3. p \in PiecesAt(command.of) /\ command.of - 1 = revision
      BY <1>2, <2>1 DEF Trusted
    <3> QED  BY <1>2, <3>1, <3>2, <3>3, Pieces
  <2>3. rows \cap Barred(command.of) = {}
    BY <1>2, <1>6, <2>1 DEF GoodUpgrade
  <2> QED  BY <1>1, <1>2, <2>1, <2>2, <2>3
<1>8. CASE ~Up
  <2>1. /\ revision' = command.of - 1 /\ command.of = revision /\ cutShort' = cutShort \ {command.of}
        /\ Script = Downgrades[command.of]
        /\ GoodDowngrade(command.of, Script) /\ cutShort \subseteq 1..revision
    BY <1>1, <1>2, <1>8, ScriptGood DEF Record, Up, AtWork
  <2>2. ASSUME NEW p \in Trusted(revision - 1, cutShort') PROVE p \in pieces
    <3>1. p \in PiecesAt(revision - 1) /\ p \in PiecesAt(revision)
      BY <1>2, <2>1, Pieces DEF Trusted
    <3>2. CASE Touched(Script, p)
      BY <1>2, <1>5, <2>1, <3>1, <3>2 DEF Touched, GoodDowngrade
    <3>3. CASE ~Touched(Script, p)
      <4>1. p \in Trusted(revision, cutShort)
        BY <2>1, <3>1, <3>3 DEF Trusted
      <4> QED  BY <1>4, <3>3, <4>1
    <3> QED  BY <3>2, <3>3
  <2>3. rows \cap Barred(revision - 1) = {}
    BY <1>2, <1>6, <2>1 DEF GoodDowngrade
  <2>4. \A n \in 1..revision : n # revision => n \in 1..(revision - 1)
    BY <1>2
  <2>5. revision' = revision - 1 /\ revision' \in 0..4 /\ cutShort' \subseteq 1..(revision - 1)
    BY <1>2, <2>1, <2>4
  <2> QED  BY <1>1, <2>2, <2>3, <2>5
<1> QED  BY <1>7, <1>8

LEMMA RecordSchema == ASSUME SchemaInv, Record PROVE SchemaInv'
<1>1. /\ Working /\ revision' \in 0..4 /\ cutShort' \subseteq 1..revision'
      /\ Trusted(revision', cutShort') \subseteq pieces
      /\ rows \cap Barred(revision') = {}
  BY Through
<1>2. rollback' = NoTransaction /\ UNCHANGED <<pieces, rows, serving>>
  BY DEF Record
<1>3. command \in Commands /\ ~serving /\ ~upgraded
  BY <1>1 DEF SchemaInv, SchemaTypeOK, AtWork, Working
<1>4. CASE revision' = command.target
  <2>1. command' = Idle /\ upgraded' = (revision' = 4)
    BY <1>4 DEF Record
  <2>2. ~Working'
    BY <2>1 DEF Working
  <2>3. SchemaTypeOK'
    BY <1>1, <1>2, <2>1 DEF SchemaInv, SchemaTypeOK
  <2>4. AtWork'
    BY <1>1, <1>2, <1>3, <2>1, <2>2 DEF AtWork
  <2>5. Undoable' /\ Screened' /\ Built'
    BY <1>1, <1>2, <2>2 DEF Undoable, Screened, Built
  <2> QED  BY <2>3, <2>4, <2>5 DEF SchemaInv
<1>5. CASE revision' # command.target
  <2>1. /\ command' = [command EXCEPT !.at = 1, !.of = IF command.kind = "upgrade" THEN @ + 1 ELSE @ - 1]
        /\ upgraded' = upgraded
        /\ revision' = IF command.kind = "upgrade" THEN command.of ELSE command.of - 1
    BY <1>5 DEF Record
  <2>2. /\ command.of \in 1..4 /\ command.target \in 0..4 /\ command.kind \in {"upgrade", "downgrade"}
        /\ IF command.kind = "upgrade" THEN command.of <= command.target ELSE command.target < command.of
    BY <1>1, <1>3 DEF Commands, SchemaInv, AtWork, Up
  <2>3. /\ command'.at = 1 /\ command'.kind = command.kind /\ command'.target = command.target
        /\ command'.of = IF command.kind = "upgrade" THEN command.of + 1 ELSE command.of - 1
    BY <1>3, <2>1 DEF Commands
  <2>4. command'.of \in 1..4
    BY <1>5, <2>1, <2>2, <2>3
  <2>5. command' \in Commands
    <3> DEFINE next == IF command.kind = "upgrade" THEN command.of + 1 ELSE command.of - 1
    <3>1. next \in 1..4
      BY <2>3, <2>4
    <3>2. command' = [command EXCEPT !.at = 1, !.of = next]
      BY <2>1
    <3>3. command' = [kind |-> command.kind, target |-> command.target, at |-> 1, of |-> next]
      BY <1>3, <3>2 DEF Commands
    <3> HIDE DEF next
    <3> QED  BY <2>2, <3>1, <3>3 DEF Commands
  <2>6. Working'
    BY <2>5, Fresh DEF Working
  <2>7. SchemaTypeOK'
    <3>1. cutShort' \subseteq 1..4
      BY <1>1
    <3> QED  BY <1>1, <1>2, <2>1, <2>5, <3>1 DEF SchemaInv, SchemaTypeOK
  <2>8. Len(Script)' \in Nat \ {0}
    BY <2>2, <2>3, <2>4, AllGood DEF Script, GoodUpgrade, GoodDowngrade
  <2>9. AtWork'
    BY <1>1, <1>2, <1>3, <1>5, <2>1, <2>2, <2>3, <2>6, <2>8 DEF AtWork, Up
  <2>10. Undoable' /\ Screened'
    BY <1>1, <1>2, <2>3 DEF Undoable, Screened
  <2>11. Built'
    BY <1>1, <1>2, <2>3, <2>6, Beginning DEF Built
  <2> QED  BY <2>7, <2>9, <2>10, <2>11 DEF SchemaInv
<1> QED  BY <1>4, <1>5

LEMMA BreakOffSchema == ASSUME SchemaInv, BreakOff PROVE SchemaInv'
<1> USE DEF SchemaInv
<1>1. /\ Working /\ ~Working' /\ rollback' = NoTransaction /\ UNCHANGED <<serving, upgraded>>
      /\ command' = Idle
  BY DEF BreakOff, Working
<1>2. /\ revision' = revision
      /\ rows' \cap Barred(revision) = {} /\ rows' \subseteq Rows /\ pieces' \subseteq Parts
  <2>1. CASE rollback = NoTransaction
    BY <2>1 DEF BreakOff, Screened, SchemaTypeOK, database
  <2>2. CASE rollback # NoTransaction
    <3>1. pieces' = rollback[1] /\ rows' = rollback[2] /\ revision' = rollback[3]
      BY <2>2 DEF BreakOff
    <3>2. rollback \in (SUBSET Parts) \X (SUBSET Rows) \X (0..4)
      BY <2>2 DEF SchemaTypeOK
    <3> QED  BY <2>2, <3>1, <3>2 DEF Undoable
  <2> QED  BY <2>1, <2>2
<1>3. /\ cutShort \subseteq 1..revision /\ revision \in 0..4 /\ command.of \in 1..4
      /\ ~Up => command.kind = "downgrade" /\ command.of = revision
      /\ command.at \in Nat \ {0}
  BY <1>1, ScriptGood DEF AtWork, SchemaTypeOK
<1>4. cutShort' = IF ~Up /\ command.at > 1 THEN cutShort \cup {command.of} ELSE cutShort
  BY <1>3 DEF BreakOff, Up
<1>5. cutShort' \subseteq 1..revision
  <2>1. ~Up => command.of \in 1..revision
    BY <1>3
  <2> QED  BY <1>3, <1>4, <2>1
<1>6. Trusted(revision, cutShort') \subseteq pieces'
  <2>1. CASE rollback = NoTransaction /\ (Up \/ command.at > 1)
    <3>1. pieces' = pieces
      BY <2>1 DEF BreakOff, database
    <3> QED  BY <1>1, <1>4, <2>1, <3>1, NotYetTaken
  <2>2. CASE rollback # NoTransaction
    <3>1. pieces' = rollback[1]
      BY <2>2 DEF BreakOff
    <3> QED  BY <1>4, <2>2, <3>1 DEF Undoable
  <2>3. CASE rollback = NoTransaction /\ ~Up /\ command.at = 1
    <3>1. pieces' = pieces /\ cutShort' = cutShort
      BY <1>4, <2>3 DEF BreakOff, database
    <3> QED  BY <1>1, <2>3, <3>1, Beginning DEF Built
  <2> QED  BY <1>3, <2>1, <2>2, <2>3
<1>7. SchemaTypeOK'
  <2>1. cutShort' \subseteq 1..4
    BY <1>3, <1>5
  <2> QED  BY <1>1, <1>2, <2>1 DEF SchemaTypeOK
<1>8. AtWork'
  BY <1>1, <1>2, <1>5 DEF AtWork
<1>9. Undoable' /\ Screened' /\ Built'
  BY <1>1, <1>2, <1>6 DEF Undoable, Screened, Built
<1> QED  BY <1>7, <1>8, <1>9

\* Who writes rows writes none the revision bars.
LEMMA WriteSchema ==
  ASSUME SchemaInv, Register \/ PublishNow \/ \E row \in Rows : Earlier(row)
  PROVE  SchemaInv'
<1> USE DEF SchemaInv
<1>1. /\ UNCHANGED <<pieces, revision, rollback, command, serving, upgraded, cutShort>>
      /\ rollback = NoTransaction
  BY DEF Register, PublishNow, Earlier, Insert
<1>2. ~Working
  BY DEF Register, PublishNow, Earlier, AtWork, Working
<1>3. rows' \subseteq Rows /\ rows' \cap Barred(revision) = {}
  <2>1. CASE Register \/ PublishNow
    <3>1. revision = 4 /\ rows' \subseteq rows \cup {"identity", "provenance", "job"}
      BY <2>1 DEF Register, PublishNow, Insert, AtWork
    <3> QED  BY <3>1 DEF SchemaTypeOK, Screened, Rows, Barred
  <2>2. ASSUME NEW row \in Rows, Earlier(row) PROVE rows' \subseteq Rows /\ rows' \cap Barred(revision) = {}
    <3>1. rows' = rows \cup {row} /\ row \notin Barred(revision)
      BY <2>2 DEF Earlier, Insert, Barred
    <3> QED  BY <3>1 DEF SchemaTypeOK, Screened
  <2> QED  BY <2>1, <2>2
<1>4. SchemaTypeOK' /\ AtWork'
  BY <1>1, <1>3 DEF SchemaTypeOK, AtWork, Working, Script, Up
<1>5. Undoable' /\ Screened' /\ Built'
  BY <1>1, <1>2, <1>3 DEF Undoable, Screened, Built, Working
<1> QED  BY <1>4, <1>5

LEMMA ServeSchema == ASSUME SchemaInv, Serve \/ Stop \/ UNCHANGED schemaVars PROVE SchemaInv'
<1>1. UNCHANGED <<pieces, rows, revision, rollback, command, upgraded, cutShort>>
  BY DEF Serve, Stop, schemaVars, database
<1>2. serving' \in BOOLEAN /\ (serving' => serving \/ (upgraded /\ ~Working))
  <2>1. CASE Serve
    BY <2>1 DEF Serve, Working
  <2>2. CASE Stop
    BY <2>2 DEF Stop
  <2>3. CASE UNCHANGED schemaVars
    <3>1. serving' = serving
      BY <2>3 DEF schemaVars
    <3> QED  BY <3>1 DEF SchemaInv, SchemaTypeOK
  <2> QED  BY <2>1, <2>2, <2>3
<1>3. SchemaTypeOK' /\ AtWork'
  BY <1>1, <1>2 DEF SchemaInv, SchemaTypeOK, AtWork, Working, Script, Up
<1>4. Undoable' /\ Screened' /\ Built'
  BY <1>1 DEF SchemaInv, Undoable, Screened, Built, Working, Script, Up
<1> QED  BY <1>3, <1>4 DEF SchemaInv

LEMMA StepSchema == SchemaInv /\ [SchemaNext]_schemaVars => SchemaInv'
BY GiveSchema, ExecuteSchema, RecordSchema, BreakOffSchema, WriteSchema, ServeSchema DEF SchemaNext

LEMMA SchemaAlways == SchemaSpec => []SchemaInv
BY InitSchema, StepSchema, PTL DEF SchemaSpec

\* The schema is well typed: a command is at a statement of a revision there is,
\* and what a transaction would go back to is a database.
THEOREM SchemaTypeCorrect == SchemaSpec => []SchemaTypeOK
<1>1. SchemaInv => SchemaTypeOK
  BY DEF SchemaInv
<1> QED  BY <1>1, SchemaAlways, PTL

\* A hub that serves has every table, column and trigger but for what a downgrade
\* takes that was cut short, and no row is taken over by a revision that cannot
\* vouch for it, whatever fails or dies between any two statements.
THEOREM DatabaseIsSound == SchemaSpec => []DatabaseSound
<1>1. ASSUME SchemaInv PROVE DatabaseSound
  <2>1. ServedWhole
    BY <1>1 DEF SchemaInv, ServedWhole, AtWork, Built
  <2>2. NothingPromoted
    <3>1. rows \cap Barred(revision) = {} /\ revision \in 0..4
      BY <1>1 DEF SchemaInv, Screened, SchemaTypeOK
    <3> QED  BY <3>1 DEF NothingPromoted, Barred
  <2> QED  BY <2>1, <2>2 DEF DatabaseSound
<1> QED  BY <1>1, SchemaAlways, PTL

\* What a statement takes away is no history.
LEMMA ExecuteKeeps ==
  ASSUME SchemaInv, Execute, NEW kind \in History, kind \in rows
  PROVE  kind \in rows'
<1> DEFINE s == Script[command.at]
<1>1. /\ Working /\ command.at \in 1..Len(Script)
      /\ rows' = rows \ UNION {RowsIn(p) : p \in s.removes}
  BY Goes
<1>2. ASSUME NEW p \in s.removes, kind \in RowsIn(p) PROVE FALSE
  <2>1. CASE Up
    BY <1>1, <1>2, <2>1, ScriptGood DEF SchemaInv, GoodUpgrade
  <2>2. CASE ~Up
    <3>1. kind \in Barred(command.of) \/ (command.at > 1 /\ kind \in Script[1].refuses)
      BY <1>1, <1>2, <2>2, ScriptGood DEF SchemaInv, GoodDowngrade
    <3>2. command.of = revision
      BY <1>1, <2>2 DEF SchemaInv, AtWork
    <3> QED  BY <1>1, <3>1, <3>2 DEF SchemaInv, Screened
  <2> QED  BY <2>1, <2>2
<1> QED  BY <1>1, <1>2

\* No statement, no rollback and no hub discards identity history, provenance or
\* scan jobs: what a downgrade drops was counted before, and nobody writes meanwhile.
THEOREM HistoryStays == SchemaSpec => HistoryKept
<1>1. ASSUME SchemaInv, [SchemaNext]_schemaVars, NEW kind \in History, kind \in rows
      PROVE  kind \in rows'
  <2>1. CASE Execute
    BY <1>1, <2>1, ExecuteKeeps
  <2>2. CASE BreakOff
    BY <1>1, <2>2 DEF BreakOff, SchemaInv, Undoable, database
  <2>3. CASE ~Execute /\ ~BreakOff
    BY <1>1, <2>3 DEF SchemaNext, Give, Record, Serve, Stop, Register, PublishNow, Earlier, Insert,
                      schemaVars, database
  <2> QED  BY <2>1, <2>2, <2>3
<1>2. SchemaInv /\ [SchemaNext]_schemaVars => [\A kind \in History : kind \in rows => kind \in rows']_schemaVars
  BY <1>1
<1> QED  BY <1>2, SchemaAlways, PTL DEF SchemaSpec, HistoryKept
=============================================================================
