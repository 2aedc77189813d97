---------------------------- MODULE ObjectStore ----------------------------
(***************************************************************************)
(* The content-addressed store: one file per digest, written to a          *)
(* temporary name, synced, hard-linked to its final name, and announced    *)
(* once the directory is synced.  Server processes store concurrently.     *)
(*                                                                         *)
(* A file has two lives: what a read sees now, and what is on disk when    *)
(* the power fails.  synced says that the bytes are on disk, named that    *)
(* the directory entry is.  A failed call or a dead process leaves the     *)
(* directory as it is; a temporary file left behind has a random name and  *)
(* meets nobody, so it is not in the model.                                *)
(***************************************************************************)
EXTENDS Naturals

CONSTANTS
  Digests,    \* contents that are stored, named by their digest
  Callers,    \* calls of store that can be in progress at once
  None,
  MaxFaults   \* bound: failed calls, power failures and damaged objects

ASSUME NoneAssumption   == None \notin Digests
ASSUME FaultsAssumption == MaxFaults \in Nat

VARIABLES
  bytes,     \* what a read of the object sees
  synced,    \* its bytes are on disk
  named,     \* its directory entry is on disk
  pc, want,  \* each call of store
  promised,  \* history: digests that were returned
  faults     \* history

vars == <<bytes, synced, named, pc, want, promised, faults>>

Steps == {"idle", "writing", "written", "flushed", "found", "linked", "kept"}

Init ==
  /\ bytes  = [d \in Digests |-> "absent"]
  /\ synced = [d \in Digests |-> FALSE]
  /\ named  = [d \in Digests |-> FALSE]
  /\ pc     = [c \in Callers |-> "idle"]
  /\ want   = [c \in Callers |-> None]
  /\ promised = {}
  /\ faults = 0

GoTo(c, step) == pc' = [pc EXCEPT ![c] = step]

Leave(c) == GoTo(c, "idle") /\ want' = [want EXCEPT ![c] = None]

-----------------------------------------------------------------------------
(* store.                                                                  *)

\* The temporary file is opened.
Open(c, d) ==
  /\ pc[c] = "idle"
  /\ GoTo(c, "writing")
  /\ want' = [want EXCEPT ![c] = d]
  /\ UNCHANGED <<bytes, synced, named, promised, faults>>

\* write and flush.
Write(c) ==
  /\ pc[c] = "writing"
  /\ GoTo(c, "written")
  /\ UNCHANGED <<bytes, synced, named, want, promised, faults>>

\* fsync of the temporary file.
Sync(c) ==
  /\ pc[c] = "written"
  /\ GoTo(c, "flushed")
  /\ UNCHANGED <<bytes, synced, named, want, promised, faults>>

Linkable(c) == pc[c] = "flushed"

\* os.link: the temporary file's bytes get the object's name, unless it is taken.
Link(c) ==
  LET d == want[c]
  IN /\ Linkable(c)
     /\ IF bytes[d] = "absent"
        THEN /\ bytes'  = [bytes EXCEPT ![d] = "whole"]
             /\ synced' = [synced EXCEPT ![d] = pc[c] = "flushed"]
             /\ GoTo(c, "linked")
        ELSE UNCHANGED <<bytes, synced>> /\ GoTo(c, "found")
     /\ UNCHANGED <<named, want, promised, faults>>

\* Mutant: an object found in place is taken to be durable.
AdoptedAsKept == "kept"

\* What follows once the object found in place proves to be the same.
Adopted == "linked"

\* FileExistsError: the object in place is read and compared with its digest.
Compare(c) ==
  /\ pc[c] = "found"
  /\ IF bytes[want[c]] = "whole"
     THEN GoTo(c, Adopted) /\ UNCHANGED want
     ELSE Leave(c)
  /\ UNCHANGED <<bytes, synced, named, promised, faults>>

\* _sync_objects_directory: every entry made so far is on disk.
SyncDirectory(c) ==
  /\ pc[c] = "linked"
  /\ named' = [d \in Digests |-> bytes[d] # "absent"]
  /\ GoTo(c, "kept")
  /\ UNCHANGED <<bytes, synced, want, promised, faults>>

\* The temporary name is removed and the digest returned.
Return(c) ==
  /\ pc[c] = "kept"
  /\ promised' = promised \cup {want[c]}
  /\ Leave(c)
  /\ UNCHANGED <<bytes, synced, named, faults>>

-----------------------------------------------------------------------------
(* Failure.                                                                *)

Fault == faults < MaxFaults /\ faults' = faults + 1

\* A system call fails, or the process dies, anywhere in a call.
Fail(c) ==
  /\ pc[c] # "idle"
  /\ Fault
  /\ Leave(c)
  /\ UNCHANGED <<bytes, synced, named, promised>>

\* Entries not yet on disk may be lost, bytes not yet on disk may be torn.
\* What the machine comes back with is what is on disk.
PowerFailure ==
  /\ Fault
  /\ \E lost \in SUBSET {d \in Digests : ~named[d]},
        torn \in SUBSET {d \in Digests : ~synced[d]} :
       bytes' = [d \in Digests |->
                  IF d \in lost THEN "absent"
                  ELSE IF bytes[d] # "absent" /\ d \in torn THEN "torn" ELSE bytes[d]]
  /\ synced' = [d \in Digests |-> bytes'[d] # "absent"]
  /\ named'  = [d \in Digests |-> bytes'[d] # "absent"]
  /\ pc'   = [c \in Callers |-> "idle"]
  /\ want' = [c \in Callers |-> None]
  /\ UNCHANGED promised

\* A stored file is changed from outside.
Damage(d) ==
  /\ bytes[d] = "whole"
  /\ Fault
  /\ bytes' = [bytes EXCEPT ![d] = "damaged"]
  /\ UNCHANGED <<synced, named, pc, want, promised>>

\* read: the object's bytes, FileNotFoundError or StorageIntegrityError.
ReadOutcome(d) ==
  CASE bytes[d] = "absent" -> "not_found"
    [] bytes[d] = "whole"  -> "bytes"
    [] OTHER               -> "integrity_error"

Next ==
  \/ \E c \in Callers :
       \/ \E d \in Digests : Open(c, d)
       \/ Write(c) \/ Sync(c) \/ Link(c) \/ Compare(c) \/ SyncDirectory(c) \/ Return(c)
       \/ Fail(c)
  \/ PowerFailure
  \/ \E d \in Digests : Damage(d)

Spec == Init /\ [][Next]_vars

-----------------------------------------------------------------------------
(* Properties.                                                             *)

\* Every variable has its type.
TypeOK ==
  /\ bytes  \in [Digests -> {"absent", "torn", "whole", "damaged"}]
  /\ synced \in [Digests -> BOOLEAN]
  /\ named  \in [Digests -> BOOLEAN]
  /\ pc     \in [Callers -> Steps]
  /\ want   \in [Callers -> Digests \cup {None}]
  /\ promised \subseteq Digests
  /\ faults \in 0..MaxFaults

\* What a call returned is on disk, bytes and name, also when the call only
\* found the object another call was still storing: no power failure takes it.
ReturnedIsDurable ==
  \A d \in promised : bytes[d] # "absent" /\ synced[d] /\ named[d]

\* An object that cannot be read back was damaged from outside: no
\* interleaving of calls, failures and power cuts leaves a partial one behind,
\* which, being content-addressed, no later store could replace.
NoTornObject ==
  \A d \in Digests : ReadOutcome(d) = "integrity_error" => bytes[d] = "damaged"

\* What is there is whole, and what was returned stays.
ObjectsAreSafe == ReturnedIsDurable /\ NoTornObject

-----------------------------------------------------------------------------
(* The promise this implements.                                            *)

Promise == INSTANCE ObjectPromise

\* Calls, failures and power cuts are each one step of the promise or none.
ImplementsPromise == Promise!Spec
=============================================================================
