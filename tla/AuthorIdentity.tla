--------------------------- MODULE AuthorIdentity ---------------------------
(***************************************************************************)
(* Author identities: the authors, author_keys, author_credentials and     *)
(* author_identity_audit tables, and the administrator's requests that     *)
(* register, rotate and revoke.                                            *)
(*                                                                         *)
(* A rotation or revocation reads the author, key and credential first and *)
(* inserts afterwards.  SQLite begins the transaction at the first INSERT, *)
(* so the reads are a step of their own and other requests commit between  *)
(* them and the write; the audit row's triggers then check and apply the   *)
(* change.  Rows are "pending" only inside a transaction, and no code sets *)
(* a credential to "expired", so neither status appears.                   *)
(***************************************************************************)
EXTENDS Naturals, Sequences, FiniteSets

CONSTANTS
  Authors,   \* external subjects that may be registered
  Keys,      \* author signing keys (public_key_b64 and its fingerprint)
  Creds,     \* bearer credentials the service may issue
  Requests,  \* administrator requests in flight
  Idems,     \* idempotency keys; each audit row uses one up, which bounds a run
  None

ASSUME NoneAssumption == None \notin Authors \cup Keys \cup Creds \cup Idems

VARIABLES
  status, revision, publicKey,  \* authors
  keyOwner, keyStatus,          \* author_keys
  credOwner, credStatus,        \* author_credentials
  audit,                        \* author_identity_audit, in transition_number order
  pending                       \* what each request read before it writes

rowVars == <<status, revision, publicKey, keyOwner, keyStatus, credOwner, credStatus, audit>>
vars    == <<rowVars, pending>>

Rotations == {"key_rotated", "credential_rotated"}
EventTypes == {"registered", "author_revoked"} \cup Rotations
KeyRef  == Keys \cup {None}
CredRef == Creds \cup {None}
AuditRows == [event : EventTypes, priorKey : KeyRef, newKey : KeyRef,
              priorCred : CredRef, newCred : CredRef, idem : Idems]
Reads == [author : Authors, revision : Nat, row : AuditRows]
Idle  == [author |-> None]

Init ==
  /\ status     = [a \in Authors |-> "absent"]
  /\ revision   = [a \in Authors |-> 0]
  /\ publicKey  = [a \in Authors |-> None]
  /\ keyOwner   = [k \in Keys |-> None]
  /\ keyStatus  = [k \in Keys |-> "unused"]
  /\ credOwner  = [c \in Creds |-> None]
  /\ credStatus = [c \in Creds |-> "unused"]
  /\ audit      = [a \in Authors |-> <<>>]
  /\ pending    = [r \in Requests |-> Idle]

-----------------------------------------------------------------------------
(* The tables.                                                             *)

ActiveKeys(a)  == {k \in Keys : keyOwner[k] = a /\ keyStatus[k] = "active"}
ActiveCreds(a) == {c \in Creds : credOwner[c] = a /\ credStatus[c] = "active"}

\* The actor_idempotency constraint; every request carries the one
\* administrator's actor id.
Unspent(i) == \A a \in Authors : \A n \in 1..Len(audit[a]) : audit[a][n].idem # i

\* Mutant: the audit row takes the revision the author has when it is written.
NumberAtWrite(read) == revision[read.author] + 1

\* transition_number of the audit row: one more than the revision read.
Number(read) == read.revision + 1

\* The INSERTs before the audit row: a key and a credential are unique among
\* all that were ever registered, by any author.
Insertable(read) ==
  /\ read.row.newKey # None => keyStatus[read.row.newKey] = "unused"
  /\ read.row.newCred # None => credStatus[read.row.newCred] = "unused"

\* author_identity_audit_validate_ownership, whose conditions the triggers
\* that apply the change state again: the revision read is the author's, and
\* the key and credential read are still in force.
Owned(read) ==
  LET a == read.author  row == read.row
  IN /\ status[a] = "active"
     /\ revision[a] + 1 = Number(read)
     /\ row.priorKey # None => row.priorKey \in ActiveKeys(a)
     /\ row.priorCred # None => row.priorCred \in ActiveCreds(a)
     /\ row.event = "author_revoked" /\ row.priorCred = None => ActiveCreds(a) = {}

Accepted(read) == Unspent(read.row.idem) /\ Insertable(read) /\ Owned(read)

\* Mutant: what is superseded stays active.
RestatedKeepsPrior(table, prior, new) ==
  [x \in DOMAIN table |-> IF x = new THEN "active" ELSE table[x]]

\* The status of every key (credential) once a row revokes one and activates one.
Restated(table, prior, new) ==
  [x \in DOMAIN table |-> IF x = new THEN "active"
                          ELSE IF x = prior THEN "revoked" ELSE table[x]]

\* The owner of every key (credential) once a is given a new one.
Given(table, new, a) == [x \in DOMAIN table |-> IF x = new THEN a ELSE table[x]]

\* author_identity_audit_apply_*: the row and the change it stands for.
Apply(a, row, number) ==
  /\ audit' = [audit EXCEPT ![a] = Append(@, row)]
  /\ revision' = [revision EXCEPT ![a] = number]
  /\ status' = [status EXCEPT ![a] = IF row.event = "author_revoked" THEN "revoked" ELSE "active"]
  /\ publicKey' = IF row.newKey = None THEN publicKey ELSE [publicKey EXCEPT ![a] = row.newKey]
  /\ keyOwner'  = Given(keyOwner, row.newKey, a)
  /\ keyStatus' = Restated(keyStatus, row.priorKey, row.newKey)
  /\ credOwner'  = Given(credOwner, row.newCred, a)
  /\ credStatus' = Restated(credStatus, row.priorCred, row.newCred)

-----------------------------------------------------------------------------
(* Requests.                                                               *)

\* Tokens come from the system's random source: none is generated twice.
Generated(c) ==
  /\ credStatus[c] = "unused"
  /\ \A r \in Requests : pending[r] # Idle => pending[r].row.newCred # c

\* register_author inserts first, so all of it is one transaction.
Register(a, k, c, i) ==
  /\ status[a] = "absent"
  /\ keyStatus[k] = "unused" /\ Generated(c)
  /\ Unspent(i)
  /\ Apply(a, [event |-> "registered", priorKey |-> None, newKey |-> k,
               priorCred |-> None, newCred |-> c, idem |-> i], 1)
  /\ UNCHANGED pending

\* What a request goes on with after its reads.
Proceeds(r, a, row) ==
  /\ pending[r] = Idle
  /\ status[a] = "active"
  /\ pending' = [pending EXCEPT ![r] = [author |-> a, revision |-> revision[a], row |-> row]]
  /\ UNCHANGED rowVars

\* rotate_key up to its INSERTs.  The revision the caller expects is compared
\* with the one read, so the two are one number from here on.
ReadForKey(r, a, k, i) ==
  \E prior \in ActiveKeys(a) \ {k} :
    Proceeds(r, a, [event |-> "key_rotated", priorKey |-> prior, newKey |-> k,
                    priorCred |-> None, newCred |-> None, idem |-> i])

\* rotate_credential up to its INSERTs; the credential is generated for it.
ReadForCredential(r, a, c, i) ==
  \E prior \in ActiveCreds(a) :
    /\ Generated(c)
    /\ Proceeds(r, a, [event |-> "credential_rotated", priorKey |-> None, newKey |-> None,
                       priorCred |-> prior, newCred |-> c, idem |-> i])

\* revoke_author up to its INSERT: no revision is expected of the caller, and
\* an author without a live credential can still be revoked.
ReadForRevocation(r, a, i) ==
  \E key \in ActiveKeys(a) :
    \E prior \in IF ActiveCreds(a) = {} THEN {None} ELSE ActiveCreds(a) :
      Proceeds(r, a, [event |-> "author_revoked", priorKey |-> key, newKey |-> None,
                      priorCred |-> prior, newCred |-> None, idem |-> i])

\* The INSERTs commit with the change the audit row's triggers apply.
Write(r) ==
  /\ pending[r] # Idle
  /\ Accepted(pending[r])
  /\ Apply(pending[r].author, pending[r].row, Number(pending[r]))
  /\ pending' = [pending EXCEPT ![r] = Idle]

\* A constraint or trigger aborts the transaction: the caller gets a conflict.
Conflict(r) ==
  /\ pending[r] # Idle
  /\ ~Accepted(pending[r])
  /\ pending' = [pending EXCEPT ![r] = Idle]
  /\ UNCHANGED rowVars

\* The server stops, or the client goes away, before the commit.
Abandon(r) ==
  /\ pending[r] # Idle
  /\ pending' = [pending EXCEPT ![r] = Idle]
  /\ UNCHANGED rowVars

\* authenticate: credential c is accepted as author a; inTime says that
\* expires_at lies ahead.  One query reads both rows.
Accepts(a, c, inTime) ==
  credOwner[c] = a /\ credStatus[c] = "active" /\ status[a] = "active" /\ inTime

Next ==
  \/ \E a \in Authors, i \in Idems :
       \/ \E k \in Keys, c \in Creds : Register(a, k, c, i)
       \/ \E r \in Requests :
            \/ \E k \in Keys : ReadForKey(r, a, k, i)
            \/ \E c \in Creds : ReadForCredential(r, a, c, i)
            \/ ReadForRevocation(r, a, i)
  \/ \E r \in Requests : Write(r) \/ Conflict(r) \/ Abandon(r)

Spec == Init /\ [][Next]_vars

-----------------------------------------------------------------------------
(* Properties.                                                             *)

\* Every variable has its type.
TypeOK ==
  /\ status     \in [Authors -> {"absent", "active", "revoked"}]
  /\ revision   \in [Authors -> Nat]
  /\ publicKey  \in [Authors -> KeyRef]
  /\ keyOwner   \in [Keys -> Authors \cup {None}]
  /\ keyStatus  \in [Keys -> {"unused", "active", "revoked"}]
  /\ credOwner  \in [Creds -> Authors \cup {None}]
  /\ credStatus \in [Creds -> {"unused", "active", "revoked"}]
  /\ audit      \in [Authors -> Seq(AuditRows)]
  /\ pending    \in [Requests -> Reads \cup {Idle}]

\* An active author has exactly one signing key, the one in its row, and
\* exactly one bearer credential; any other author has neither.  The triggers
\* alone ensure it: the partial unique indexes on active rows, which are not in
\* the model, never have to abort a request.
OneLiveIdentity ==
  \A a \in Authors :
    IF status[a] = "active"
    THEN ActiveKeys(a) = {publicKey[a]} /\ \E c \in Creds : ActiveCreds(a) = {c}
    ELSE ActiveKeys(a) = {} /\ ActiveCreds(a) = {}

\* x is what the last of rows that names a new key (credential) names, and no
\* revocation follows.
InForce(rows, new, x) ==
  \E i \in 1..Len(rows) :
    /\ rows[i][new] = x
    /\ \A j \in i + 1..Len(rows) : rows[j][new] = None /\ rows[j].event # "author_revoked"

\* The audit trail replays to the tables: it has a row per revision, the keys
\* and credentials it leaves in force are the active ones, each row supersedes
\* what was in force before it, and nothing follows a revocation.
AuditReplays ==
  \A a \in Authors :
    /\ Len(audit[a]) = revision[a]
    /\ \A k \in Keys  : k \in ActiveKeys(a)  <=> InForce(audit[a], "newKey", k)
    /\ \A c \in Creds : c \in ActiveCreds(a) <=> InForce(audit[a], "newCred", c)
    /\ \A n \in 1..Len(audit[a]) :
         LET before == SubSeq(audit[a], 1, n - 1)  row == audit[a][n]
         IN /\ row.priorKey # None  => InForce(before, "newKey", row.priorKey)
            /\ row.priorCred # None => InForce(before, "newCred", row.priorCred)
            /\ row.event = "author_revoked" => n = Len(audit[a])

\* Authentication accepts a credential exactly while the audit trail says it
\* is in force: a superseded one is refused from the rotation's commit on.
CurrentCredentialOnly ==
  \A a \in Authors, c \in Creds :
    Accepts(a, c, TRUE) <=> InForce(audit[a], "newCred", c)

\* The tables hold one live identity for each author, the trail tells which one,
\* and authentication goes by it.
IdentityTold == OneLiveIdentity /\ AuditReplays /\ CurrentCredentialOnly

\* "Author revocation intentionally has no revision precondition: it is an
\* unconditional safety action that must remain available after intervening
\* identity changes."  A revocation under way, of an author who is still
\* active, can be written.
RevocationAvailable ==
  \A r \in Requests :
    /\ pending[r] # Idle
    /\ pending[r].row.event = "author_revoked"
    /\ status[pending[r].author] = "active"
    /\ Unspent(pending[r].row.idem)
    => Accepted(pending[r])

-----------------------------------------------------------------------------
(* The promise this implements.                                            *)

\* What a request goes by: the author and the revision it read.
Sees(r) ==
  IF pending[r] = Idle THEN Idle
  ELSE [author |-> pending[r].author, revision |-> pending[r].revision]

Lifecycle ==
  INSTANCE IdentityLifecycle WITH
    signing    <- [a \in Authors |-> ActiveKeys(a)],
    bearer     <- [a \in Authors |-> ActiveCreds(a)],
    spentKeys  <- {k \in Keys : keyStatus[k] # "unused"},
    spentCreds <- {c \in Creds : credStatus[c] # "unused"},
    sees       <- [r \in Requests |-> Sees(r)]

\* The tables and triggers implement the identity life cycle, overlapping
\* requests included: each one that is written is a single step of it, and a
\* rotation is one of the very identity its caller expected, so that two which
\* were decided on one revision are never both written.
ImplementsIdentity == Lifecycle!Spec
=============================================================================
