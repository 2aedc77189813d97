------------------------ MODULE AuthorIdentityProofs ------------------------
(***************************************************************************)
(* Proofs about AuthorIdentity, for any sets of authors, keys, credentials *)
(* requests and idempotency keys.                                          *)
(***************************************************************************)
EXTENDS AuthorIdentity, TLAPS

\* What a request has read names the rows its kind of event needs.
Shaped(row) ==
  /\ row.event \in {"key_rotated", "credential_rotated", "author_revoked"}
  /\ row.event = "key_rotated" =>
       row.priorKey \in Keys /\ row.newKey \in Keys /\ row.priorCred = None /\ row.newCred = None
  /\ row.event = "credential_rotated" =>
       row.priorKey = None /\ row.newKey = None /\ row.priorCred \in Creds /\ row.newCred \in Creds
  /\ row.event = "author_revoked" =>
       row.priorKey \in Keys /\ row.newKey = None /\ row.newCred = None

ReadsShaped == \A r \in Requests : pending[r] # Idle => Shaped(pending[r].row)

Typed == TypeOK /\ ReadsShaped

-----------------------------------------------------------------------------
(* Types.                                                                  *)

\* A row inserted for an author keeps every table typed.
LEMMA ApplyTyped ==
  ASSUME TypeOK, NEW a \in Authors, NEW row \in AuditRows, NEW n \in Nat, Apply(a, row, n)
  PROVE  /\ status' \in [Authors -> {"absent", "active", "revoked"}]
         /\ revision' \in [Authors -> Nat]
         /\ publicKey' \in [Authors -> KeyRef]
         /\ keyOwner' \in [Keys -> Authors \cup {None}]
         /\ keyStatus' \in [Keys -> {"unused", "active", "revoked"}]
         /\ credOwner' \in [Creds -> Authors \cup {None}]
         /\ credStatus' \in [Creds -> {"unused", "active", "revoked"}]
         /\ audit' \in [Authors -> Seq(AuditRows)]
<1>1. status' \in [Authors -> {"absent", "active", "revoked"}] /\ revision' \in [Authors -> Nat]
  BY DEF Apply, TypeOK
<1>2. publicKey' \in [Authors -> KeyRef]
  BY DEF Apply, TypeOK, AuditRows, KeyRef
<1>3. keyOwner' \in [Keys -> Authors \cup {None}] /\ credOwner' \in [Creds -> Authors \cup {None}]
  BY DEF Apply, Given, TypeOK
<1>4. /\ keyStatus' \in [Keys -> {"unused", "active", "revoked"}]
      /\ credStatus' \in [Creds -> {"unused", "active", "revoked"}]
  BY DEF Apply, Restated, TypeOK
<1>5. Append(audit[a], row) \in Seq(AuditRows)
  BY DEF TypeOK
<1>6. audit' \in [Authors -> Seq(AuditRows)]
  BY <1>5 DEF Apply, TypeOK
<1>7. QED
  BY <1>1, <1>2, <1>3, <1>4, <1>6

LEMMA InitTyped == Init => Typed
BY DEF Init, Typed, TypeOK, ReadsShaped, KeyRef, CredRef

\* A read that goes on leaves a record of the right type and shape.
LEMMA ProceedsTyped ==
  ASSUME Typed, NEW r \in Requests, NEW a \in Authors, NEW row \in AuditRows,
         Shaped(row), Proceeds(r, a, row)
  PROVE  Typed'
<1> DEFINE read == [author |-> a, revision |-> revision[a], row |-> row]
<1>1. read \in Reads
  BY DEF Typed, TypeOK, Reads
<1>2. pending' = [pending EXCEPT ![r] = read]
  BY DEF Proceeds
<1>3. pending' \in [Requests -> Reads \cup {Idle}]
  BY <1>1, <1>2 DEF Typed, TypeOK
<1>4. ReadsShaped'
  BY <1>2 DEF Typed, TypeOK, ReadsShaped, Shaped
<1>5. QED
  BY <1>3, <1>4 DEF Proceeds, rowVars, Typed, TypeOK, ActiveKeys

\* Whatever its kind, a request that goes on has read a row of the right shape.
LEMMA ReadsProceed ==
  ASSUME NEW r \in Requests, NEW a \in Authors, NEW i \in Idems,
         \/ \E k \in Keys : ReadForKey(r, a, k, i)
         \/ \E c \in Creds : ReadForCredential(r, a, c, i)
         \/ ReadForRevocation(r, a, i)
  PROVE  \E row \in AuditRows : Shaped(row) /\ Proceeds(r, a, row)
<1>1. ASSUME NEW k \in Keys, ReadForKey(r, a, k, i)
      PROVE  \E row \in AuditRows : Shaped(row) /\ Proceeds(r, a, row)
  <2>1. PICK prior \in ActiveKeys(a) \ {k} :
          Proceeds(r, a, [event |-> "key_rotated", priorKey |-> prior, newKey |-> k,
                          priorCred |-> None, newCred |-> None, idem |-> i])
    BY <1>1 DEF ReadForKey
  <2>2. prior \in Keys
    BY DEF ActiveKeys
  <2>3. QED
    BY <2>1, <2>2 DEF Shaped, AuditRows, EventTypes, Rotations, KeyRef, CredRef
<1>2. ASSUME NEW c \in Creds, ReadForCredential(r, a, c, i)
      PROVE  \E row \in AuditRows : Shaped(row) /\ Proceeds(r, a, row)
  <2>1. PICK prior \in ActiveCreds(a) :
          Proceeds(r, a, [event |-> "credential_rotated", priorKey |-> None, newKey |-> None,
                          priorCred |-> prior, newCred |-> c, idem |-> i])
    BY <1>2 DEF ReadForCredential
  <2>2. prior \in Creds
    BY DEF ActiveCreds
  <2>3. QED
    BY <2>1, <2>2 DEF Shaped, AuditRows, EventTypes, Rotations, KeyRef, CredRef
<1>3. ASSUME ReadForRevocation(r, a, i)
      PROVE  \E row \in AuditRows : Shaped(row) /\ Proceeds(r, a, row)
  <2>1. PICK key \in ActiveKeys(a), prior \in IF ActiveCreds(a) = {} THEN {None} ELSE ActiveCreds(a) :
          Proceeds(r, a, [event |-> "author_revoked", priorKey |-> key, newKey |-> None,
                          priorCred |-> prior, newCred |-> None, idem |-> i])
    BY <1>3 DEF ReadForRevocation
  <2>2. key \in Keys /\ prior \in CredRef
    BY DEF ActiveKeys, ActiveCreds, CredRef
  <2>3. QED
    BY <2>1, <2>2 DEF Shaped, AuditRows, EventTypes, Rotations, KeyRef, CredRef
<1>4. QED
  BY <1>1, <1>2, <1>3

LEMMA ReadsTyped ==
  ASSUME Typed, NEW r \in Requests, NEW a \in Authors, NEW i \in Idems,
         \/ \E k \in Keys : ReadForKey(r, a, k, i)
         \/ \E c \in Creds : ReadForCredential(r, a, c, i)
         \/ ReadForRevocation(r, a, i)
  PROVE  Typed'
BY ReadsProceed, ProceedsTyped

\* What a pending request holds.
LEMMA PendingTyped ==
  ASSUME Typed, NEW r \in Requests, pending[r] # Idle
  PROVE  /\ pending[r] \in Reads
         /\ pending[r].author \in Authors
         /\ pending[r].revision \in Nat
         /\ pending[r].row \in AuditRows
         /\ Shaped(pending[r].row)
BY DEF Typed, TypeOK, Reads, ReadsShaped

LEMMA RegisterTyped ==
  ASSUME Typed, NEW a \in Authors, NEW k \in Keys, NEW c \in Creds, NEW i \in Idems,
         Register(a, k, c, i)
  PROVE  Typed'
<1> DEFINE row == [event |-> "registered", priorKey |-> None, newKey |-> k,
                   priorCred |-> None, newCred |-> c, idem |-> i]
<1>1. row \in AuditRows
  BY DEF AuditRows, EventTypes, KeyRef, CredRef
<1>2. Apply(a, row, 1)
  BY DEF Register
<1>3. QED
  BY <1>1, <1>2, ApplyTyped DEF Register, Typed, TypeOK, ReadsShaped, Shaped

LEMMA WriteTyped ==
  ASSUME Typed, NEW r \in Requests, Write(r)
  PROVE  Typed'
<1>1. Number(pending[r]) \in Nat
  BY PendingTyped DEF Write, Number
<1>2. /\ Apply(pending[r].author, pending[r].row, Number(pending[r]))
      /\ pending[r] # Idle
  BY DEF Write
<1>3. pending' \in [Requests -> Reads \cup {Idle}] /\ ReadsShaped'
  BY DEF Write, Typed, TypeOK, ReadsShaped, Shaped
<1>4. QED
  BY <1>1, <1>2, <1>3, PendingTyped, ApplyTyped DEF Typed, TypeOK

LEMMA NextTyped == Typed /\ [Next]_vars => Typed'
<1> SUFFICES ASSUME Typed, [Next]_vars PROVE Typed'
  OBVIOUS
<1>1. CASE UNCHANGED vars
  BY <1>1 DEF vars, rowVars, Typed, TypeOK, ReadsShaped, Shaped
<1>2. ASSUME NEW r \in Requests, Conflict(r) \/ Abandon(r) PROVE Typed'
  BY <1>2 DEF Conflict, Abandon, rowVars, Typed, TypeOK, ReadsShaped, Shaped
<1>3. QED
  BY <1>1, <1>2, RegisterTyped, ReadsTyped, WriteTyped DEF Next

\* Every reachable state has its type.
THEOREM TypeCorrect == Spec => []TypeOK
<1>1. Typed => TypeOK
  BY DEF Typed
<1>2. QED
  BY <1>1, InitTyped, NextTyped, PTL DEF Spec

-----------------------------------------------------------------------------
(* One live identity.                                                      *)

\* A key (credential) that was never used has its INSERT ahead of it.
Applicable(a, row) ==
  /\ row.priorKey # None => row.priorKey \in ActiveKeys(a)
  /\ row.newKey # None => keyStatus[row.newKey] = "unused"
  /\ row.priorCred # None => row.priorCred \in ActiveCreds(a)
  /\ row.newCred # None => credStatus[row.newCred] = "unused"

\* What a row does to the live keys and credentials of every author.
LEMMA LiveAfter ==
  ASSUME TypeOK, NEW a \in Authors, NEW row \in AuditRows, NEW n \in Nat,
         Applicable(a, row), Apply(a, row, n)
  PROVE  /\ ActiveKeys(a)' = (ActiveKeys(a) \ {row.priorKey}) \cup ({row.newKey} \ {None})
         /\ ActiveCreds(a)' = (ActiveCreds(a) \ {row.priorCred}) \cup ({row.newCred} \ {None})
         /\ \A b \in Authors \ {a} : /\ ActiveKeys(b)' = ActiveKeys(b)
                                     /\ ActiveCreds(b)' = ActiveCreds(b)
<1>1. row.priorKey \in KeyRef /\ row.newKey \in KeyRef /\ None \notin Keys
  BY NoneAssumption DEF AuditRows
<1>2. row.priorCred \in CredRef /\ row.newCred \in CredRef /\ None \notin Creds
  BY NoneAssumption DEF AuditRows
<1>3. \A k \in Keys :
        /\ keyOwner'[k] = IF k = row.newKey THEN a ELSE keyOwner[k]
        /\ keyStatus'[k] = IF k = row.newKey THEN "active"
                           ELSE IF k = row.priorKey THEN "revoked" ELSE keyStatus[k]
  BY DEF Apply, Given, Restated, TypeOK
<1>4. \A c \in Creds :
        /\ credOwner'[c] = IF c = row.newCred THEN a ELSE credOwner[c]
        /\ credStatus'[c] = IF c = row.newCred THEN "active"
                            ELSE IF c = row.priorCred THEN "revoked" ELSE credStatus[c]
  BY DEF Apply, Given, Restated, TypeOK
<1>5. ActiveKeys(a)' = (ActiveKeys(a) \ {row.priorKey}) \cup ({row.newKey} \ {None})
  BY <1>1, <1>3 DEF ActiveKeys, KeyRef
<1>6. ActiveCreds(a)' = (ActiveCreds(a) \ {row.priorCred}) \cup ({row.newCred} \ {None})
  BY <1>2, <1>4 DEF ActiveCreds, CredRef
<1>7. ASSUME NEW b \in Authors \ {a} PROVE ActiveKeys(b)' = ActiveKeys(b)
  <2>1. \A k \in ActiveKeys(b) : k # row.newKey /\ k # row.priorKey
    BY <1>1, <1>7 DEF Applicable, ActiveKeys
  <2>2. QED
    BY <1>3, <1>7, <2>1 DEF ActiveKeys
<1>8. ASSUME NEW b \in Authors \ {a} PROVE ActiveCreds(b)' = ActiveCreds(b)
  <2>1. \A c \in ActiveCreds(b) : c # row.newCred /\ c # row.priorCred
    BY <1>2, <1>8 DEF Applicable, ActiveCreds
  <2>2. QED
    BY <1>4, <1>8, <2>1 DEF ActiveCreds
<1>9. QED
  BY <1>5, <1>6, <1>7, <1>8

\* What a written request found: an active author, whose live key or
\* credential is the one it supersedes.
Found(a, row) ==
  /\ Shaped(row) /\ Applicable(a, row)
  /\ status[a] = "active"
  /\ row.event \in {"key_rotated", "author_revoked"} => ActiveKeys(a) = {row.priorKey}
  /\ row.event \in {"credential_rotated", "author_revoked"} => ActiveCreds(a) = {row.priorCred}

LEMMA WriteFinds ==
  ASSUME Typed, OneLiveIdentity, NEW r \in Requests, Write(r)
  PROVE  \E a \in Authors, row \in AuditRows :
           /\ Found(a, row) /\ Apply(a, row, revision[a] + 1)
           /\ a = pending[r].author /\ revision[a] = pending[r].revision
<1>1. PICK a \in Authors, row \in AuditRows : a = pending[r].author /\ row = pending[r].row
  BY PendingTyped DEF Write
<1>2. Shaped(row) /\ None \notin Keys /\ None \notin Creds
  BY <1>1, PendingTyped, NoneAssumption DEF Write
<1>3. Owned(pending[r]) /\ Insertable(pending[r]) /\ Apply(a, row, Number(pending[r]))
  BY <1>1 DEF Write, Accepted
<1>4. Applicable(a, row) /\ status[a] = "active" /\ revision[a] + 1 = Number(pending[r])
  BY <1>1, <1>3 DEF Owned, Insertable, Applicable
<1>5. ActiveKeys(a) = {publicKey[a]} /\ \E c \in Creds : ActiveCreds(a) = {c}
  BY <1>4 DEF OneLiveIdentity
<1>6. row.event \in {"key_rotated", "author_revoked"} => ActiveKeys(a) = {row.priorKey}
  BY <1>2, <1>4, <1>5 DEF Shaped, Applicable
<1>7. row.event = "credential_rotated" => ActiveCreds(a) = {row.priorCred}
  BY <1>2, <1>4, <1>5 DEF Shaped, Applicable
<1>8. row.event = "author_revoked" => ActiveCreds(a) = {row.priorCred}
  BY <1>1, <1>3, <1>4, <1>5 DEF Owned, Applicable
<1>9. Found(a, row)
  BY <1>2, <1>4, <1>6, <1>7, <1>8 DEF Found
<1>10. revision[a] = pending[r].revision
  BY <1>1, <1>4, PendingTyped DEF Write, Number, Typed, TypeOK
<1>11. QED
  BY <1>1, <1>3, <1>4, <1>9, <1>10

LEMMA InitLive == Init => OneLiveIdentity
BY DEF Init, OneLiveIdentity, ActiveKeys, ActiveCreds

LEMMA RegisterLive ==
  ASSUME Typed, OneLiveIdentity, NEW a \in Authors, NEW k \in Keys, NEW c \in Creds,
         NEW i \in Idems, Register(a, k, c, i)
  PROVE  /\ OneLiveIdentity'
         /\ ActiveKeys(a)' = {k} /\ ActiveCreds(a)' = {c}
         /\ \A b \in Authors \ {a} : /\ ActiveKeys(b)' = ActiveKeys(b)
                                     /\ ActiveCreds(b)' = ActiveCreds(b)
<1> DEFINE row == [event |-> "registered", priorKey |-> None, newKey |-> k,
                   priorCred |-> None, newCred |-> c, idem |-> i]
<1>1. row \in AuditRows
  BY DEF AuditRows, EventTypes, KeyRef, CredRef
<1>2. Apply(a, row, 1) /\ Applicable(a, row) /\ status[a] = "absent"
  BY DEF Register, Generated, Applicable
<1>3. ActiveKeys(a) = {} /\ ActiveCreds(a) = {} /\ k # None /\ c # None
  BY <1>2, NoneAssumption DEF OneLiveIdentity
<1>4. /\ ActiveKeys(a)' = {k} /\ ActiveCreds(a)' = {c}
      /\ \A b \in Authors \ {a} : /\ ActiveKeys(b)' = ActiveKeys(b)
                                  /\ ActiveCreds(b)' = ActiveCreds(b)
  BY <1>1, <1>2, <1>3, LiveAfter DEF Typed
<1>5. /\ status' = [status EXCEPT ![a] = "active"]
      /\ publicKey' = [publicKey EXCEPT ![a] = k]
  BY <1>2, <1>3 DEF Apply
<1>6. QED
  BY <1>4, <1>5 DEF OneLiveIdentity, Typed, TypeOK

\* What the row of a written request does to the live identity.
LEMMA AppliedLive ==
  ASSUME Typed, OneLiveIdentity, NEW a \in Authors, NEW row \in AuditRows,
         Found(a, row), Apply(a, row, revision[a] + 1)
  PROVE  /\ OneLiveIdentity'
         /\ row.event = "key_rotated" =>
              ActiveKeys(a)' = {row.newKey} /\ ActiveCreds(a)' = ActiveCreds(a)
         /\ row.event = "credential_rotated" =>
              ActiveKeys(a)' = ActiveKeys(a) /\ ActiveCreds(a)' = {row.newCred}
         /\ row.event = "author_revoked" => ActiveKeys(a)' = {} /\ ActiveCreds(a)' = {}
         /\ \A b \in Authors \ {a} : /\ ActiveKeys(b)' = ActiveKeys(b)
                                     /\ ActiveCreds(b)' = ActiveCreds(b)
<1>1. Shaped(row) /\ revision[a] + 1 \in Nat /\ None \notin Keys /\ None \notin Creds
  BY NoneAssumption DEF Found, Typed, TypeOK
<1>2. Applicable(a, row) /\ status[a] = "active"
  BY DEF Found
<1>3. /\ ActiveKeys(a)' = (ActiveKeys(a) \ {row.priorKey}) \cup ({row.newKey} \ {None})
      /\ ActiveCreds(a)' = (ActiveCreds(a) \ {row.priorCred}) \cup ({row.newCred} \ {None})
      /\ \A b \in Authors \ {a} : /\ ActiveKeys(b)' = ActiveKeys(b)
                                  /\ ActiveCreds(b)' = ActiveCreds(b)
  BY <1>1, <1>2, LiveAfter DEF Typed
<1>4. None \notin ActiveKeys(a) /\ None \notin ActiveCreds(a)
  BY <1>1 DEF ActiveKeys, ActiveCreds
<1>5. CASE row.event = "key_rotated"
  <2>1. ActiveKeys(a)' = {row.newKey} /\ ActiveCreds(a)' = ActiveCreds(a)
    BY <1>1, <1>3, <1>4, <1>5 DEF Shaped, Found
  <2>2. /\ status' = [status EXCEPT ![a] = "active"]
        /\ publicKey' = [publicKey EXCEPT ![a] = row.newKey]
    BY <1>1, <1>5 DEF Apply, Shaped
  <2>3. OneLiveIdentity'
    BY <1>2, <1>3, <2>1, <2>2 DEF OneLiveIdentity, Typed, TypeOK
  <2>4. QED
    BY <1>3, <1>5, <2>1, <2>3
<1>6. CASE row.event = "credential_rotated"
  <2>1. ActiveKeys(a)' = ActiveKeys(a) /\ ActiveCreds(a)' = {row.newCred} /\ row.newCred \in Creds
    BY <1>1, <1>3, <1>4, <1>6 DEF Shaped, Found
  <2>2. status' = [status EXCEPT ![a] = "active"] /\ publicKey' = publicKey
    BY <1>1, <1>6 DEF Apply, Shaped
  <2>3. OneLiveIdentity'
    <3>1. /\ status' = status
          /\ \A b \in Authors \ {a} : ActiveKeys(b)' = ActiveKeys(b) /\ ActiveCreds(b)' = ActiveCreds(b)
      BY <1>2, <1>3, <2>2 DEF Typed, TypeOK
    <3>2. \A b \in Authors \ {a} :
            IF status'[b] = "active"
            THEN ActiveKeys(b)' = {publicKey'[b]} /\ \E c \in Creds : ActiveCreds(b)' = {c}
            ELSE ActiveKeys(b)' = {} /\ ActiveCreds(b)' = {}
      BY <2>2, <3>1 DEF OneLiveIdentity
    <3>3. ActiveKeys(a)' = {publicKey'[a]} /\ ActiveCreds(a)' = {row.newCred} /\ status'[a] = "active"
      BY <1>2, <2>1, <2>2, <3>1 DEF OneLiveIdentity
    <3> QED  BY <2>1, <3>2, <3>3 DEF OneLiveIdentity
  <2>4. QED
    BY <1>3, <1>6, <2>1, <2>3
<1>7. CASE row.event = "author_revoked"
  <2>1. ActiveKeys(a)' = {} /\ ActiveCreds(a)' = {}
    BY <1>1, <1>3, <1>7 DEF Shaped, Found
  <2>2. status' = [status EXCEPT ![a] = "revoked"] /\ publicKey' = publicKey
    BY <1>1, <1>7 DEF Apply, Shaped
  <2>3. OneLiveIdentity'
    BY <1>3, <2>1, <2>2 DEF OneLiveIdentity, Typed, TypeOK
  <2>4. QED
    BY <1>3, <1>7, <2>1, <2>3
<1>8. QED
  BY <1>1, <1>5, <1>6, <1>7 DEF Shaped

\* A step that is no INSERT leaves the tables alone.
LEMMA OtherSteps ==
  ASSUME [Next]_vars
  PROVE  \/ UNCHANGED rowVars
         \/ \E a \in Authors, k \in Keys, c \in Creds, i \in Idems : Register(a, k, c, i)
         \/ \E r \in Requests : Write(r)
BY DEF Next, ReadForKey, ReadForCredential, ReadForRevocation, Proceeds, Conflict, Abandon, vars

LEMMA NextLive == Typed /\ OneLiveIdentity /\ [Next]_vars => OneLiveIdentity'
<1> SUFFICES ASSUME Typed, OneLiveIdentity, [Next]_vars PROVE OneLiveIdentity'
  OBVIOUS
<1>1. CASE UNCHANGED rowVars
  BY <1>1 DEF rowVars, OneLiveIdentity, ActiveKeys, ActiveCreds
<1>2. QED
  BY <1>1, OtherSteps, RegisterLive, WriteFinds, AppliedLive

\* An active author has one signing key, its row's, and one credential; any
\* other author has none.
THEOREM IdentityIsSingle == Spec => []OneLiveIdentity
BY InitTyped, NextTyped, InitLive, NextLive, PTL DEF Spec

-----------------------------------------------------------------------------
(* The audit trail replays to the tables.                                  *)

\* What one more row leaves in force.
LEMMA ForceAfter ==
  ASSUME NEW S, NEW rows \in Seq(S), NEW row \in S, NEW f, NEW x, x # None
  PROVE  InForce(Append(rows, row), f, x) <=>
           \/ row[f] = x
           \/ (row[f] = None /\ row.event # "author_revoked" /\ InForce(rows, f, x))
<1> DEFINE more == Append(rows, row)
           n == Len(rows)
<1>1. /\ n \in Nat /\ Len(more) = n + 1 /\ more[n + 1] = row
      /\ \A i \in 1..n : more[i] = rows[i]
  OBVIOUS
<1> HIDE DEF more, n
<1>2. ASSUME row[f] = x PROVE InForce(more, f, x)
  <2>1. n + 1 \in 1..Len(more) /\ \A j \in (n + 1) + 1..Len(more) : FALSE
    BY <1>1
  <2>2. QED
    BY <1>1, <1>2, <2>1 DEF InForce
<1>3. ASSUME row[f] = None, row.event # "author_revoked", InForce(rows, f, x)
      PROVE  InForce(more, f, x)
  <2>1. PICK i \in 1..n : /\ rows[i][f] = x
                          /\ \A j \in i + 1..n : rows[j][f] = None /\ rows[j].event # "author_revoked"
    BY <1>3 DEF InForce, n
  <2>2. \A j \in i + 1..Len(more) : j # n + 1 => j \in i + 1..n /\ j \in 1..n
    <3>1. i \in Nat /\ i > 0 /\ n \in Nat /\ Len(more) = n + 1
      BY <1>1
    <3>2. QED
      BY ONLY <3>1
  <2>3. i \in 1..Len(more) /\ more[i][f] = x
    BY <1>1, <2>1
  <2>4. \A j \in i + 1..Len(more) : more[j][f] = None /\ more[j].event # "author_revoked"
    BY <1>1, <1>3, <2>1, <2>2
  <2>5. QED
    BY <2>3, <2>4 DEF InForce
<1>4. ASSUME InForce(more, f, x), row[f] # x
      PROVE  row[f] = None /\ row.event # "author_revoked" /\ InForce(rows, f, x)
  <2>1. PICK i \in 1..Len(more) :
          /\ more[i][f] = x
          /\ \A j \in i + 1..Len(more) : more[j][f] = None /\ more[j].event # "author_revoked"
    BY <1>4 DEF InForce
  <2>2. i # n + 1
    BY <1>1, <1>4, <2>1
  <2>3. i \in 1..n /\ n + 1 \in i + 1..Len(more)
    BY <1>1, <2>2
  <2>4. \A j \in i + 1..n : j \in i + 1..Len(more) /\ j \in 1..n
    BY <1>1, <2>3
  <2>5. rows[i][f] = x /\ \A j \in i + 1..n : rows[j][f] = None /\ rows[j].event # "author_revoked"
    BY <1>1, <2>1, <2>3, <2>4
  <2>6. QED
    BY <1>1, <2>1, <2>3, <2>5 DEF InForce, n
<1>5. QED
  BY <1>2, <1>3, <1>4 DEF more

\* An author without a row has no audit trail, and an active one no revocation in it.
Trail ==
  /\ AuditReplays
  /\ \A a \in Authors :
       /\ status[a] = "absent" => audit[a] = <<>>
       /\ status[a] = "active" => \A m \in 1..Len(audit[a]) : audit[a][m].event # "author_revoked"

\* The tables after a row are what the row adds to the tables before.
Adds(a, row) ==
  /\ row.priorKey # None  => row.priorKey \in ActiveKeys(a)
  /\ row.priorCred # None => row.priorCred \in ActiveCreds(a)
  /\ \A m \in 1..Len(audit[a]) : audit[a][m].event # "author_revoked"

LEMMA RowAppended ==
  ASSUME Typed, AuditReplays, NEW a \in Authors, NEW row \in AuditRows,
         Adds(a, row), Apply(a, row, revision[a] + 1),
         \A k \in Keys : k \in ActiveKeys(a)' <=>
           row.newKey = k \/ (row.newKey = None /\ row.event # "author_revoked" /\ k \in ActiveKeys(a)),
         \A c \in Creds : c \in ActiveCreds(a)' <=>
           row.newCred = c \/ (row.newCred = None /\ row.event # "author_revoked" /\ c \in ActiveCreds(a)),
         \A b \in Authors \ {a} : /\ ActiveKeys(b)' = ActiveKeys(b)
                                  /\ ActiveCreds(b)' = ActiveCreds(b)
  PROVE  AuditReplays'
<1> DEFINE n == Len(audit[a])
<1>1. /\ audit[a] \in Seq(AuditRows) /\ n = revision[a] /\ None \notin Keys /\ None \notin Creds
      /\ row["newKey"] = row.newKey /\ row["newCred"] = row.newCred
  BY NoneAssumption DEF Typed, TypeOK, AuditReplays
<1>2. /\ audit'[a] = Append(audit[a], row) /\ revision'[a] = revision[a] + 1
      /\ \A b \in Authors \ {a} : audit'[b] = audit[b] /\ revision'[b] = revision[b]
  BY DEF Apply, Typed, TypeOK
<1>3. /\ \A k \in Keys : k \in ActiveKeys(a) <=> InForce(audit[a], "newKey", k)
      /\ \A c \in Creds : c \in ActiveCreds(a) <=> InForce(audit[a], "newCred", c)
  BY DEF AuditReplays
<1>4. \A k \in Keys : k \in ActiveKeys(a)' <=> InForce(audit'[a], "newKey", k)
  <2>1. \A k \in Keys : InForce(audit'[a], "newKey", k) <=>
          \/ row["newKey"] = k
          \/ (row["newKey"] = None /\ row.event # "author_revoked" /\ InForce(audit[a], "newKey", k))
    BY <1>1, <1>2, ForceAfter
  <2>2. QED
    BY <1>1, <1>3, <2>1
<1>5. \A c \in Creds : c \in ActiveCreds(a)' <=> InForce(audit'[a], "newCred", c)
  <2>1. \A c \in Creds : InForce(audit'[a], "newCred", c) <=>
          \/ row["newCred"] = c
          \/ (row["newCred"] = None /\ row.event # "author_revoked" /\ InForce(audit[a], "newCred", c))
    BY <1>1, <1>2, ForceAfter
  <2>2. QED
    BY <1>1, <1>3, <2>1
<1>6. /\ n \in Nat /\ Len(audit'[a]) = n + 1 /\ audit'[a][n + 1] = row
      /\ \A i \in 1..n : audit'[a][i] = audit[a][i]
  BY <1>1, <1>2
<1>7. \A i \in 1..n + 1 : SubSeq(audit'[a], 1, i - 1) = SubSeq(audit[a], 1, i - 1)
  <2>1. SUFFICES ASSUME NEW i \in 1..n + 1
                 PROVE  SubSeq(audit'[a], 1, i - 1) = SubSeq(audit[a], 1, i - 1)
    OBVIOUS
  <2>2. QED
    BY <1>1, <1>2, <1>6
<1>8. SubSeq(audit[a], 1, n) = audit[a]
  BY <1>1
<1>9. ASSUME NEW i \in 1..n + 1
      PROVE  LET before == SubSeq(audit'[a], 1, i - 1)  r == audit'[a][i]
             IN /\ r.priorKey # None  => InForce(before, "newKey", r.priorKey)
                /\ r.priorCred # None => InForce(before, "newCred", r.priorCred)
                /\ r.event = "author_revoked" => i = n + 1
  <2>1. CASE i = n + 1
    <3>1. SubSeq(audit'[a], 1, i - 1) = audit[a] /\ audit'[a][i] = row
      BY <1>6, <1>7, <1>8, <2>1
    <3>2. /\ row.priorKey # None => row.priorKey \in Keys /\ row.priorKey \in ActiveKeys(a)
          /\ row.priorCred # None => row.priorCred \in Creds /\ row.priorCred \in ActiveCreds(a)
      BY DEF Adds, ActiveKeys, ActiveCreds
    <3>3. QED
      BY <1>3, <2>1, <3>1, <3>2
  <2>2. CASE i # n + 1
    <3>1. i \in 1..n /\ audit'[a][i] = audit[a][i]
          /\ SubSeq(audit'[a], 1, i - 1) = SubSeq(audit[a], 1, i - 1)
      BY <1>6, <1>7, <2>2
    <3>2. audit[a][i].event # "author_revoked"
      BY <3>1 DEF Adds
    <3>3. QED
      BY <3>1, <3>2 DEF AuditReplays
  <2>3. QED
    BY <2>1, <2>2
<1>10. ASSUME NEW b \in Authors \ {a}
       PROVE  /\ Len(audit'[b]) = revision'[b]
              /\ \A k \in Keys  : k \in ActiveKeys(b)'  <=> InForce(audit'[b], "newKey", k)
              /\ \A c \in Creds : c \in ActiveCreds(b)' <=> InForce(audit'[b], "newCred", c)
              /\ \A i \in 1..Len(audit'[b]) :
                   LET before == SubSeq(audit'[b], 1, i - 1)  r == audit'[b][i]
                   IN /\ r.priorKey # None  => InForce(before, "newKey", r.priorKey)
                      /\ r.priorCred # None => InForce(before, "newCred", r.priorCred)
                      /\ r.event = "author_revoked" => i = Len(audit'[b])
  BY <1>2 DEF AuditReplays
<1> HIDE DEF n
<1>11. ASSUME NEW b \in Authors
       PROVE  /\ Len(audit'[b]) = revision'[b]
              /\ \A k \in Keys  : k \in ActiveKeys(b)'  <=> InForce(audit'[b], "newKey", k)
              /\ \A c \in Creds : c \in ActiveCreds(b)' <=> InForce(audit'[b], "newCred", c)
              /\ \A i \in 1..Len(audit'[b]) :
                   LET before == SubSeq(audit'[b], 1, i - 1)  r == audit'[b][i]
                   IN /\ r.priorKey # None  => InForce(before, "newKey", r.priorKey)
                      /\ r.priorCred # None => InForce(before, "newCred", r.priorCred)
                      /\ r.event = "author_revoked" => i = Len(audit'[b])
  <2>1. CASE b = a
    BY <1>1, <1>2, <1>4, <1>5, <1>6, <1>9, <2>1
  <2>2. CASE b # a
    BY <1>10, <2>2
  <2>3. QED
    BY <2>1, <2>2
<1>12. QED
  BY <1>11 DEF AuditReplays

\* The part of Trail about an author's status.
LEMMA TrailStatus ==
  ASSUME Typed, Trail, NEW a \in Authors, NEW row \in AuditRows, Adds(a, row),
         Apply(a, row, revision[a] + 1)
  PROVE  \A b \in Authors :
           /\ status'[b] = "absent" => audit'[b] = <<>>
           /\ status'[b] = "active" =>
                \A m \in 1..Len(audit'[b]) : audit'[b][m].event # "author_revoked"
<1>1. /\ audit'[a] = Append(audit[a], row) /\ audit[a] \in Seq(AuditRows)
      /\ status'[a] = IF row.event = "author_revoked" THEN "revoked" ELSE "active"
      /\ \A b \in Authors \ {a} : audit'[b] = audit[b] /\ status'[b] = status[b]
  BY DEF Apply, Typed, TypeOK
<1>2. /\ Len(audit[a]) \in Nat /\ Len(audit'[a]) = Len(audit[a]) + 1
      /\ audit'[a][Len(audit[a]) + 1] = row
      /\ \A m \in 1..Len(audit[a]) : audit'[a][m] = audit[a][m]
  BY <1>1
<1>3. ASSUME status'[a] = "active", NEW m \in 1..Len(audit'[a])
      PROVE  audit'[a][m].event # "author_revoked"
  <2>1. m = Len(audit[a]) + 1 \/ m \in 1..Len(audit[a])
    BY <1>2
  <2>2. QED
    BY <1>1, <1>2, <1>3, <2>1 DEF Adds
<1>4. QED
  BY <1>1, <1>3 DEF Trail

LEMMA RegisterTrail ==
  ASSUME Typed, OneLiveIdentity, Trail, NEW a \in Authors, NEW k \in Keys, NEW c \in Creds,
         NEW i \in Idems, Register(a, k, c, i)
  PROVE  Trail'
<1> DEFINE row == [event |-> "registered", priorKey |-> None, newKey |-> k,
                   priorCred |-> None, newCred |-> c, idem |-> i]
<1>1. row \in AuditRows /\ row.event = "registered" /\ row.newKey = k /\ row.newCred = c
      /\ row.priorKey = None /\ row.priorCred = None
  BY DEF AuditRows, EventTypes, KeyRef, CredRef
<1>2. status[a] = "absent" /\ Apply(a, row, 1)
  BY DEF Register
<1> HIDE DEF row
<1>3. audit[a] = <<>> /\ revision[a] = 0
  BY <1>2 DEF Trail, AuditReplays
<1>4. Adds(a, row)
  BY <1>1, <1>3 DEF Adds
<1>5. Apply(a, row, revision[a] + 1)
  BY <1>2, <1>3
<1>6. /\ ActiveKeys(a)' = {k} /\ ActiveCreds(a)' = {c}
      /\ \A b \in Authors \ {a} : /\ ActiveKeys(b)' = ActiveKeys(b)
                                  /\ ActiveCreds(b)' = ActiveCreds(b)
  BY RegisterLive
<1>7. k # None /\ c # None
  BY NoneAssumption
<1>8. AuditReplays'
  BY <1>1, <1>4, <1>5, <1>6, <1>7, RowAppended DEF Trail
<1>9. QED
  BY <1>1, <1>4, <1>5, <1>8, TrailStatus DEF Trail

LEMMA WriteTrail ==
  ASSUME Typed, OneLiveIdentity, Trail, NEW r \in Requests, Write(r)
  PROVE  Trail'
<1>1. PICK a \in Authors, row \in AuditRows : Found(a, row) /\ Apply(a, row, revision[a] + 1)
  BY WriteFinds
<1>2. Shaped(row) /\ Applicable(a, row) /\ status[a] = "active" /\ None \notin Keys /\ None \notin Creds
  BY <1>1, NoneAssumption DEF Found
<1>3. Adds(a, row)
  BY <1>2 DEF Adds, Applicable, Trail
<1>4. /\ row.event = "key_rotated" =>
           ActiveKeys(a)' = {row.newKey} /\ ActiveCreds(a)' = ActiveCreds(a)
      /\ row.event = "credential_rotated" =>
           ActiveKeys(a)' = ActiveKeys(a) /\ ActiveCreds(a)' = {row.newCred}
      /\ row.event = "author_revoked" => ActiveKeys(a)' = {} /\ ActiveCreds(a)' = {}
      /\ \A b \in Authors \ {a} : /\ ActiveKeys(b)' = ActiveKeys(b)
                                  /\ ActiveCreds(b)' = ActiveCreds(b)
  BY <1>1, AppliedLive
<1>5. \A k \in Keys : k \in ActiveKeys(a)' <=>
        row.newKey = k \/ (row.newKey = None /\ row.event # "author_revoked" /\ k \in ActiveKeys(a))
  BY <1>2, <1>4 DEF Shaped
<1>6. \A c \in Creds : c \in ActiveCreds(a)' <=>
        row.newCred = c \/ (row.newCred = None /\ row.event # "author_revoked" /\ c \in ActiveCreds(a))
  BY <1>2, <1>4 DEF Shaped
<1>7. AuditReplays'
  BY <1>1, <1>3, <1>4, <1>5, <1>6, RowAppended DEF Trail
<1>8. QED
  BY <1>1, <1>3, <1>7, TrailStatus DEF Trail

LEMMA NextTrail == Typed /\ OneLiveIdentity /\ Trail /\ [Next]_vars => Trail'
<1> SUFFICES ASSUME Typed, OneLiveIdentity, Trail, [Next]_vars PROVE Trail'
  OBVIOUS
<1>1. CASE UNCHANGED rowVars
  BY <1>1 DEF rowVars, Trail, AuditReplays, ActiveKeys, ActiveCreds
<1>2. QED
  BY <1>1, OtherSteps, RegisterTrail, WriteTrail

LEMMA InitTrail == Init => Trail
<1> SUFFICES ASSUME Init PROVE Trail
  OBVIOUS
<1>1. ASSUME NEW a \in Authors
      PROVE  /\ Len(audit[a]) = revision[a] /\ audit[a] = <<>>
             /\ ActiveKeys(a) = {} /\ ActiveCreds(a) = {}
             /\ 1..Len(audit[a]) = {}
  BY DEF Init, ActiveKeys, ActiveCreds
<1>2. QED
  BY <1>1 DEF Trail, AuditReplays, InForce

\* The audit trail of every author replays to its keys and credentials in force,
\* whatever requests overlapped; no row follows a revocation.
THEOREM TrailReplays == Spec => []AuditReplays
<1>1. Trail => AuditReplays
  BY DEF Trail
<1>2. QED
  BY <1>1, InitTyped, NextTyped, InitLive, NextLive, InitTrail, NextTrail, PTL DEF Spec

\* authenticate accepts a credential exactly while the audit trail has it in force.
THEOREM CredentialInForce == Spec => []CurrentCredentialOnly
<1>1. OneLiveIdentity /\ AuditReplays => CurrentCredentialOnly
  <2>1. SUFFICES ASSUME OneLiveIdentity, AuditReplays, NEW a \in Authors, NEW c \in Creds
                 PROVE  Accepts(a, c, TRUE) <=> InForce(audit[a], "newCred", c)
    BY DEF CurrentCredentialOnly
  <2>2. c \in ActiveCreds(a) <=> InForce(audit[a], "newCred", c)
    BY <2>1 DEF AuditReplays
  <2>3. c \in ActiveCreds(a) => status[a] = "active"
    BY <2>1 DEF OneLiveIdentity
  <2>4. QED
    BY <2>2, <2>3 DEF Accepts, ActiveCreds
<1>2. QED
  BY <1>1, IdentityIsSingle, TrailReplays, PTL

\* One live identity for each author, the one the trail tells and authentication
\* goes by, whatever requests overlapped.
THEOREM IdentityIsTold == Spec => []IdentityTold
<1>1. OneLiveIdentity /\ AuditReplays /\ CurrentCredentialOnly => IdentityTold
  BY DEF IdentityTold
<1>2. QED
  BY <1>1, IdentityIsSingle, TrailReplays, CredentialInForce, PTL

-----------------------------------------------------------------------------
(* The tables implement the life cycle.                                    *)

SigningMap    == [a \in Authors |-> ActiveKeys(a)]
BearerMap     == [a \in Authors |-> ActiveCreds(a)]
SpentKeysMap  == {k \in Keys : keyStatus[k] # "unused"}
SpentCredsMap == {c \in Creds : credStatus[c] # "unused"}
SeesMap       == [r \in Requests |-> Sees(r)]

\* The keys and credentials a row spends.
LEMMA SpentAfter ==
  ASSUME TypeOK, NEW a \in Authors, NEW row \in AuditRows, NEW n \in Nat,
         Applicable(a, row), Apply(a, row, n)
  PROVE  /\ SpentKeysMap' = SpentKeysMap \cup ({row.newKey} \ {None})
         /\ SpentCredsMap' = SpentCredsMap \cup ({row.newCred} \ {None})
<1>1. /\ row.newKey \in KeyRef /\ None \notin Keys
      /\ row.newCred \in CredRef /\ None \notin Creds
  BY NoneAssumption DEF AuditRows
<1>2. \A k \in Keys : k = row.priorKey => keyStatus[k] # "unused"
  BY <1>1 DEF Applicable, ActiveKeys
<1>3. \A c \in Creds : c = row.priorCred => credStatus[c] # "unused"
  BY <1>1 DEF Applicable, ActiveCreds
<1>4. \A k \in Keys : keyStatus'[k] = IF k = row.newKey THEN "active"
                                       ELSE IF k = row.priorKey THEN "revoked" ELSE keyStatus[k]
  BY DEF Apply, Restated, TypeOK
<1>5. \A c \in Creds : credStatus'[c] = IF c = row.newCred THEN "active"
                                         ELSE IF c = row.priorCred THEN "revoked" ELSE credStatus[c]
  BY DEF Apply, Restated, TypeOK
<1>6. SpentKeysMap' = SpentKeysMap \cup ({row.newKey} \ {None})
  BY <1>1, <1>2, <1>4 DEF SpentKeysMap, KeyRef
<1>7. SpentCredsMap' = SpentCredsMap \cup ({row.newCred} \ {None})
  BY <1>1, <1>3, <1>5 DEF SpentCredsMap, CredRef
<1>8. QED
  BY <1>6, <1>7

\* What a request goes by once it has read, and once it is over.
LEMMA SeesAfter ==
  ASSUME Typed, NEW r \in Requests
  PROVE  /\ pending[r] = Idle => SeesMap[r] = Idle
         /\ pending[r] # Idle => SeesMap[r] = [author |-> pending[r].author,
                                              revision |-> pending[r].revision]
         /\ pending[r] # Idle => SeesMap[r] # Idle
         /\ pending' = [pending EXCEPT ![r] = Idle] => SeesMap' = [SeesMap EXCEPT ![r] = Idle]
         /\ \A read \in Reads :
              pending' = [pending EXCEPT ![r] = read] =>
                SeesMap' = [SeesMap EXCEPT ![r] = [author |-> read.author,
                                                   revision |-> read.revision]]
<1>1. /\ pending[r] = Idle => SeesMap[r] = Idle
      /\ pending[r] # Idle => SeesMap[r] = [author |-> pending[r].author,
                                           revision |-> pending[r].revision]
  BY DEF SeesMap, Sees
<1>2. ASSUME NEW read \in Reads PROVE read # Idle /\ read.author \in Authors
  <2>1. read.author \in Authors /\ Idle.author = None
    BY DEF Reads, Idle
  <2>2. QED
    BY <2>1, NoneAssumption
<1>3. pending[r] # Idle => SeesMap[r] # Idle
  <2> SUFFICES ASSUME pending[r] # Idle PROVE SeesMap[r] # Idle
    OBVIOUS
  <2>1. SeesMap[r].author \in Authors /\ Idle.author = None
    BY <1>1, PendingTyped DEF Idle
  <2>2. QED
    BY <2>1, NoneAssumption
<1>4. ASSUME NEW read \in Reads \cup {Idle}, pending' = [pending EXCEPT ![r] = read]
      PROVE  SeesMap' = [SeesMap EXCEPT ![r] =
                           IF read = Idle THEN Idle
                           ELSE [author |-> read.author, revision |-> read.revision]]
  <2>1. /\ pending'[r] = read
        /\ \A q \in Requests : q # r => pending'[q] = pending[q]
    BY <1>4 DEF Typed, TypeOK
  <2>2. QED
    BY <2>1 DEF SeesMap, Sees
<1>5. pending' = [pending EXCEPT ![r] = Idle] => SeesMap' = [SeesMap EXCEPT ![r] = Idle]
  BY <1>4
<1>6. ASSUME NEW read \in Reads, pending' = [pending EXCEPT ![r] = read]
      PROVE  SeesMap' = [SeesMap EXCEPT ![r] = [author |-> read.author,
                                                revision |-> read.revision]]
  BY <1>2, <1>4, <1>6
<1>7. QED
  BY <1>1, <1>3, <1>5, <1>6

\* An author who was never registered has made no identity change.
Unregistered == \A a \in Authors : status[a] = "absent" => revision[a] = 0

LEMMA NextUnregistered == Typed /\ OneLiveIdentity /\ Unregistered /\ [Next]_vars => Unregistered'
<1> SUFFICES ASSUME Typed, OneLiveIdentity, Unregistered, [Next]_vars PROVE Unregistered'
  OBVIOUS
<1>1. CASE UNCHANGED rowVars
  BY <1>1 DEF rowVars, Unregistered
<1>2. ASSUME NEW a \in Authors, NEW row \in AuditRows, NEW n, Apply(a, row, n)
      PROVE  Unregistered'
  <2>1. status'[a] # "absent"
    BY <1>2 DEF Apply, Typed, TypeOK
  <2>2. \A b \in Authors \ {a} : status'[b] = status[b] /\ revision'[b] = revision[b]
    BY <1>2 DEF Apply, Typed, TypeOK
  <2>3. QED
    BY <2>1, <2>2 DEF Unregistered
<1>3. ASSUME NEW a \in Authors, NEW k \in Keys, NEW c \in Creds, NEW i \in Idems,
             Register(a, k, c, i)
      PROVE  Unregistered'
  <2>1. [event |-> "registered", priorKey |-> None, newKey |-> k,
         priorCred |-> None, newCred |-> c, idem |-> i] \in AuditRows
    BY DEF AuditRows, EventTypes, KeyRef, CredRef
  <2>2. QED
    BY <1>2, <1>3, <2>1 DEF Register
<1>4. QED
  BY <1>1, <1>2, <1>3, OtherSteps, WriteFinds

LEMMA MapInit == Init => Lifecycle!Init
BY DEF Init, Lifecycle!Init, Lifecycle!Idle, Idle, Sees, ActiveKeys, ActiveCreds

LEMMA MapRegister ==
  ASSUME Typed, OneLiveIdentity, Unregistered, NEW a \in Authors, NEW k \in Keys,
         NEW c \in Creds, NEW i \in Idems, Register(a, k, c, i)
  PROVE  Lifecycle!Register(a, k, c)
<1> DEFINE row == [event |-> "registered", priorKey |-> None, newKey |-> k,
                   priorCred |-> None, newCred |-> c, idem |-> i]
<1>1. row \in AuditRows
  BY DEF AuditRows, EventTypes, KeyRef, CredRef
<1>2. Apply(a, row, 1) /\ Applicable(a, row) /\ status[a] = "absent"
  BY DEF Register, Generated, Applicable
<1>3. k # None /\ c # None /\ keyStatus[k] = "unused" /\ credStatus[c] = "unused"
  BY NoneAssumption DEF Register, Generated
<1>4. SpentKeysMap' = SpentKeysMap \cup {k} /\ SpentCredsMap' = SpentCredsMap \cup {c}
  BY <1>1, <1>2, <1>3, SpentAfter DEF Typed
<1>5. /\ SigningMap' = [SigningMap EXCEPT ![a] = {k}]
      /\ BearerMap' = [BearerMap EXCEPT ![a] = {c}]
  BY RegisterLive DEF SigningMap, BearerMap
<1>6. status' = [status EXCEPT ![a] = "active"] /\ revision' = [revision EXCEPT ![a] = 1]
  BY <1>2 DEF Apply
<1>7. revision[a] = 0
  BY <1>2 DEF Unregistered
<1>8. SeesMap' = SeesMap
  BY DEF Register, SeesMap, Sees
<1>9. QED
  BY <1>2, <1>3, <1>4, <1>5, <1>6, <1>7, <1>8
     DEF Lifecycle!Register, Lifecycle!Advance, Lifecycle!NewKey, Lifecycle!NewCredential,
         SigningMap, BearerMap, SpentKeysMap, SpentCredsMap, SeesMap

LEMMA MapWrite ==
  ASSUME Typed, OneLiveIdentity, NEW r \in Requests, Write(r)
  PROVE  Lifecycle!Next
<1>1. PICK a \in Authors, row \in AuditRows :
        /\ Found(a, row) /\ Apply(a, row, revision[a] + 1)
        /\ a = pending[r].author /\ revision[a] = pending[r].revision
  BY WriteFinds
<1>s. /\ SeesMap[r] = [author |-> a, revision |-> revision[a]]
      /\ SeesMap' = [SeesMap EXCEPT ![r] = Idle]
  BY <1>1, SeesAfter DEF Write
<1>2. Applicable(a, row) /\ Shaped(row) /\ status[a] = "active" /\ revision[a] + 1 \in Nat
  BY <1>1 DEF Found, Typed, TypeOK
<1>3. revision' = [revision EXCEPT ![a] = @ + 1] /\ None \notin Keys /\ None \notin Creds
  BY <1>1, NoneAssumption DEF Apply
<1>4. /\ SpentKeysMap' = SpentKeysMap \cup ({row.newKey} \ {None})
      /\ SpentCredsMap' = SpentCredsMap \cup ({row.newCred} \ {None})
  BY <1>1, <1>2, SpentAfter DEF Typed
<1>5. CASE row.event = "key_rotated"
  <2>1. row.newKey \in Keys /\ row.newCred = None /\ keyStatus[row.newKey] = "unused"
    BY <1>2, <1>3, <1>5 DEF Shaped, Applicable
  <2>2. /\ SigningMap' = [SigningMap EXCEPT ![a] = {row.newKey}] /\ BearerMap' = BearerMap
        /\ status' = status
        /\ SpentKeysMap' = SpentKeysMap \cup {row.newKey} /\ SpentCredsMap' = SpentCredsMap
    <3>1. status' = status
      BY <1>1, <1>2, <1>5 DEF Apply, Typed, TypeOK
    <3>2. SigningMap' = [SigningMap EXCEPT ![a] = {row.newKey}] /\ BearerMap' = BearerMap
      BY <1>1, <1>5, AppliedLive DEF SigningMap, BearerMap
    <3>3. QED
      BY <1>3, <1>4, <2>1, <3>1, <3>2
  <2>3. Lifecycle!RotateKey(r, a, row.newKey)
    BY <1>s, <1>2, <1>3, <2>1, <2>2
       DEF Lifecycle!RotateKey, Lifecycle!Advance, Lifecycle!NewKey, Lifecycle!Current,
           Lifecycle!Done, Lifecycle!Idle, Idle, SigningMap, BearerMap, SpentKeysMap,
           SpentCredsMap, SeesMap
  <2>4. QED
    BY <2>1, <2>3 DEF Lifecycle!Next
<1>6. CASE row.event = "credential_rotated"
  <2>1. row.newCred \in Creds /\ row.newKey = None /\ credStatus[row.newCred] = "unused"
    BY <1>2, <1>3, <1>6 DEF Shaped, Applicable
  <2>2. /\ BearerMap' = [BearerMap EXCEPT ![a] = {row.newCred}] /\ SigningMap' = SigningMap
        /\ status' = status
        /\ SpentCredsMap' = SpentCredsMap \cup {row.newCred} /\ SpentKeysMap' = SpentKeysMap
    <3>1. status' = status
      BY <1>1, <1>2, <1>6 DEF Apply, Typed, TypeOK
    <3>2. BearerMap' = [BearerMap EXCEPT ![a] = {row.newCred}] /\ SigningMap' = SigningMap
      BY <1>1, <1>6, AppliedLive DEF SigningMap, BearerMap
    <3>3. QED
      BY <1>3, <1>4, <2>1, <3>1, <3>2
  <2>3. Lifecycle!RotateCredential(r, a, row.newCred)
    BY <1>s, <1>2, <1>3, <2>1, <2>2
       DEF Lifecycle!RotateCredential, Lifecycle!Advance, Lifecycle!NewCredential,
           Lifecycle!Current, Lifecycle!Done, Lifecycle!Idle, Idle, SigningMap, BearerMap,
           SpentKeysMap, SpentCredsMap, SeesMap
  <2>4. QED
    BY <2>1, <2>3 DEF Lifecycle!Next
<1>7. CASE row.event = "author_revoked"
  <2>1. row.newKey = None /\ row.newCred = None
    BY <1>2, <1>7 DEF Shaped
  <2>2. status' = [status EXCEPT ![a] = "revoked"]
    BY <1>1, <1>7 DEF Apply
  <2>3. /\ SigningMap' = [SigningMap EXCEPT ![a] = {}]
        /\ BearerMap' = [BearerMap EXCEPT ![a] = {}]
    BY <1>1, <1>7, AppliedLive DEF SigningMap, BearerMap
  <2>4. SpentKeysMap' = SpentKeysMap /\ SpentCredsMap' = SpentCredsMap
    BY <1>4, <2>1
  <2>5. Lifecycle!Revoke(r, a)
    BY <1>s, <1>2, <1>3, <2>2, <2>3, <2>4
       DEF Lifecycle!Revoke, Lifecycle!Advance, Lifecycle!Done, Lifecycle!Idle, Idle,
           SigningMap, BearerMap, SpentKeysMap, SpentCredsMap, SeesMap
  <2>6. QED
    BY <2>5 DEF Lifecycle!Next
<1>8. QED
  BY <1>2, <1>5, <1>6, <1>7 DEF Shaped

\* A request that has read, or is over without having written.
LEMMA MapLook ==
  ASSUME Typed, NEW r \in Requests, NEW a \in Authors, NEW row \in AuditRows,
         Proceeds(r, a, row)
  PROVE  Lifecycle!Look(r, a)
<1>1. /\ pending[r] = Idle /\ status[a] = "active" /\ UNCHANGED rowVars
      /\ pending' = [pending EXCEPT ![r] = [author |-> a, revision |-> revision[a], row |-> row]]
  BY DEF Proceeds
<1>2. [author |-> a, revision |-> revision[a], row |-> row] \in Reads
  BY DEF Reads, Typed, TypeOK
<1>3. /\ SeesMap[r] = Idle
      /\ SeesMap' = [SeesMap EXCEPT ![r] = [author |-> a, revision |-> revision[a]]]
  BY <1>1, <1>2, SeesAfter
<1>4. QED
  BY <1>1, <1>3
     DEF Lifecycle!Look, Lifecycle!identity, Lifecycle!Idle, Idle, rowVars, ActiveKeys,
         ActiveCreds, SeesMap

LEMMA MapLeave ==
  ASSUME Typed, NEW r \in Requests, Conflict(r) \/ Abandon(r)
  PROVE  Lifecycle!Leave(r)
<1>1. pending[r] # Idle /\ UNCHANGED rowVars /\ pending' = [pending EXCEPT ![r] = Idle]
  BY DEF Conflict, Abandon
<1>2. SeesMap[r] # Idle /\ SeesMap' = [SeesMap EXCEPT ![r] = Idle]
  BY <1>1, SeesAfter
<1>3. QED
  BY <1>1, <1>2
     DEF Lifecycle!Leave, Lifecycle!Done, Lifecycle!identity, Lifecycle!Idle, Idle, rowVars,
         ActiveKeys, ActiveCreds, SeesMap

LEMMA MapNext ==
  Typed /\ OneLiveIdentity /\ Unregistered /\ [Next]_vars => [Lifecycle!Next]_(Lifecycle!vars)
<1> SUFFICES ASSUME Typed, OneLiveIdentity, Unregistered, [Next]_vars
             PROVE  [Lifecycle!Next]_(Lifecycle!vars)
  OBVIOUS
<1>1. CASE UNCHANGED vars
  BY <1>1 DEF vars, rowVars, Lifecycle!vars, Lifecycle!identity, ActiveKeys, ActiveCreds, Sees
<1>2. ASSUME NEW a \in Authors, NEW k \in Keys, NEW c \in Creds, NEW i \in Idems,
             Register(a, k, c, i)
      PROVE  Lifecycle!Next
  BY <1>2, MapRegister DEF Lifecycle!Next
<1>3. ASSUME NEW r \in Requests, NEW a \in Authors, NEW i \in Idems,
             \/ \E k \in Keys : ReadForKey(r, a, k, i)
             \/ \E c \in Creds : ReadForCredential(r, a, c, i)
             \/ ReadForRevocation(r, a, i)
      PROVE  Lifecycle!Next
  <2>1. \E row \in AuditRows : Proceeds(r, a, row)
    BY <1>3, ReadsProceed
  <2>2. QED
    BY <2>1, MapLook DEF Lifecycle!Next
<1>4. ASSUME NEW r \in Requests, Write(r) PROVE Lifecycle!Next
  BY <1>4, MapWrite
<1>5. ASSUME NEW r \in Requests, Conflict(r) \/ Abandon(r) PROVE Lifecycle!Next
  BY <1>5, MapLeave DEF Lifecycle!Next
<1>6. QED
  BY <1>1, <1>2, <1>3, <1>4, <1>5 DEF Next

\* Every run of the identity tables is a run of the life cycle: a request is
\* one step of it, whatever other requests did between its reads and its write,
\* and a rotation is a step of the identity its caller expected.
THEOREM TablesImplementLifecycle == Spec => ImplementsIdentity
<1>1. Init => Unregistered
  BY DEF Init, Unregistered
<1>2. QED
  BY <1>1, InitTyped, NextTyped, InitLive, NextLive, NextUnregistered, MapInit, MapNext, PTL
     DEF Spec, ImplementsIdentity, Lifecycle!Spec
=============================================================================
