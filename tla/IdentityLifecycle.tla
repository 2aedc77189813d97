-------------------------- MODULE IdentityLifecycle --------------------------
(***************************************************************************)
(* What the hub promises about an author's identity, as if every request   *)
(* changed it in one step: an author is registered once with one signing   *)
(* key and one bearer credential; a rotation replaces one of the two by    *)
(* one never used before and advances the revision by one, and only of the *)
(* identity its caller saw, so that of the rotations decided on one        *)
(* revision a single one is made; a revocation ends both, for good.        *)
(* AuthorIdentity implements this specification.                           *)
(***************************************************************************)
EXTENDS Naturals

CONSTANTS Authors, Keys, Creds, Requests, None

VARIABLES
  status,     \* "absent", "active" or "revoked"
  revision,   \* identity changes so far
  signing,    \* keys that sign for the author: one while active
  bearer,     \* credentials that speak for the author: one while active
  spentKeys,  \* keys ever registered, by anyone
  spentCreds,
  sees        \* the author and the revision each request was decided on

identity == <<status, revision, signing, bearer, spentKeys, spentCreds>>
vars     == <<identity, sees>>

Idle == [author |-> None]

Init ==
  /\ status   = [a \in Authors |-> "absent"]
  /\ revision = [a \in Authors |-> 0]
  /\ signing  = [a \in Authors |-> {}]
  /\ bearer   = [a \in Authors |-> {}]
  /\ spentKeys = {} /\ spentCreds = {}
  /\ sees     = [r \in Requests |-> Idle]

NewKey(a, k) ==
  /\ k \notin spentKeys
  /\ spentKeys' = spentKeys \cup {k}
  /\ signing' = [signing EXCEPT ![a] = {k}]

NewCredential(a, c) ==
  /\ c \notin spentCreds
  /\ spentCreds' = spentCreds \cup {c}
  /\ bearer' = [bearer EXCEPT ![a] = {c}]

Advance(a) == revision' = [revision EXCEPT ![a] = @ + 1]

Register(a, k, c) ==
  /\ status[a] = "absent"
  /\ status' = [status EXCEPT ![a] = "active"]
  /\ Advance(a) /\ NewKey(a, k) /\ NewCredential(a, c)
  /\ UNCHANGED sees

\* A request is decided on the identity there is.
Look(r, a) ==
  /\ sees[r] = Idle
  /\ status[a] = "active"
  /\ sees' = [sees EXCEPT ![r] = [author |-> a, revision |-> revision[a]]]
  /\ UNCHANGED identity

\* The identity is still the one the request was decided on.
Current(r, a) == sees[r] = [author |-> a, revision |-> revision[a]]

Done(r) == sees' = [sees EXCEPT ![r] = Idle]

RotateKey(r, a, k) ==
  /\ status[a] = "active" /\ Current(r, a)
  /\ Advance(a) /\ NewKey(a, k) /\ Done(r)
  /\ UNCHANGED <<status, bearer, spentCreds>>

RotateCredential(r, a, c) ==
  /\ status[a] = "active" /\ Current(r, a)
  /\ Advance(a) /\ NewCredential(a, c) /\ Done(r)
  /\ UNCHANGED <<status, signing, spentKeys>>

\* Whatever has become of the identity since it was looked at.
Revoke(r, a) ==
  /\ status[a] = "active" /\ sees[r].author = a
  /\ status' = [status EXCEPT ![a] = "revoked"]
  /\ Advance(a) /\ Done(r)
  /\ signing' = [signing EXCEPT ![a] = {}]
  /\ bearer'  = [bearer EXCEPT ![a] = {}]
  /\ UNCHANGED <<spentKeys, spentCreds>>

\* A conflict, or nobody is left to go on.
Leave(r) ==
  /\ sees[r] # Idle
  /\ Done(r)
  /\ UNCHANGED identity

Next ==
  \/ \E a \in Authors, k \in Keys, c \in Creds : Register(a, k, c)
  \/ \E r \in Requests :
       \/ \E a \in Authors :
            \/ Look(r, a)
            \/ \E k \in Keys : RotateKey(r, a, k)
            \/ \E c \in Creds : RotateCredential(r, a, c)
            \/ Revoke(r, a)
       \/ Leave(r)

Spec == Init /\ [][Next]_vars
=============================================================================
