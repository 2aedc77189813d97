---------------------------- MODULE UploadProofs ----------------------------
(***************************************************************************)
(* What an upload has to be: its archive and its metadata, for any members *)
(* and paths, any triggers and actions, and any limits.                    *)
(*                                                                         *)
(* What the inspection of an archive remembers of the members it has seen  *)
(* is all that decides whether they fall together, so an archive it passes *)
(* is one tree with one manifest.  What it counts is their sum, so an      *)
(* archive it passes is within the limits, one it refuses is not           *)
(* acceptable in any order, and the rebuilt one is refused exactly if it   *)
(* has outgrown a limit on the files, the stream or the archive as a whole.*)
(***************************************************************************)
EXTENDS Upload, WellFoundedInduction, TLAPS

PathOf(i) == members[i].path
Indices == 1..Len(members)

Typed ==
  /\ members \in Seq(Members)
  /\ rebuilt \in Seq(Members)
  /\ pass \in {1, 2}
  /\ archive \in [bytes : ArchiveSizes, expanded : Nat]
  /\ status \in {"arrived", "oversized", "reading", "inspected", "refused", "unreadable", "unsigned"}

\* What is remembered of the members.
Remembered ==
  /\ \A q : q \in seenFiles <=> \E i \in Indices : members[i].kind = "file" /\ q = Folded(PathOf(i))
  /\ \A q : q \in seenDirectories <=> \E i \in Indices : members[i].kind # "file" /\ q = Folded(PathOf(i))
  /\ \A q : q \in spellings <=> \E i \in Indices : \E k \in 1..Len(PathOf(i)) : q = Prefix(PathOf(i), k)
  /\ \A q : q \in manifests <=> \E i \in Indices : NamedManifest(PathOf(i)) /\ q = PathOf(i)

\* A manifest among them is the only one and in its place.
InPlace ==
  \A i \in Indices : NamedManifest(PathOf(i)) =>
    /\ members[i].kind = "file"
    /\ members[i].size <= MaxManifest
    /\ LastOf(PathOf(i)) = Manifest
    /\ Len(PathOf(i)) <= 2
    /\ \A j \in Indices : NamedManifest(PathOf(j)) => j = i

Ended == manifests # {} /\ \A i \in Indices : UnderPackageRoot(PathOf(i))

IInv ==
  /\ Typed
  /\ status \in {"arrived", "reading", "inspected"} => Remembered /\ Portable(members) /\ InPlace
  /\ status = "inspected" => Ended

LEMMA FoldedIs ==
  ASSUME NEW p \in Seq(Components)
  PROVE  /\ Folded(p) \in Seq(Components)
         /\ Len(Folded(p)) = Len(p)
         /\ \A k \in 1..Len(p) :
              /\ Prefix(p, k) \in Seq(Components) /\ Len(Prefix(p, k)) = k
              /\ Folded(Prefix(p, k)) = Prefix(Folded(p), k)
              /\ Len(Folded(Prefix(p, k))) = k
         /\ Prefix(p, Len(p)) = p
<1>1. Folded(p) \in Seq(Components) /\ Len(Folded(p)) = Len(p)
  BY ComponentsAssumption DEF Folded
<1>2. ASSUME NEW k \in 1..Len(p)
      PROVE  Prefix(p, k) \in Seq(Components) /\ Len(Prefix(p, k)) = k
  BY DEF Prefix
<1>3. ASSUME NEW k \in 1..Len(p)
      PROVE  Folded(Prefix(p, k)) = Prefix(Folded(p), k)
  BY <1>2 DEF Prefix, Folded
<1>4. ASSUME NEW k \in 1..Len(p)
      PROVE  Len(Folded(Prefix(p, k))) = k
  BY <1>2, ComponentsAssumption DEF Folded
<1>5. Prefix(p, Len(p)) = p
  BY DEF Prefix
<1> QED  BY <1>1, <1>2, <1>3, <1>4, <1>5

LEMMA PathsAre ==
  ASSUME NEW m \in Members
  PROVE  m.path \in Seq(Components) /\ m.path # <<>> /\ Len(m.path) \in Nat \ {0} /\ m.kind \in Kinds
<1>1. m.path \in Seq(Components) /\ m.path # <<>> /\ m.kind \in Kinds
  BY ComponentsAssumption DEF Members
<1> QED  BY <1>1

LEMMA AppendedMember ==
  ASSUME NEW s \in Seq(Members), NEW m \in Members
  PROVE  /\ Append(s, m) \in Seq(Members)
         /\ Len(Append(s, m)) = Len(s) + 1
         /\ \A i \in 1..Len(s) : Append(s, m)[i] = s[i] /\ s[i] \in Members
         /\ Append(s, m)[Len(s) + 1] = m
         /\ \A i \in 1..(Len(s) + 1) : i \in 1..Len(s) \/ i = Len(s) + 1
OBVIOUS

-----------------------------------------------------------------------------
(* Sums.                                                                   *)

IsSums(ns, f) == f = [i \in 0..Len(ns) |-> IF i = 0 THEN 0 ELSE f[i - 1] + ns[i]]

\* What SumOf computes on its way.
Sums(ns) == CHOOSE f : IsSums(ns, f)

\* A set of numbers has a least one, so what holds of 0 and of the next number holds of all.
LEMMA Induction ==
  ASSUME NEW S, 0 \in S, \A n \in Nat : n \in S => n + 1 \in S
  PROVE  Nat \subseteq S
<1> DEFINE T == {n \in Nat : n \notin S}
<1>1. SUFFICES ASSUME T # {} PROVE FALSE
  OBVIOUS
<1>2. T \subseteq Nat /\ \A n \in T : n \in Nat /\ n \notin S
  OBVIOUS
<1>3. \A n \in Nat : n \notin S => n \in T
  OBVIOUS
<1> HIDE DEF T
<1>4. PICK n \in T : \A k \in T : ~(<<k, n>> \in OpToRel(<, Nat))
  BY <1>1, <1>2, NatLessThanWellFounded, WFMin
<1>5. n \in Nat /\ n \notin S /\ \A k \in T : ~(k < n)
  BY <1>2, <1>4 DEF OpToRel
<1>6. n - 1 \in Nat /\ n - 1 < n /\ (n - 1) + 1 = n
  BY <1>5
<1>7. n - 1 \in S
  BY <1>3, <1>5, <1>6
<1> QED  BY <1>5, <1>6, <1>7

LEMMA SumsExist ==
  ASSUME NEW ms \in Seq(Nat)
  PROVE  \E f \in [0..Len(ms) -> Nat] : IsSums(ms, f)
<1> DEFINE Upto(k, f) == f = [i \in 0..k |-> IF i = 0 THEN 0 ELSE f[i - 1] + ms[i]]
           S == {k \in Nat : k <= Len(ms) => \E f \in [0..k -> Nat] : Upto(k, f)}
<1>1. \A i \in 1..Len(ms) : ms[i] \in Nat
  OBVIOUS
<1>2. 0 \in S
  <2> DEFINE f == [i \in 0..0 |-> 0]
  <2>1. f \in [0..0 -> Nat] /\ Upto(0, f)
    OBVIOUS
  <2> QED  BY <2>1
<1>3. ASSUME NEW k \in Nat, k \in S PROVE k + 1 \in S
  <2> HIDE DEF Upto
  <2> SUFFICES ASSUME k + 1 <= Len(ms) PROVE \E g \in [0..(k + 1) -> Nat] : Upto(k + 1, g)
    OBVIOUS
  <2>1. PICK f \in [0..k -> Nat] : Upto(k, f)
    BY <1>3
  <2> USE DEF Upto
  <2> DEFINE g == [i \in 0..(k + 1) |-> IF i = k + 1 THEN f[k] + ms[k + 1] ELSE f[i]]
  <2>2. g \in [0..(k + 1) -> Nat]
    BY <1>1
  <2>3. ASSUME NEW i \in 0..(k + 1) PROVE g[i] = IF i = 0 THEN 0 ELSE g[i - 1] + ms[i]
    <3>1. CASE i = 0
      BY <2>1, <3>1
    <3>2. CASE i \in 1..k
      <4>1. g[i] = f[i] /\ g[i - 1] = f[i - 1]
        BY <3>2
      <4>2. f[i] = f[i - 1] + ms[i]
        BY <2>1, <3>2
      <4> QED  BY <3>2, <4>1, <4>2
    <3>3. CASE i = k + 1
      BY <3>3
    <3> QED  BY <3>1, <3>2, <3>3
  <2>4. g = [i \in 0..(k + 1) |-> g[i]]
    OBVIOUS
  <2>5. g = [i \in 0..(k + 1) |-> IF i = 0 THEN 0 ELSE g[i - 1] + ms[i]]
    <3> HIDE DEF g
    <3> QED  BY <2>3, <2>4
  <2> QED  BY <2>2, <2>5
<1> HIDE DEF S
<1>4. Nat \subseteq S
  BY <1>2, <1>3, Induction
<1>5. Len(ms) \in S
  BY <1>4
<1> QED  BY <1>5 DEF S, IsSums

\* Two sequences that begin with the same numbers have the same sums as far as that goes.
LEMMA SameSums ==
  ASSUME NEW ms \in Seq(Nat), NEW ns \in Seq(Nat), NEW f, NEW g, IsSums(ms, f), IsSums(ns, g),
         NEW n \in Nat, n <= Len(ms), n <= Len(ns), \A i \in 1..n : ms[i] = ns[i]
  PROVE  \A i \in 0..n : f[i] = g[i]
<1> DEFINE S == {k \in Nat : k <= n => f[k] = g[k]}
<1>1. f[0] = 0 /\ g[0] = 0
  BY DEF IsSums
<1>2. ASSUME NEW k \in Nat, k + 1 <= n
      PROVE  f[k + 1] = f[k] + ms[k + 1] /\ g[k + 1] = g[k] + ns[k + 1]
  <2>1. k + 1 \in 0..Len(ms) /\ k + 1 \in 0..Len(ns) /\ k + 1 # 0 /\ (k + 1) - 1 = k
    BY <1>2
  <2> QED  BY <2>1 DEF IsSums
<1>3. ASSUME NEW k \in Nat, k \in S PROVE k + 1 \in S
  BY <1>2, <1>3
<1>4. 0 \in S
  BY <1>1
<1>5. Nat \subseteq S
  <2> HIDE DEF S
  <2> QED  BY <1>3, <1>4, Induction
<1> QED  BY <1>5

LEMMA SumsAre ==
  ASSUME NEW ms \in Seq(Nat)
  PROVE  /\ IsSums(ms, Sums(ms))
         /\ Sums(ms)[0] = 0
         /\ \A i \in 0..Len(ms) : Sums(ms)[i] \in Nat
         /\ \A i \in 1..Len(ms) : Sums(ms)[i] = Sums(ms)[i - 1] + ms[i]
         /\ SumOf(ms) = Sums(ms)[Len(ms)]
         /\ SumOf(ms) \in Nat
<1>1. PICK f \in [0..Len(ms) -> Nat] : IsSums(ms, f)
  BY SumsExist
<1>2. IsSums(ms, Sums(ms))
  BY <1>1 DEF Sums
<1>3. \A i \in 0..Len(ms) : Sums(ms)[i] = f[i]
  BY <1>1, <1>2, SameSums
<1>4. \A i \in 0..Len(ms) : Sums(ms)[i] \in Nat
  BY <1>3
<1>5. Sums(ms)[0] = 0 /\ \A i \in 1..Len(ms) : Sums(ms)[i] = Sums(ms)[i - 1] + ms[i]
  BY <1>2 DEF IsSums
<1>6. SumOf(ms) = Sums(ms)[Len(ms)]
  BY DEF SumOf, Sums, IsSums
<1> QED  BY <1>2, <1>4, <1>5, <1>6

\* So the sums of a sequence go on from those of its beginning.
LEMMA FirstSums ==
  ASSUME NEW ms \in Seq(Nat), NEW ns \in Seq(Nat),
         Len(ms) <= Len(ns), \A i \in 1..Len(ms) : ms[i] = ns[i]
  PROVE  Sums(ms)[Len(ms)] = Sums(ns)[Len(ms)]
<1>1. Len(ms) \in Nat /\ Len(ms) <= Len(ms) /\ Len(ms) \in 0..Len(ms)
  OBVIOUS
<1>2. ASSUME NEW f, NEW g, IsSums(ms, f), IsSums(ns, g) PROVE f[Len(ms)] = g[Len(ms)]
  <2>1. \A i \in 0..Len(ms) : f[i] = g[i]
    BY <1>1, <1>2, SameSums
  <2> QED  BY <1>1, <2>1
<1>3. IsSums(ms, Sums(ms)) /\ IsSums(ns, Sums(ns))
  BY SumsAre
<1> QED  BY <1>2, <1>3

\* The first numbers of a sequence are no more than all of them together.
LEMMA SumGrows ==
  ASSUME NEW ms \in Seq(Nat), NEW ns \in Seq(Nat),
         Len(ms) <= Len(ns), \A i \in 1..Len(ms) : ms[i] = ns[i]
  PROVE  SumOf(ms) <= SumOf(ns)
<1> DEFINE S == {k \in Nat : Len(ms) + k <= Len(ns) => Sums(ns)[Len(ms)] <= Sums(ns)[Len(ms) + k]}
<1>1. \A i \in 0..Len(ns) : Sums(ns)[i] \in Nat
  BY SumsAre
<1>2. \A i \in 1..Len(ns) : Sums(ns)[i - 1] <= Sums(ns)[i]
  <2> SUFFICES ASSUME NEW i \in 1..Len(ns) PROVE Sums(ns)[i - 1] <= Sums(ns)[i]
    OBVIOUS
  <2>1. ns[i] \in Nat
    OBVIOUS
  <2>2. Sums(ns)[i] = Sums(ns)[i - 1] + ns[i]
    BY SumsAre
  <2>3. i - 1 \in 0..Len(ns)
    OBVIOUS
  <2>4. Sums(ns)[i - 1] \in Nat
    BY <1>1, <2>3
  <2> QED  BY <2>1, <2>2, <2>4
<1>3. Len(ms) \in 0..Len(ns) /\ Len(ms) \in Nat /\ Len(ns) \in Nat
  OBVIOUS
<1>4. 0 \in S
  BY <1>1, <1>3
<1>5. ASSUME NEW k \in Nat, k \in S PROVE k + 1 \in S
  <2> SUFFICES ASSUME Len(ms) + (k + 1) <= Len(ns)
               PROVE  Sums(ns)[Len(ms)] <= Sums(ns)[Len(ms) + (k + 1)]
    OBVIOUS
  <2>1. Sums(ns)[Len(ms)] <= Sums(ns)[Len(ms) + k]
    BY <1>3, <1>5
  <2>2. /\ Len(ms) + (k + 1) \in 1..Len(ns) /\ Len(ms) + (k + 1) - 1 = Len(ms) + k
        /\ Len(ms) + k \in 0..Len(ns)
    BY <1>3
  <2>3. Sums(ns)[Len(ms) + k] <= Sums(ns)[Len(ms) + (k + 1)]
    BY <1>2, <2>2
  <2>4. Sums(ns)[Len(ms)] \in Nat /\ Sums(ns)[Len(ms) + k] \in Nat /\ Sums(ns)[Len(ms) + (k + 1)] \in Nat
    BY <1>1, <1>3, <2>2
  <2> QED  BY <2>1, <2>3, <2>4
<1>6. Nat \subseteq S
  <2> HIDE DEF S
  <2> QED  BY <1>4, <1>5, Induction
<1>7. Len(ns) - Len(ms) \in S
  <2>1. Len(ns) - Len(ms) \in Nat
    BY <1>3
  <2> HIDE DEF S
  <2> QED  BY <1>6, <2>1
<1>8. Sums(ns)[Len(ms)] <= Sums(ns)[Len(ns)]
  <2>1. Len(ms) + (Len(ns) - Len(ms)) = Len(ns)
    BY <1>3
  <2> QED  BY <1>3, <1>7, <2>1
<1>9. Sums(ms)[Len(ms)] = Sums(ns)[Len(ms)]
  BY FirstSums
<1> QED  BY <1>8, <1>9, SumsAre

LEMMA SumOfAppend ==
  ASSUME NEW ms \in Seq(Nat), NEW m \in Nat
  PROVE  /\ SumOf(ms) \in Nat
         /\ SumOf(Append(ms, m)) = SumOf(ms) + m
<1> DEFINE ns == Append(ms, m)
           n == Len(ms)
<1>1. /\ ns \in Seq(Nat) /\ Len(ns) = n + 1 /\ ns[n + 1] = m /\ n \in Nat
      /\ \A i \in 1..n : ns[i] = ms[i]
  OBVIOUS
<1> HIDE DEF ns
<1>2. SumOf(ms) \in Nat /\ SumOf(ms) = Sums(ms)[n]
  BY <1>1, SumsAre
<1>3. Sums(ns)[n + 1] = Sums(ns)[n] + m
  <2>1. n + 1 \in 1..Len(ns) /\ (n + 1) - 1 = n
    BY <1>1
  <2> QED  BY <1>1, <2>1, SumsAre
<1>4. Sums(ns)[n] = Sums(ms)[n]
  <2>1. Len(ms) <= Len(ns) /\ \A i \in 1..Len(ms) : ms[i] = ns[i]
    BY <1>1
  <2> QED  BY <1>1, <2>1, FirstSums
<1>5. SumOf(ns) = Sums(ns)[n + 1]
  BY <1>1, SumsAre
<1> QED  BY <1>2, <1>3, <1>4, <1>5 DEF ns

-----------------------------------------------------------------------------
(* The sum of the sizes.                                                   *)

Weights(ms) == [i \in 1..Len(ms) |-> Weight(ms[i])]

LEMMA WeightIs ==
  ASSUME NEW m \in Members
  PROVE  Weight(m) \in Nat
<1>1. m.size \in Nat
  BY ComponentsAssumption DEF Members
<1> QED  BY <1>1 DEF Weight

LEMMA TotalIs ==
  ASSUME NEW ms \in Seq(Members)
  PROVE  /\ Weights(ms) \in Seq(Nat) /\ Len(Weights(ms)) = Len(ms)
         /\ \A i \in 1..Len(ms) : Weights(ms)[i] = Weight(ms[i])
         /\ TotalOf(ms) = SumOf(Weights(ms))
         /\ TotalOf(ms) \in Nat
<1>1. \A i \in 1..Len(ms) : Weight(ms[i]) \in Nat
  BY WeightIs
<1>2. /\ Weights(ms) \in Seq(Nat) /\ Len(Weights(ms)) = Len(ms)
      /\ \A i \in 1..Len(ms) : Weights(ms)[i] = Weight(ms[i])
  BY <1>1 DEF Weights
<1>3. TotalOf(ms) = SumOf(Weights(ms))
  BY DEF TotalOf, Weights
<1> QED  BY <1>2, <1>3, SumsAre

\* The first members of an archive are no larger than all of them together.
LEMMA TotalGrows ==
  ASSUME NEW ms \in Seq(Members), NEW ns \in Seq(Members),
         Len(ms) <= Len(ns), \A i \in 1..Len(ms) : ms[i] = ns[i]
  PROVE  TotalOf(ms) <= TotalOf(ns)
<1>1. \A i \in 1..Len(ms) : i \in 1..Len(ns)
  OBVIOUS
<1>2. \A i \in 1..Len(Weights(ms)) : Weights(ms)[i] = Weights(ns)[i]
  BY <1>1, TotalIs
<1> QED  BY <1>2, TotalIs, SumGrows

LEMMA TotalOfAppend ==
  ASSUME NEW ms \in Seq(Members), NEW m \in Members
  PROVE  /\ TotalOf(ms) \in Nat
         /\ TotalOf(Append(ms, m)) = TotalOf(ms) + Weight(m)
<1>1. /\ Append(ms, m) \in Seq(Members) /\ Len(Append(ms, m)) = Len(ms) + 1
      /\ Append(ms, m)[Len(ms) + 1] = m /\ \A i \in 1..Len(ms) : Append(ms, m)[i] = ms[i]
  BY AppendedMember
<1>2. Weights(Append(ms, m)) = Append(Weights(ms), Weight(m))
  <2> DEFINE new == Append(ms, m)
             longer == Append(Weights(ms), Weight(m))
  <2>1. /\ Weights(ms) \in Seq(Nat) /\ Len(Weights(ms)) = Len(ms) /\ Weight(m) \in Nat
        /\ \A i \in 1..Len(ms) : Weights(ms)[i] = Weight(ms[i])
    BY TotalIs, WeightIs
  <2>2. /\ Weights(new) \in Seq(Nat) /\ Len(Weights(new)) = Len(ms) + 1
        /\ \A i \in 1..(Len(ms) + 1) : Weights(new)[i] = Weight(new[i])
    BY <1>1, TotalIs
  <2>3. /\ longer \in Seq(Nat) /\ Len(longer) = Len(ms) + 1 /\ longer[Len(ms) + 1] = Weight(m)
        /\ \A i \in 1..Len(ms) : longer[i] = Weight(ms[i])
    BY <2>1
  <2> HIDE DEF new, longer
  <2>4. ASSUME NEW i \in 1..(Len(ms) + 1) PROVE Weights(new)[i] = longer[i]
    <3>1. CASE i \in 1..Len(ms)
      BY <1>1, <2>2, <2>3, <3>1 DEF new
    <3>2. CASE i = Len(ms) + 1
      BY <1>1, <2>2, <2>3, <3>2 DEF new
    <3>3. Len(ms) \in Nat
      OBVIOUS
    <3> QED  BY <3>1, <3>2, <3>3
  <2> QED  BY <2>2, <2>3, <2>4 DEF new, longer
<1> QED  BY <1>1, <1>2, TotalIs, WeightIs, SumOfAppend

LEMMA TotalOfNone == TotalOf(<<>>) = 0
<1>1. <<>> \in Seq(Members) /\ Weights(<<>>) = <<>>
  BY DEF Weights
<1>2. Sums(<<>>)[0] = 0 /\ SumOf(<<>>) = Sums(<<>>)[Len(<<>>)] /\ Len(<<>>) = 0
  <2>1. <<>> \in Seq(Nat)
    OBVIOUS
  <2> QED  BY <2>1, SumsAre
<1> QED  BY <1>1, <1>2, TotalIs

\* A stream has a length.
LEMMA FilledIs ==
  ASSUME NEW n \in Nat, NEW unit \in Nat \ {0}
  PROVE  Filled(n, unit) \in Nat
<1>1. n + unit - 1 \in Nat
  OBVIOUS
<1>2. (n + unit - 1) \div unit \in Nat
  BY <1>1
<1> QED  BY <1>2 DEF Filled

LEMMA StreamIs ==
  ASSUME NEW ms \in Seq(Members)
  PROVE  Stream(ms) \in Nat
<1> DEFINE ns == [i \in 1..Len(ms) |-> Written(ms[i])]
<1>1. ASSUME NEW m \in Members PROVE Written(m) \in Nat
  <2>1. m.path \in Paths /\ m.kind \in Kinds /\ m.size \in Nat
    BY ComponentsAssumption DEF Members
  <2>2. Headers[m.path][m.kind] \in Nat
    BY <2>1, StreamAssumption
  <2>3. Filled(m.size, Block) \in Nat
    BY <2>1, StreamAssumption, FilledIs
  <2> QED  BY <2>2, <2>3 DEF Written
<1>2. ns \in Seq(Nat)
  BY <1>1
<1>3. SumOf(ns) \in Nat
  <2> HIDE DEF ns
  <2> QED  BY <1>2, SumsAre
<1>4. SumOf(ns) + End \in Nat
  BY <1>3, StreamAssumption DEF End
<1> QED  BY <1>4, StreamAssumption, FilledIs DEF Stream

-----------------------------------------------------------------------------
(* What is remembered of the members.                                      *)

LEMMA PortableStep ==
  ASSUME IInv, NEW m \in Members, status = "reading", Accepted(m), members' = Append(members, m)
  PROVE  Portable(members)'
<1> DEFINE n == Len(members)
           new == Append(members, m)
<1>1. /\ members \in Seq(Members) /\ n \in Nat
      /\ Len(new) = n + 1 /\ new[n + 1] = m
      /\ \A i \in 1..n : new[i] = members[i] /\ members[i] \in Members
      /\ \A i \in 1..(n + 1) : i \in 1..n \/ i = n + 1
  BY AppendedMember DEF IInv, Typed
<1>2. Remembered /\ Distinct(members) /\ OneSpelling(members) /\ Tree(members) /\ Related(m)
  BY DEF IInv, Portable, Accepted
<1>3. m.path \in Seq(Components) /\ Len(m.path) \in Nat \ {0}
  BY PathsAre
<1>4. \A i \in 1..n : PathOf(i) \in Seq(Components) /\ Len(PathOf(i)) \in Nat \ {0}
  BY <1>1, PathsAre DEF PathOf
<1>5. \A i \in 1..n : Folded(PathOf(i)) # Folded(m.path)
  BY <1>2 DEF Related, Remembered, Indices
<1>6. Distinct(new)
  <2> SUFFICES ASSUME NEW i \in 1..(n + 1), NEW j \in 1..(n + 1), i # j
               PROVE  Folded(new[i].path) # Folded(new[j].path)
    BY <1>1 DEF Distinct
  <2>1. CASE i \in 1..n /\ j \in 1..n
    BY <1>1, <1>2, <2>1 DEF Distinct
  <2>2. CASE i = n + 1 \/ j = n + 1
    BY <1>1, <1>5, <2>2 DEF PathOf
  <2> QED  BY <1>1, <2>1, <2>2
<1>7. \A i \in 1..n : \A k \in 1..Len(PathOf(i)), l \in 1..Len(m.path) :
        Folded(Prefix(PathOf(i), k)) = Folded(Prefix(m.path, l)) => Prefix(PathOf(i), k) = Prefix(m.path, l)
  BY <1>2 DEF Related, SpelledAsBefore, Remembered, Indices
<1>8. OneSpelling(new)
  <2> SUFFICES ASSUME NEW i \in 1..(n + 1), NEW j \in 1..(n + 1),
                      NEW k \in 1..Len(new[i].path), NEW l \in 1..Len(new[j].path),
                      Folded(Prefix(new[i].path, k)) = Folded(Prefix(new[j].path, l))
               PROVE  Prefix(new[i].path, k) = Prefix(new[j].path, l)
    <3>1. Len(new) = n + 1
      BY <1>1
    <3> HIDE DEF n, new
    <3> QED  BY <3>1 DEF OneSpelling
  <2>1. CASE i \in 1..n /\ j \in 1..n
    <3>1. new[i] = members[i] /\ new[j] = members[j] /\ n = Len(members)
      BY <1>1, <2>1
    <3>2. OneSpelling(members)
      BY <1>2
    <3> HIDE DEF n, new
    <3> QED  BY <2>1, <3>1, <3>2 DEF OneSpelling
  <2>2. CASE i \in 1..n /\ j = n + 1
    BY <1>1, <1>7, <2>2 DEF PathOf
  <2>3. CASE i = n + 1 /\ j \in 1..n
    BY <1>1, <1>7, <2>3 DEF PathOf
  <2>4. CASE i = n + 1 /\ j = n + 1
    <3>1. k = l
      BY <1>1, <1>3, <2>4, FoldedIs
    <3> QED  BY <2>4, <3>1
  <2> QED  BY <1>1, <2>1, <2>2, <2>3, <2>4
<1>9. Tree(new)
  <2> SUFFICES ASSUME NEW i \in 1..(n + 1), NEW j \in 1..(n + 1), new[i].kind = "file",
                      IsPrefix(Folded(new[i].path), Folded(new[j].path)), i # j
               PROVE  FALSE
    BY <1>1 DEF Tree
  <2>1. CASE i \in 1..n /\ j \in 1..n
    BY <1>1, <1>2, <2>1 DEF Tree
  <2>2. CASE i \in 1..n /\ j = n + 1
    <3> DEFINE p == PathOf(i)
    <3>1. Len(Folded(p)) = Len(p) /\ Len(Folded(m.path)) = Len(m.path) /\ Prefix(Folded(m.path), Len(m.path)) = Folded(m.path)
      BY <1>3, <1>4, <2>2, FoldedIs
    <3>2. Len(p) <= Len(m.path) /\ Prefix(Folded(m.path), Len(p)) = Folded(p)
      BY <1>1, <2>2, <3>1 DEF IsPrefix, PathOf
    <3>3. Len(p) # Len(m.path)
      BY <1>5, <2>2, <3>1, <3>2
    <3>4. Len(p) \in 1..(Len(m.path) - 1) /\ Len(p) \in 1..Len(m.path)
      BY <1>3, <1>4, <2>2, <3>2, <3>3
    <3>5. Folded(Prefix(m.path, Len(p))) = Folded(p)
      BY <1>3, <3>2, <3>4, FoldedIs
    <3>6. Folded(p) \in seenFiles
      BY <1>1, <1>2, <2>2 DEF Remembered, Indices
    <3> QED  BY <1>2, <3>4, <3>5, <3>6 DEF Related, NoFileParent
  <2>3. CASE i = n + 1 /\ j \in 1..n
    <3>1. m.kind = "file" /\ IsPrefix(Folded(m.path), Folded(PathOf(j)))
      BY <1>1, <2>3 DEF PathOf
    <3>2. Folded(PathOf(j)) \in seenFiles \cup seenDirectories
      BY <1>2, <2>3 DEF Remembered, Indices
    <3> QED  BY <1>2, <1>5, <2>3, <3>1, <3>2 DEF Related, NoChild
  <2> QED  BY <1>1, <2>1, <2>2, <2>3
<1> QED  BY <1>6, <1>8, <1>9 DEF Portable

LEMMA RememberedStep ==
  ASSUME IInv, NEW m \in Members, status = "reading", members' = Append(members, m), Record(m)
  PROVE  Remembered'
<1> DEFINE n == Len(members)
           new == Append(members, m)
<1>1. /\ n \in Nat /\ Len(new) = n + 1 /\ new[n + 1] = m
      /\ \A i \in 1..n : new[i] = members[i]
      /\ \A i \in 1..(n + 1) : i \in 1..n \/ i = n + 1
      /\ \A i \in 1..n : i \in 1..(n + 1)
      /\ n + 1 \in 1..(n + 1)
  BY AppendedMember DEF IInv, Typed
<1> HIDE DEF n, new
<1>2. Len(members) = n /\ members' = new
  BY DEF n, new
<1>3. Remembered
  BY DEF IInv
<1>4. \A q : q \in seenFiles' <=> \E i \in 1..(n + 1) : new[i].kind = "file" /\ q = Folded(new[i].path)
  BY <1>1, <1>2, <1>3 DEF Record, Remembered, Indices, PathOf
<1>5. \A q : q \in seenDirectories' <=> \E i \in 1..(n + 1) : new[i].kind # "file" /\ q = Folded(new[i].path)
  BY <1>1, <1>2, <1>3 DEF Record, Remembered, Indices, PathOf
<1>6. \A q : q \in spellings' <=> \E i \in 1..(n + 1) : \E k \in 1..Len(new[i].path) : q = Prefix(new[i].path, k)
  BY <1>1, <1>2, <1>3 DEF Record, Remembered, Indices, PathOf
<1>7. \A q : q \in manifests' <=> \E i \in 1..(n + 1) : NamedManifest(new[i].path) /\ q = new[i].path
  BY <1>1, <1>2, <1>3 DEF Record, Remembered, Indices, PathOf
<1>8. Len(members') = n + 1
  BY <1>1, <1>2
<1> QED  BY <1>2, <1>4, <1>5, <1>6, <1>7, <1>8 DEF Remembered, Indices, PathOf

LEMMA InPlaceStep ==
  ASSUME IInv, NEW m \in Members, status = "reading", Accepted(m), members' = Append(members, m)
  PROVE  InPlace'
<1> DEFINE n == Len(members)
           new == Append(members, m)
<1>1. /\ n \in Nat /\ Len(new) = n + 1 /\ new[n + 1] = m
      /\ \A i \in 1..n : new[i] = members[i]
      /\ \A i \in 1..(n + 1) : i \in 1..n \/ i = n + 1
  BY AppendedMember DEF IInv, Typed
<1> HIDE DEF n, new
<1>2. Len(members) = n /\ members' = new
  BY DEF n, new
<1>3. Remembered /\ InPlace /\ ManifestInPlace(m)
  BY DEF IInv, Accepted
<1>4. NamedManifest(m.path) => \A i \in 1..n : ~NamedManifest(members[i].path)
  BY <1>2, <1>3 DEF ManifestInPlace, Remembered, Indices, PathOf
<1>5. \A i \in 1..(n + 1) : NamedManifest(new[i].path) =>
        /\ new[i].kind = "file" /\ new[i].size <= MaxManifest
        /\ LastOf(new[i].path) = Manifest /\ Len(new[i].path) <= 2
  BY <1>1, <1>2, <1>3 DEF InPlace, ManifestInPlace, Indices, PathOf
<1>6. \A i, j \in 1..(n + 1) : NamedManifest(new[i].path) /\ NamedManifest(new[j].path) => j = i
  BY <1>1, <1>2, <1>3, <1>4 DEF InPlace, Indices, PathOf
<1>7. Len(members') = n + 1
  BY <1>1, <1>2
<1> QED  BY <1>2, <1>5, <1>6, <1>7 DEF InPlace, Indices, PathOf

LEMMA InspectKeeps ==
  ASSUME IInv, NEW m \in Members, Inspect(m)
  PROVE  IInv'
<1>1. Typed'
  BY AppendedMember DEF IInv, Typed, Inspect, given
<1>2. CASE Accepted(m)
  BY <1>1, <1>2, PortableStep, RememberedStep, InPlaceStep DEF IInv, Inspect
<1>3. CASE ~Accepted(m)
  BY <1>1, <1>3 DEF IInv, Inspect
<1> QED  BY <1>2, <1>3

LEMMA EmptyIInv ==
  ASSUME members = <<>>, rebuilt \in Seq(Members), pass \in {1, 2}, status = "arrived",
         archive \in [bytes : ArchiveSizes, expanded : Nat],
         seenFiles = {}, seenDirectories = {}, spellings = {}, manifests = {}
  PROVE  IInv
<1>1. Typed
  BY DEF Typed
<1>2. Indices = {}
  BY DEF Indices
<1> QED  BY <1>1, <1>2 DEF IInv, Remembered, InPlace, Portable, Distinct, OneSpelling, Tree, Indices

LEMMA EmptyAgain ==
  ASSUME members' = <<>>, rebuilt' \in Seq(Members), pass' \in {1, 2}, status' = "arrived",
         archive' \in [bytes : ArchiveSizes, expanded : Nat],
         seenFiles' = {}, seenDirectories' = {}, spellings' = {}, manifests' = {}
  PROVE  IInv'
<1>1. Typed'
  BY DEF Typed
<1>2. Indices' = {}
  BY DEF Indices
<1> QED  BY <1>1, <1>2 DEF IInv, Remembered, InPlace, Portable, Distinct, OneSpelling, Tree, Indices

LEMMA InitIInv == Init => IInv
<1>1. Init => archive \in [bytes : ArchiveSizes, expanded : Nat]
  BY StreamAssumption DEF Init
<1> QED  BY <1>1, EmptyIInv DEF Init

LEMMA ResizedIsArchive ==
  ASSUME IInv, NEW size \in Sizes
  PROVE  Resized(size) \in Seq(Members)
<1>1. \A i \in 1..Len(members) : [members[i] EXCEPT !.size = size] \in Members /\ members[i] \in Members
  <2> SUFFICES ASSUME NEW m \in Members PROVE [m EXCEPT !.size = size] \in Members
    BY DEF IInv, Typed
  <2>1. [m EXCEPT !.size = size] = [path |-> m.path, kind |-> m.kind, size |-> size]
    BY DEF Members
  <2> QED  BY <2>1 DEF Members
<1> QED  BY <1>1 DEF Resized, IInv, Typed

LEMMA SameKept ==
  ASSUME UNCHANGED <<given, members, seen>>
  PROVE  /\ Remembered => Remembered'
         /\ Portable(members) => Portable(members)'
         /\ InPlace => InPlace'
         /\ Ended => Ended'
         /\ Typed /\ status' = status => Typed'
BY DEF given, seen, Remembered, Portable, Distinct, OneSpelling, Tree, InPlace, Ended, Typed, UnderPackageRoot, Indices, PathOf

LEMMA StepIInv == IInv /\ [Next]_vars => IInv'
<1> SUFFICES ASSUME IInv, [Next]_vars PROVE IInv'
  OBVIOUS
<1>1. CASE UNCHANGED vars
  BY <1>1, SameKept DEF vars, given, seen, IInv
<1>2. CASE \E m \in Members : Inspect(m)
  BY <1>2, InspectKeeps
<1>3. CASE EndOfStream
  <2>1. Typed' /\ (status' \in {"arrived", "reading", "inspected"} => Remembered' /\ Portable(members)' /\ InPlace')
    BY <1>3, SameKept DEF EndOfStream, given, seen, IInv, Typed
  <2>2. status' = "inspected" => Ended'
    BY <1>3 DEF EndOfStream, given, seen, Ended, UnderPackageRoot, Indices, PathOf
  <2> QED  BY <2>1, <2>2 DEF IInv
<1>4. CASE Unreadable
  BY <1>4 DEF Unreadable, given, seen, IInv, Typed
<1>5. CASE Decompress
  <2>1. Typed' /\ Remembered' /\ Portable(members)' /\ InPlace' /\ status' # "inspected"
    BY <1>5, SameKept DEF Decompress, given, IInv, Typed
  <2> QED  BY <2>1 DEF IInv
<1>6. CASE Rebuild
  <2>1. CASE status' = "unsigned" /\ UNCHANGED <<given, members, seen>>
    BY <2>1 DEF given, seen, IInv, Typed
  <2>2. CASE \E size \in SignedSizes :
               /\ rebuilt' = Resized(size) /\ pass' = 2 /\ status' = "arrived" /\ members' = <<>>
               /\ \E bytes \in ArchiveSizes : archive' = [bytes |-> bytes, expanded |-> Stream(Resized(size))]
               /\ seenFiles' = {} /\ seenDirectories' = {} /\ spellings' = {} /\ total' = 0 /\ manifests' = {}
    <3>1. PICK size \in SignedSizes, bytes \in ArchiveSizes :
            rebuilt' = Resized(size) /\ archive' = [bytes |-> bytes, expanded |-> Stream(Resized(size))]
      BY <2>2
    <3>2. Resized(size) \in Seq(Members)
      BY ResizedIsArchive DEF SignedSizes
    <3>3. archive' \in [bytes : ArchiveSizes, expanded : Nat]
      BY <3>1, <3>2, StreamIs
    <3> QED  BY <2>2, <3>1, <3>2, <3>3, EmptyAgain
  <2> QED  BY <1>6, <2>1, <2>2 DEF Rebuild
<1> QED  BY <1>1, <1>2, <1>3, <1>4, <1>5, <1>6 DEF Next

\* What _inspect_tarball remembers of the members read is what they are, at every step.
THEOREM Invariant == Spec => []IInv
BY InitIInv, StepIInv, PTL DEF Spec

\* Whatever the order of the members, their number and their paths: an archive
\* that _inspect_tarball passes is one tree on any file system, with one manifest.
LEMMA PassedIsSound ==
  ASSUME IInv, status = "inspected"
  PROVE  Portable(members) /\ OneManifest(members)
<1> SUFFICES OneManifest(members)
  BY DEF IInv
<1>1. Remembered /\ InPlace /\ Ended
  BY DEF IInv
<1>2. PICK i \in Indices : NamedManifest(PathOf(i)) /\ PathOf(i) \in manifests
  BY <1>1 DEF Remembered, Ended
<1>3. /\ LastOf(PathOf(i)) = Manifest /\ members[i].kind = "file" /\ members[i].size <= MaxManifest
      /\ Len(PathOf(i)) <= 2
      /\ \A j \in Indices : j # i => ~NamedManifest(PathOf(j))
  BY <1>1, <1>2 DEF InPlace
<1>4. \A j \in Indices : Len(PathOf(i)) = 2 => PathOf(j)[1] = PathOf(i)[1]
  BY <1>1, <1>2 DEF Ended, UnderPackageRoot
<1> QED  BY <1>2, <1>3, <1>4 DEF OneManifest, Indices, PathOf

-----------------------------------------------------------------------------
(* The limits, and what a refusal is for.                                  *)

\* Each member by itself, and their number.
EachWithin(ms) ==
  /\ Len(ms) <= MaxMembers
  /\ \A i \in 1..Len(ms) :
       /\ ms[i].kind # "link"
       /\ ms[i].size <= IF ms[i].kind = "file" THEN MaxFile ELSE 0
       /\ Canonical(ms[i].path)

\* A manifest among the members is the only one and in its place.
Placed(ms) ==
  \A i \in 1..Len(ms) : NamedManifest(ms[i].path) =>
    /\ ms[i].kind = "file"
    /\ ms[i].size <= MaxManifest
    /\ LastOf(ms[i].path) = Manifest
    /\ Len(ms[i].path) <= 2
    /\ \A j \in 1..Len(ms) : NamedManifest(ms[j].path) => j = i

\* All that an inspection that has not ended can refuse a member for, the total apart.
Unobjectionable(ms) == Portable(ms) /\ Placed(ms) /\ EachWithin(ms)

\* The members read are the first of the rebuilt archive.
Rereading ==
  /\ Len(members) <= Len(rebuilt)
  /\ \A i \in Indices : members[i] = rebuilt[i]

Counted == TotalOf(members) = total /\ EachWithin(members)

SecondPass ==
  /\ Unobjectionable(rebuilt)
  /\ OneManifest(rebuilt)
  /\ archive.expanded = Stream(rebuilt)
  /\ status \in {"arrived", "reading"} => Rereading
  /\ status = "inspected" => members = rebuilt
  /\ status = "oversized" => Oversized
  /\ status = "refused" => TotalOf(rebuilt) > MaxTotal

LimitsInv ==
  /\ total \in 0..MaxTotal
  /\ manifests \subseteq Paths
  /\ status \in {"arrived", "reading", "inspected"} => Counted
  /\ status \in {"reading", "inspected"} => ~Oversized
  /\ status = "refused" => ~Acceptable(members)
  /\ pass = 2 => SecondPass

LEMMA OneManifestPlaced ==
  ASSUME NEW ms \in Seq(Members), OneManifest(ms)
  PROVE  Placed(ms)
<1>1. PICK i \in 1..Len(ms) :
        /\ LastOf(ms[i].path) = Manifest /\ ms[i].kind = "file" /\ ms[i].size <= MaxManifest
        /\ Len(ms[i].path) <= 2
        /\ \A j \in 1..Len(ms) : j # i => ~NamedManifest(ms[j].path)
  BY DEF OneManifest
<1>2. \A j \in 1..Len(ms) : NamedManifest(ms[j].path) => j = i
  BY <1>1
<1> QED  BY <1>1, <1>2 DEF Placed

\* Fewer members give no more to object to.
LEMMA FewerAsGood ==
  ASSUME NEW ms \in Seq(Members), NEW ns \in Seq(Members), Unobjectionable(ns),
         Len(ms) <= Len(ns), \A i \in 1..Len(ms) : ms[i] = ns[i]
  PROVE  Unobjectionable(ms)
<1>1. \A i \in 1..Len(ms) : i \in 1..Len(ns) /\ ms[i] = ns[i]
  OBVIOUS
<1>2. Distinct(ms)
  BY <1>1 DEF Unobjectionable, Portable, Distinct
<1>3. OneSpelling(ms)
  BY <1>1 DEF Unobjectionable, Portable, OneSpelling
<1>4. Tree(ms)
  BY <1>1 DEF Unobjectionable, Portable, Tree
<1>5. Placed(ms)
  BY <1>1 DEF Unobjectionable, Placed
<1>6. EachWithin(ms)
  <2>1. Len(ms) <= MaxMembers
    BY LimitsAssumption DEF Unobjectionable, EachWithin
  <2> QED  BY <1>1, <2>1 DEF Unobjectionable, EachWithin
<1> QED  BY <1>2, <1>3, <1>4, <1>5, <1>6 DEF Unobjectionable, Portable

\* What is remembered of the members objects to a member only if the archive with it is not portable.
LEMMA RelatedIfPortable ==
  ASSUME IInv, status = "reading", NEW m \in Members, Portable(Append(members, m))
  PROVE  Related(m)
<1> DEFINE n == Len(members)
           new == Append(members, m)
<1>1. /\ n \in Nat /\ Len(new) = n + 1 /\ new[n + 1] = m
      /\ \A i \in 1..n : new[i] = members[i] /\ i \in 1..(n + 1) /\ i # n + 1
      /\ n + 1 \in 1..(n + 1)
  BY AppendedMember DEF IInv, Typed
<1>2. Remembered
  BY DEF IInv
<1>3. m.path \in Seq(Components) /\ Len(m.path) \in Nat \ {0}
  BY PathsAre
<1>4. \A i \in 1..n : PathOf(i) \in Seq(Components) /\ Len(PathOf(i)) \in Nat \ {0}
  BY <1>1, AppendedMember, PathsAre DEF PathOf, IInv, Typed
<1>5. Distinct(new) /\ OneSpelling(new) /\ Tree(new)
  BY DEF Portable
<1> HIDE DEF new, n
<1>6. Indices = 1..n
  BY DEF Indices, n
<1>7. \A i \in 1..n : Folded(PathOf(i)) # Folded(m.path)
  BY <1>1, <1>5 DEF Distinct, PathOf
<1>8. Folded(m.path) \notin seenFiles \cup seenDirectories
  BY <1>2, <1>6, <1>7 DEF Remembered
<1>9. SpelledAsBefore(m.path)
  <2> SUFFICES ASSUME NEW k \in 1..Len(m.path), NEW q \in spellings, Folded(q) = Folded(Prefix(m.path, k))
               PROVE  q = Prefix(m.path, k)
    BY DEF SpelledAsBefore
  <2>1. PICK i \in 1..n : \E l \in 1..Len(PathOf(i)) : q = Prefix(PathOf(i), l)
    BY <1>2, <1>6 DEF Remembered
  <2>2. PICK l \in 1..Len(PathOf(i)) : q = Prefix(PathOf(i), l)
    BY <2>1
  <2>3. new[i].path = PathOf(i) /\ new[n + 1].path = m.path
    BY <1>1 DEF PathOf
  <2>4. i \in 1..Len(new) /\ n + 1 \in 1..Len(new)
    BY <1>1
  <2> QED  BY <1>5, <2>2, <2>3, <2>4 DEF OneSpelling
<1>10. NoFileParent(m)
  <2> SUFFICES ASSUME NEW k \in 1..(Len(m.path) - 1), Folded(Prefix(m.path, k)) \in seenFiles
               PROVE  FALSE
    BY DEF NoFileParent
  <2>1. PICK i \in 1..n : members[i].kind = "file" /\ Folded(Prefix(m.path, k)) = Folded(PathOf(i))
    BY <1>2, <1>6 DEF Remembered
  <2>2. k \in 1..Len(m.path) /\ k <= Len(m.path)
    BY <1>3
  <2>3. /\ Len(Folded(m.path)) = Len(m.path)
        /\ Folded(Prefix(m.path, k)) = Prefix(Folded(m.path), k)
        /\ Len(Folded(Prefix(m.path, k))) = k
    BY <1>3, <2>2, FoldedIs
  <2>4. IsPrefix(Folded(PathOf(i)), Folded(m.path))
    BY <2>1, <2>2, <2>3 DEF IsPrefix
  <2>5. new[i].kind = "file" /\ new[i].path = PathOf(i) /\ new[n + 1].path = m.path
    BY <1>1, <2>1 DEF PathOf
  <2>6. i \in 1..Len(new) /\ n + 1 \in 1..Len(new) /\ i # n + 1
    BY <1>1
  <2> QED  BY <1>5, <2>4, <2>5, <2>6 DEF Tree
<1>11. NoChild(m)
  <2> SUFFICES ASSUME m.kind = "file", NEW q \in seenFiles \cup seenDirectories, IsPrefix(Folded(m.path), q)
               PROVE  FALSE
    BY DEF NoChild
  <2>1. PICK i \in 1..n : q = Folded(PathOf(i))
    BY <1>2, <1>6 DEF Remembered
  <2>2. new[n + 1].kind = "file" /\ new[i].path = PathOf(i) /\ new[n + 1].path = m.path
    BY <1>1 DEF PathOf
  <2>3. i \in 1..Len(new) /\ n + 1 \in 1..Len(new) /\ i # n + 1
    BY <1>1
  <2> QED  BY <1>5, <2>1, <2>2, <2>3 DEF Tree
<1> QED  BY <1>8, <1>9, <1>10, <1>11 DEF Related

LEMMA ManifestIfPlaced ==
  ASSUME IInv, status = "reading", NEW m \in Members, Placed(Append(members, m))
  PROVE  ManifestInPlace(m)
<1> DEFINE n == Len(members)
           new == Append(members, m)
<1>1. /\ n \in Nat /\ Len(new) = n + 1 /\ new[n + 1] = m
      /\ \A i \in 1..n : new[i] = members[i] /\ i \in 1..(n + 1) /\ i # n + 1
      /\ n + 1 \in 1..(n + 1)
  BY AppendedMember DEF IInv, Typed
<1> HIDE DEF new, n
<1>2. Placed(new)
  BY DEF new
<1> SUFFICES ASSUME NamedManifest(m.path)
             PROVE  /\ m.kind = "file" /\ LastOf(m.path) = Manifest /\ Len(m.path) <= 2
                    /\ m.size <= MaxManifest /\ manifests = {}
  BY DEF ManifestInPlace
<1>3. /\ m.kind = "file" /\ LastOf(m.path) = Manifest /\ Len(m.path) <= 2 /\ m.size <= MaxManifest
      /\ \A j \in 1..(n + 1) : NamedManifest(new[j].path) => j = n + 1
  BY <1>1, <1>2 DEF Placed
<1>4. Indices = 1..n
  BY DEF Indices, n
<1>5. \A i \in Indices : ~NamedManifest(PathOf(i))
  BY <1>1, <1>3, <1>4 DEF PathOf
<1>6. manifests = {}
  BY <1>5 DEF IInv, Remembered
<1> QED  BY <1>3, <1>6

LEMMA SizesAre ==
  ASSUME LimitsInv, NEW m \in Members
  PROVE  m.size \in Nat /\ total \in Nat /\ MaxTotal \in Nat /\ MaxMembers \in Nat /\ MaxFile \in Nat
<1>1. m.size \in Nat
  BY ComponentsAssumption DEF Members
<1>2. MaxTotal \in Nat /\ MaxMembers \in Nat /\ MaxFile \in Nat
  BY LimitsAssumption
<1>3. total \in Nat
  BY DEF LimitsInv
<1> QED  BY <1>1, <1>2, <1>3

\* A member is refused for what the archive with it is, or for its size in the total.
LEMMA Objection ==
  ASSUME IInv, LimitsInv, status = "reading", NEW m \in Members, ~Accepted(m),
         Unobjectionable(Append(members, m))
  PROVE  m.kind = "file" /\ total + m.size > MaxTotal
<1> DEFINE n == Len(members)
           new == Append(members, m)
<1>1. n \in Nat /\ Len(new) = n + 1 /\ new[n + 1] = m /\ n + 1 \in 1..(n + 1)
  BY AppendedMember DEF IInv, Typed
<1>2. Related(m) /\ ManifestInPlace(m)
  BY RelatedIfPortable, ManifestIfPlaced DEF Unobjectionable
<1>3. EachWithin(new)
  BY DEF Unobjectionable
<1> HIDE DEF new
<1>4. /\ n + 1 <= MaxMembers
      /\ m.kind # "link" /\ m.size <= (IF m.kind = "file" THEN MaxFile ELSE 0) /\ Canonical(m.path)
  BY <1>1, <1>3 DEF EachWithin
<1>5. m.size \in Nat /\ total \in Nat /\ MaxTotal \in Nat /\ MaxMembers \in Nat
  BY SizesAre
<1>6. n < MaxMembers /\ (m.kind = "directory" => m.size = 0)
  BY <1>1, <1>4, <1>5
<1>7. m.kind = "file" /\ ~Fits(m)
  BY <1>2, <1>4, <1>6 DEF Accepted
<1> QED  BY <1>4, <1>5, <1>7 DEF Fits

\* What a member that is accepted adds.
LEMMA CountedStep ==
  ASSUME IInv, LimitsInv, status = "reading", NEW m \in Members, Accepted(m), Record(m),
         members' = Append(members, m)
  PROVE  Counted' /\ total' \in 0..MaxTotal
<1> DEFINE n == Len(members)
           new == Append(members, m)
<1>1. /\ n \in Nat /\ Len(new) = n + 1 /\ new[n + 1] = m
      /\ \A i \in 1..n : new[i] = members[i]
      /\ \A i \in 1..(n + 1) : i \in 1..n \/ i = n + 1
  BY AppendedMember DEF IInv, Typed
<1>2. TotalOf(members) = total /\ EachWithin(members) /\ total \in 0..MaxTotal
  BY DEF LimitsInv, Counted
<1>3. m.size \in Nat /\ MaxTotal \in Nat /\ MaxMembers \in Nat /\ MaxFile \in Nat /\ m.kind \in Kinds
  BY SizesAre DEF Members
<1>4. total' = total + Weight(m)
  BY <1>2, <1>3 DEF Record, Weight
<1>5. TotalOf(new) = total'
  BY <1>2, <1>4, TotalOfAppend DEF IInv, Typed
<1>6. total' \in 0..MaxTotal
  BY <1>2, <1>3, <1>4 DEF Accepted, Fits, Weight
<1>7. /\ n < MaxMembers /\ m.kind # "link" /\ Canonical(m.path)
      /\ m.size <= IF m.kind = "file" THEN MaxFile ELSE 0
  BY <1>3 DEF Accepted, Fits, Kinds
<1>8. EachWithin(new)
  <2> HIDE DEF new
  <2>1. \A i \in 1..(n + 1) :
          /\ new[i].kind # "link"
          /\ new[i].size <= IF new[i].kind = "file" THEN MaxFile ELSE 0
          /\ Canonical(new[i].path)
    BY <1>1, <1>2, <1>7 DEF EachWithin
  <2>2. n + 1 <= MaxMembers
    BY <1>1, <1>3, <1>7
  <2> QED  BY <1>1, <2>1, <2>2 DEF EachWithin
<1>9. members' = new
  OBVIOUS
<1> HIDE DEF new
<1> QED  BY <1>5, <1>6, <1>8, <1>9 DEF Counted

LEMMA AcceptableIs ==
  ASSUME NEW ms \in Seq(Members), Acceptable(ms)
  PROVE  Unobjectionable(ms) /\ TotalOf(ms) <= MaxTotal
<1>1. Portable(ms) /\ EachWithin(ms) /\ TotalOf(ms) <= MaxTotal
  BY DEF Acceptable, Within, EachWithin
<1>2. Placed(ms)
  BY OneManifestPlaced DEF Acceptable
<1> QED  BY <1>1, <1>2 DEF Unobjectionable

\* A member refused: no order of the members makes the archive acceptable.
LEMMA RefusedMember ==
  ASSUME IInv, LimitsInv, status = "reading", NEW m \in Members, ~Accepted(m)
  PROVE  ~Acceptable(Append(members, m))
<1> DEFINE new == Append(members, m)
<1> SUFFICES ASSUME Acceptable(new) PROVE FALSE
  OBVIOUS
<1>1. new \in Seq(Members) /\ members \in Seq(Members)
  BY AppendedMember DEF IInv, Typed
<1>2. TotalOf(new) = total + Weight(m)
  BY <1>1, TotalOfAppend DEF LimitsInv, Counted
<1>3. Unobjectionable(new) /\ TotalOf(new) <= MaxTotal
  BY <1>1, AcceptableIs
<1>4. m.kind = "file" /\ total + m.size > MaxTotal
  BY <1>3, Objection
<1>5. m.size \in Nat /\ total \in Nat /\ MaxTotal \in Nat
  BY SizesAre
<1>6. TotalOf(new) = total + m.size
  BY <1>2, <1>4 DEF Weight
<1> QED  BY <1>3, <1>4, <1>5, <1>6

\* A member of the rebuilt archive refused: it is too large as a whole.
LEMMA RefusedAgain ==
  ASSUME IInv, LimitsInv, status = "reading", pass = 2, NEW m \in Members, ~Accepted(m),
         Len(members) < Len(rebuilt), m = rebuilt[Len(members) + 1]
  PROVE  TotalOf(rebuilt) > MaxTotal
<1> DEFINE n == Len(members)
           new == Append(members, m)
<1>1. /\ members \in Seq(Members) /\ rebuilt \in Seq(Members) /\ new \in Seq(Members)
      /\ n \in Nat /\ Len(new) = n + 1 /\ new[n + 1] = m
      /\ \A i \in 1..n : new[i] = members[i]
      /\ \A i \in 1..(n + 1) : i \in 1..n \/ i = n + 1
  BY AppendedMember DEF IInv, Typed
<1>2. Unobjectionable(rebuilt) /\ \A i \in 1..n : members[i] = rebuilt[i]
  BY DEF LimitsInv, SecondPass, Rereading, Indices
<1>3. TotalOf(new) = total + Weight(m)
  BY <1>1, TotalOfAppend DEF LimitsInv, Counted
<1> HIDE DEF new
<1>4. Len(new) <= Len(rebuilt) /\ \A i \in 1..Len(new) : new[i] = rebuilt[i]
  BY <1>1, <1>2
<1>5. Unobjectionable(new) /\ TotalOf(new) <= TotalOf(rebuilt)
  BY <1>1, <1>2, <1>4, FewerAsGood, TotalGrows
<1>6. m.kind = "file" /\ total + m.size > MaxTotal
  BY <1>5, Objection DEF new
<1>7. TotalOf(new) = total + m.size
  BY <1>3, <1>6 DEF Weight
<1>8. m.size \in Nat /\ total \in Nat /\ MaxTotal \in Nat
  BY SizesAre
<1>9. TotalOf(rebuilt) \in Nat
  BY <1>1, TotalIs
<1> QED  BY <1>5, <1>6, <1>7, <1>8, <1>9

\* An archive with one manifest is not refused at its end.
LEMMA EndIfOneManifest ==
  ASSUME IInv, status = "reading", OneManifest(members)
  PROVE  manifests # {} /\ \A i \in 1..Len(members) : UnderPackageRoot(members[i].path)
<1>1. PICK i \in Indices :
        /\ LastOf(PathOf(i)) = Manifest
        /\ \A j \in Indices : (j # i => ~NamedManifest(PathOf(j)))
                              /\ (Len(PathOf(i)) = 2 => PathOf(j)[1] = PathOf(i)[1])
  BY DEF OneManifest, Indices, PathOf
<1>2. NamedManifest(PathOf(i))
  BY <1>1, ComponentsAssumption DEF NamedManifest
<1>3. Remembered
  BY DEF IInv
<1>4. PathOf(i) \in manifests
  BY <1>2, <1>3 DEF Remembered
<1>5. \A q \in manifests : q = PathOf(i)
  BY <1>1, <1>3 DEF Remembered
<1>6. \A j \in Indices : UnderPackageRoot(PathOf(j))
  BY <1>1, <1>5 DEF UnderPackageRoot
<1> QED  BY <1>4, <1>6 DEF Indices, PathOf

\* An accepted upload with another payload for its manifest is as good, the total apart.
LEMMA ResizedAsGood ==
  ASSUME IInv, LimitsInv, status = "inspected", NEW size \in SignedSizes
  PROVE  Unobjectionable(Resized(size)) /\ OneManifest(Resized(size))
<1> DEFINE n == Len(members)
           new == Resized(size)
<1>1. members \in Seq(Members) /\ n \in Nat
  BY DEF IInv, Typed
<1>2. size \in Nat /\ size <= MaxManifest /\ MaxManifest <= MaxFile /\ MaxFile \in Nat /\ MaxManifest \in Nat
  BY ComponentsAssumption, LimitsAssumption DEF SignedSizes
<1>3. Len(new) = n /\ DOMAIN new = 1..n
  BY <1>1 DEF Resized
<1>4. \A i \in 1..n : /\ new[i].path = PathOf(i) /\ new[i].kind = members[i].kind
                      /\ new[i].size = IF PathOf(i) \in manifests THEN size ELSE members[i].size
  <2> SUFFICES ASSUME NEW i \in 1..n
               PROVE  /\ new[i].path = PathOf(i) /\ new[i].kind = members[i].kind
                      /\ new[i].size = IF PathOf(i) \in manifests THEN size ELSE members[i].size
    OBVIOUS
  <2>1. members[i] \in Members
    BY <1>1
  <2>2. new[i] = IF PathOf(i) \in manifests THEN [members[i] EXCEPT !.size = size] ELSE members[i]
    BY DEF Resized, PathOf
  <2> QED  BY <2>1, <2>2 DEF Members, PathOf
<1>5. Remembered /\ InPlace /\ Portable(members) /\ OneManifest(members) /\ EachWithin(members)
  BY PassedIsSound DEF IInv, LimitsInv, Counted
<1> HIDE DEF new, n
<1>6. Indices = 1..n /\ Len(members) = n
  BY DEF Indices, n
<1>7. \A i \in 1..n : PathOf(i) \in manifests => NamedManifest(PathOf(i)) /\ members[i].kind = "file"
  BY <1>5, <1>6 DEF Remembered, InPlace
<1>8. Portable(new)
  <2>1. Distinct(new)
    BY <1>3, <1>4, <1>5, <1>6 DEF Portable, Distinct, PathOf
  <2>2. OneSpelling(new)
    BY <1>3, <1>4, <1>5, <1>6 DEF Portable, OneSpelling, PathOf
  <2>3. Tree(new)
    BY <1>3, <1>4, <1>5, <1>6 DEF Portable, Tree, PathOf
  <2> QED  BY <2>1, <2>2, <2>3 DEF Portable
<1>9. EachWithin(new)
  <2>1. \A i \in 1..n : new[i].size <= IF new[i].kind = "file" THEN MaxFile ELSE 0
    <3> SUFFICES ASSUME NEW i \in 1..n PROVE new[i].size <= IF new[i].kind = "file" THEN MaxFile ELSE 0
      OBVIOUS
    <3>1. CASE PathOf(i) \in manifests
      <4>1. new[i].kind = "file" /\ new[i].size = size
        BY <1>4, <1>7, <3>1
      <4>2. size <= MaxFile
        BY <1>2
      <4> QED  BY <4>1, <4>2
    <3>2. CASE PathOf(i) \notin manifests
      BY <1>4, <1>5, <1>6, <3>2 DEF EachWithin
    <3> QED  BY <3>1, <3>2
  <2>2. \A i \in 1..n : new[i].kind # "link" /\ Canonical(new[i].path)
    BY <1>4, <1>5, <1>6 DEF EachWithin, PathOf
  <2>3. n <= MaxMembers
    BY <1>5, <1>6 DEF EachWithin
  <2> QED  BY <1>3, <2>1, <2>2, <2>3 DEF EachWithin
<1>10. OneManifest(new)
  <2>1. PICK i \in 1..n :
          /\ LastOf(PathOf(i)) = Manifest /\ members[i].kind = "file" /\ Len(PathOf(i)) <= 2
          /\ \A j \in 1..n : /\ j # i => ~NamedManifest(PathOf(j))
                             /\ Len(PathOf(i)) = 2 => PathOf(j)[1] = PathOf(i)[1]
    BY <1>5, <1>6 DEF OneManifest, PathOf
  <2>2. PathOf(i) \in manifests
    <3>1. NamedManifest(PathOf(i))
      BY <2>1, ComponentsAssumption DEF NamedManifest
    <3> QED  BY <1>5, <1>6, <3>1 DEF Remembered
  <2>3. /\ LastOf(new[i].path) = Manifest /\ new[i].kind = "file" /\ new[i].size <= MaxManifest
        /\ Len(new[i].path) <= 2
    BY <1>2, <1>4, <2>1, <2>2
  <2>4. \A j \in 1..n : /\ j # i => ~NamedManifest(new[j].path)
                        /\ Len(new[i].path) = 2 => new[j].path[1] = new[i].path[1]
    BY <1>4, <2>1
  <2> QED  BY <1>3, <2>3, <2>4 DEF OneManifest
<1>11. new \in Seq(Members)
  BY ResizedIsArchive DEF new, SignedSizes
<1>12. Placed(new)
  BY <1>10, <1>11, OneManifestPlaced
<1> QED  BY <1>8, <1>9, <1>10, <1>12 DEF Unobjectionable, new

LEMMA EmptyCounted ==
  ASSUME members = <<>>, total = 0
  PROVE  Counted
<1>1. Len(members) = 0 /\ 0 <= MaxMembers
  BY LimitsAssumption
<1> QED  BY <1>1, TotalOfNone DEF Counted, EachWithin

LEMMA EmptyCountedAgain ==
  ASSUME members' = <<>>, total' = 0
  PROVE  Counted'
<1>1. Len(members') = 0 /\ 0 <= MaxMembers
  BY LimitsAssumption
<1>2. TotalOf(members') = 0
  BY TotalOfNone
<1> QED  BY <1>1, <1>2 DEF Counted, EachWithin

LEMMA InitLimits == Init => LimitsInv
<1> SUFFICES ASSUME Init PROVE LimitsInv
  OBVIOUS
<1>1. 0 \in 0..MaxTotal
  BY LimitsAssumption
<1> QED  BY <1>1, EmptyCounted DEF Init, LimitsInv

LEMMA InspectLimits ==
  ASSUME IInv, LimitsInv, NEW m \in Members, Inspect(m)
  PROVE  LimitsInv'
<1>1. /\ status = "reading" /\ members' = Append(members, m)
      /\ UNCHANGED <<pass, archive, rebuilt>> /\ (Oversized' <=> Oversized)
  BY DEF Inspect, given, Oversized
<1>2. members \in Seq(Members) /\ rebuilt \in Seq(Members)
  BY DEF IInv, Typed
<1>3. CASE Accepted(m)
  <2>1. Record(m) /\ status' = "reading"
    BY <1>1, <1>3 DEF Inspect
  <2>2. Counted' /\ total' \in 0..MaxTotal
    BY <1>1, <1>3, <2>1, CountedStep
  <2>3. manifests' \subseteq Paths
    BY <2>1 DEF Record, LimitsInv, Members
  <2>4. ASSUME pass = 2 PROVE SecondPass'
    <3>1. Unobjectionable(rebuilt) /\ OneManifest(rebuilt) /\ Rereading
      BY <1>1, <2>4 DEF LimitsInv, SecondPass
    <3>2. Len(members) < Len(rebuilt) /\ m = rebuilt[Len(members) + 1]
      BY <1>2, <2>4 DEF Inspect, Brings
    <3>3. Rereading'
      <4> DEFINE n == Len(members)
                 new == Append(members, m)
      <4>1. /\ n \in Nat /\ Len(new) = n + 1 /\ new[n + 1] = m
            /\ \A i \in 1..n : new[i] = members[i]
            /\ \A i \in 1..(n + 1) : i \in 1..n \/ i = n + 1
        BY <1>2, AppendedMember
      <4>2. \A i \in 1..n : members[i] = rebuilt[i]
        BY <3>1 DEF Rereading, Indices
      <4>3. n + 1 <= Len(rebuilt) /\ members' = new /\ rebuilt' = rebuilt
        BY <1>1, <1>2, <3>2, <4>1
      <4> HIDE DEF new, n
      <4>4. \A i \in 1..(n + 1) : new[i] = rebuilt[i]
        BY <3>2, <4>1, <4>2 DEF n
      <4>5. Len(members') = n + 1 /\ Len(members') <= Len(rebuilt')
        BY <4>1, <4>3
      <4>6. \A i \in 1..Len(members') : members'[i] = rebuilt'[i]
        BY <4>3, <4>4, <4>5
      <4> QED  BY <4>5, <4>6 DEF Rereading, Indices
    <3>4. Unobjectionable(rebuilt)' /\ OneManifest(rebuilt)' /\ (archive.expanded = Stream(rebuilt))'
      BY <1>1, <2>4, <3>1 DEF LimitsInv, SecondPass
    <3> QED  BY <2>1, <3>3, <3>4 DEF SecondPass
  <2> QED  BY <1>1, <2>1, <2>2, <2>3, <2>4 DEF LimitsInv
<1>4. CASE ~Accepted(m)
  <2>1. status' = "refused" /\ UNCHANGED seen
    BY <1>1, <1>4 DEF Inspect
  <2>2. total' \in 0..MaxTotal /\ manifests' \subseteq Paths
    BY <2>1 DEF seen, LimitsInv
  <2>3. ~Acceptable(members')
    BY <1>1, <1>4, RefusedMember
  <2>4. ASSUME pass = 2 PROVE SecondPass'
    <3>1. Unobjectionable(rebuilt) /\ OneManifest(rebuilt) /\ archive.expanded = Stream(rebuilt)
      BY <2>4 DEF LimitsInv, SecondPass
    <3>2. TotalOf(rebuilt) > MaxTotal
      BY <1>1, <1>4, <2>4, RefusedAgain DEF Inspect, Brings
    <3> QED  BY <1>1, <2>1, <3>1, <3>2
             DEF SecondPass
  <2>5. ~Acceptable(members)'
    BY <2>3
  <2> QED  BY <1>1, <2>1, <2>2, <2>4, <2>5 DEF LimitsInv
<1> QED  BY <1>3, <1>4

LEMMA EndLimits ==
  ASSUME IInv, LimitsInv, EndOfStream
  PROVE  LimitsInv'
<1>1. /\ status = "reading" /\ status' \in {"inspected", "refused"}
      /\ UNCHANGED <<given, members, seen>> /\ UNCHANGED <<pass, archive, rebuilt>>
      /\ ~Oversized /\ (Oversized' <=> Oversized)
  BY DEF EndOfStream, given, Oversized, LimitsInv
<1>2. Counted /\ total \in 0..MaxTotal /\ manifests \subseteq Paths
  BY <1>1 DEF LimitsInv
<1>3. Counted' /\ total' \in 0..MaxTotal /\ manifests' \subseteq Paths
  BY <1>1, <1>2 DEF seen, Counted
<1>4. ASSUME status' = "refused" PROVE ~OneManifest(members)
  BY <1>1, <1>4, EndIfOneManifest DEF EndOfStream
<1>5. status' = "refused" => ~Acceptable(members)'
  BY <1>1, <1>4 DEF Acceptable
<1>6. ASSUME pass = 2 PROVE SecondPass'
  <2>1. /\ Unobjectionable(rebuilt) /\ OneManifest(rebuilt) /\ Rereading
        /\ archive.expanded = Stream(rebuilt)
    BY <1>1, <1>6 DEF LimitsInv, SecondPass
  <2>2. Len(members) = Len(rebuilt)
    BY <1>6 DEF EndOfStream
  <2>3. members = rebuilt
    BY <2>1, <2>2 DEF Rereading, Indices, IInv, Typed
  <2>4. status' = "inspected"
    BY <1>1, <1>4, <2>1, <2>3
  <2> QED  BY <1>1, <2>1, <2>3, <2>4 DEF SecondPass
<1> QED  BY <1>1, <1>3, <1>5, <1>6 DEF LimitsInv

LEMMA RebuildLimits ==
  ASSUME IInv, LimitsInv, Rebuild
  PROVE  LimitsInv'
<1>1. CASE status' = "unsigned" /\ UNCHANGED <<given, members, seen>>
  BY <1>1 DEF Rebuild, LimitsInv, given, seen
<1>2. ASSUME NEW size \in SignedSizes, rebuilt' = Resized(size), pass' = 2, status' = "arrived",
             NEW bytes \in ArchiveSizes, archive' = [bytes |-> bytes, expanded |-> Stream(Resized(size))],
             members' = <<>>, total' = 0, manifests' = {}
      PROVE  LimitsInv'
  <2>1. Unobjectionable(Resized(size)) /\ OneManifest(Resized(size)) /\ Resized(size) \in Seq(Members)
    BY ResizedAsGood, ResizedIsArchive DEF Rebuild, SignedSizes
  <2>2. Unobjectionable(rebuilt)' /\ OneManifest(rebuilt)' /\ rebuilt' \in Seq(Members)
        /\ (archive.expanded = Stream(rebuilt))'
    BY <1>2, <2>1
  <2>3. Rereading'
    BY <1>2, <2>2 DEF Rereading, Indices
  <2>4. total' \in 0..MaxTotal
    BY <1>2, LimitsAssumption
  <2> QED  BY <1>2, <2>2, <2>3, <2>4, EmptyCountedAgain DEF LimitsInv, SecondPass
<1> QED  BY <1>1, <1>2 DEF Rebuild

LEMMA StepLimits == IInv /\ LimitsInv /\ [Next]_vars => LimitsInv'
<1> SUFFICES ASSUME IInv, LimitsInv, [Next]_vars PROVE LimitsInv'
  OBVIOUS
<1>1. CASE UNCHANGED vars
  BY <1>1 DEF vars, given, seen, LimitsInv, Counted, SecondPass, Rereading, Oversized, Indices
<1>2. CASE \E m \in Members : Inspect(m)
  BY <1>2, InspectLimits
<1>3. CASE EndOfStream
  BY <1>3, EndLimits
<1>4. CASE Unreadable
  BY <1>4 DEF Unreadable, given, seen, LimitsInv, SecondPass
<1>5. CASE Rebuild
  BY <1>5, RebuildLimits
<1>6. CASE Decompress
  <2>1. /\ status = "arrived" /\ status' = IF Oversized THEN "oversized" ELSE "reading"
        /\ UNCHANGED <<pass, archive, rebuilt, members, total, manifests>> /\ (Oversized' <=> Oversized)
    BY <1>6 DEF Decompress, given, seen, Oversized
  <2>2. Counted' /\ (Rereading => Rereading')
    BY <2>1 DEF LimitsInv, Counted, Rereading, Indices
  <2>3. pass = 2 => SecondPass'
    BY <2>1, <2>2 DEF LimitsInv, SecondPass
  <2> QED  BY <2>1, <2>2, <2>3 DEF LimitsInv
<1> QED  BY <1>1, <1>2, <1>3, <1>4, <1>5, <1>6 DEF Next

\* What is counted of the members is their sum, and a refusal is for what the archive is.
THEOREM LimitsInvariant == Spec => [](IInv /\ LimitsInv)
BY InitIInv, InitLimits, StepIInv, StepLimits, PTL DEF Spec

\* Every reachable state of an inspection is well typed, the total within its limit.
THEOREM TypeCorrect == Spec => []TypeOK
<1>1. IInv /\ LimitsInv => TypeOK
  BY DEF IInv, Typed, LimitsInv, TypeOK
<1> QED  BY <1>1, LimitsInvariant, PTL

\* Any number of members in any order: what passes is one tree with one manifest,
\* all of it within the limits, and what is refused is no acceptable archive in any order.
THEOREM Right == Spec => []VerdictRight
<1>1. IInv /\ LimitsInv => VerdictRight
  <2> SUFFICES ASSUME IInv, LimitsInv, status = "inspected" PROVE Acceptable(members) /\ ~Oversized
    BY DEF VerdictRight, LimitsInv
  <2>1. Counted /\ total <= MaxTotal
    BY LimitsAssumption DEF LimitsInv
  <2>2. Within(members)
    BY <2>1 DEF Counted, EachWithin, Within
  <2> QED  BY <2>2, PassedIsSound DEF Acceptable, LimitsInv
<1> QED  BY <1>1, LimitsInvariant, PTL

\* The rebuilt archive of an accepted upload is refused if the files, the stream or
\* the archive have outgrown their limit, and otherwise not.
THEOREM RefusedForSize == Spec => []RebuiltRefusedForSize
<1>1. IInv /\ LimitsInv => RebuiltRefusedForSize
  <2> SUFFICES ASSUME IInv, LimitsInv, pass = 2
               PROVE  /\ status \in {"refused", "oversized"} => Overgrown
                      /\ status = "inspected" => ~Overgrown
    BY DEF RebuiltRefusedForSize
  <2>1. SecondPass
    BY DEF LimitsInv
  <2>2. ASSUME status = "inspected" PROVE ~Overgrown
    <3>1. TotalOf(rebuilt) = total /\ total \in 0..MaxTotal /\ ~Oversized /\ archive.expanded = Stream(rebuilt)
      BY <2>1, <2>2 DEF LimitsInv, SecondPass, Counted
    <3>2. MaxTotal \in Nat
      BY LimitsAssumption
    <3> QED  BY <3>1, <3>2 DEF Overgrown, Oversized
  <2> QED  BY <2>1, <2>2 DEF SecondPass, Overgrown, Oversized
<1> QED  BY <1>1, LimitsInvariant, PTL

-----------------------------------------------------------------------------
(* The metadata.  What validation establishes early has to survive what it *)
(* reads later: ContractInv says which facts about the triggers, and about *)
(* each list of defaults against the actions, hold from which step on.     *)

USE ContractAssumption

\* Whatever is not refused has triggers that only run by rule where they must.
TriggersSound ==
  step \in {"triggers", "actions", "defaults", "accepted"} =>
    \A i \in 1..Len(triggers) : RuleOnlyTrigger(triggers[i])

\* No defaults before every action is known, and valid ones from there on.
DefaultsSound ==
  /\ step \in {"triggers", "actions"} => defaults = <<>>
  /\ step \in {"defaults", "accepted"} =>
       \A i \in 1..Len(defaults) : DefaultsValid(triggers[i], defaults[i])
  /\ step = "accepted" => Len(defaults) = Len(triggers)

DecisionSound ==
  decision = "listed" => step = "accepted" /\ DeclaredTiers \cap {"C", "D"} = {}

ContractInv == ContractTypeOK /\ TriggersSound /\ DefaultsSound /\ DecisionSound

\* Nothing read yet: nothing to be wrong.
LEMMA Initially == ContractInit => ContractInv
<1>1. ContractInit => ContractTypeOK
  BY DEF ContractInit, ContractTypeOK, NoTiers
<1>2. ContractInit => TriggersSound /\ DefaultsSound /\ DecisionSound
  BY DEF ContractInit, TriggersSound, DefaultsSound, DecisionSound
<1> QED BY <1>1, <1>2 DEF ContractInv

LEMMA TriggerKeeps == ASSUME ContractInv, NEW t \in Triggers, ReadTrigger(t) PROVE ContractInv'
<1>1. /\ step = "triggers" /\ triggers \in Seq(Triggers) /\ defaults = <<>> /\ decision # "listed"
      /\ triggers' = Append(triggers, t) /\ step' \in {"triggers", "refused"}
      /\ UNCHANGED <<actions, defaults, decision>>
  BY DEF ContractInv, ContractTypeOK, DefaultsSound, DecisionSound, ReadTrigger, Refuse
<1>2. ContractTypeOK'
  BY <1>1 DEF ContractInv, ContractTypeOK
<1>3. TriggersSound'
  <2>1. SUFFICES ASSUME step' = "triggers", NEW i \in 1..Len(triggers') PROVE RuleOnlyTrigger(triggers'[i])
    BY <1>1 DEF TriggersSound, RuleOnlyTrigger, Escalation
  <2>2. CASE i = Len(triggers) + 1
    BY <1>1, <2>1, <2>2 DEF ReadTrigger, Refuse, TriggerValid
  <2>3. CASE i # Len(triggers) + 1
    BY <1>1, <2>1, <2>3 DEF ContractInv, TriggersSound
  <2> QED BY <2>2, <2>3
<1>4. DefaultsSound' /\ DecisionSound'
  BY <1>1 DEF DefaultsSound, DecisionSound
<1> QED BY <1>2, <1>3, <1>4 DEF ContractInv

\* The steps that leave what was read as it is and go on or refuse.
LEMMA ReadingKeeps ==
  ASSUME ContractInv, UNCHANGED <<triggers, defaults, decision>>,
         step \in {"triggers", "actions", "defaults"}, DefaultsSound',
         step' \in {"actions", "defaults", "refused", "faulty"},
         DOMAIN actions' \subseteq ActionNames, \A a \in DOMAIN actions' : actions'[a] \in Tiers
  PROVE  ContractInv'
<1>1. decision # "listed"
  BY DEF ContractInv, DecisionSound
<1>2. ContractTypeOK'
  BY DEF ContractInv, ContractTypeOK
<1>3. TriggersSound'
  BY DEF ContractInv, TriggersSound, RuleOnlyTrigger, Escalation
<1>4. DecisionSound'
  BY <1>1 DEF DecisionSound
<1> QED BY <1>2, <1>3, <1>4 DEF ContractInv

LEMMA EndTriggersKeeps == ASSUME ContractInv, EndTriggers PROVE ContractInv'
<1>1. /\ step = "triggers" /\ step' \in {"actions", "refused"}
      /\ UNCHANGED <<triggers, actions, defaults, decision>>
  BY DEF EndTriggers, Refuse
<1>2. DefaultsSound'
  BY <1>1 DEF ContractInv, DefaultsSound
<1>3. DOMAIN actions' \subseteq ActionNames /\ \A a \in DOMAIN actions' : actions'[a] \in Tiers
  BY <1>1 DEF ContractInv, ContractTypeOK
<1> QED BY <1>1, <1>2, <1>3, ReadingKeeps

LEMMA ActionKeeps ==
  ASSUME ContractInv, NEW a \in ActionNames, NEW tier \in Tiers, ReadAction(a, tier) PROVE ContractInv'
<1>1. /\ step = "actions" /\ step' \in {"actions", "refused"}
      /\ UNCHANGED <<triggers, defaults, decision>>
  BY DEF ReadAction, Refuse
<1>2. DefaultsSound'
  BY <1>1 DEF ContractInv, DefaultsSound
<1>3. DOMAIN actions' \subseteq ActionNames /\ \A b \in DOMAIN actions' : actions'[b] \in Tiers
  BY DEF ContractInv, ContractTypeOK, ReadAction
<1> QED BY <1>1, <1>2, <1>3, ReadingKeeps

LEMMA EndActionsKeeps == ASSUME ContractInv, EndActions PROVE ContractInv'
<1>1. /\ step = "actions" /\ step' \in {"defaults", "refused"}
      /\ UNCHANGED <<triggers, actions, defaults, decision>>
  BY DEF EndActions, Refuse
<1>2. DefaultsSound'
  BY <1>1 DEF ContractInv, DefaultsSound
<1>3. DOMAIN actions' \subseteq ActionNames /\ \A a \in DOMAIN actions' : actions'[a] \in Tiers
  BY <1>1 DEF ContractInv, ContractTypeOK
<1> QED BY <1>1, <1>2, <1>3, ReadingKeeps

LEMMA DefaultsKeep == ASSUME ContractInv, NEW names \in Lists, ReadDefaults(names) PROVE ContractInv'
<1>1. /\ step = "defaults" /\ step' \in {"defaults", "refused"} /\ decision # "listed"
      /\ Len(defaults) < Len(triggers) /\ defaults \in Seq(Lists) /\ triggers \in Seq(Triggers)
      /\ defaults' = Append(defaults, names) /\ UNCHANGED <<triggers, actions, decision>>
  BY DEF ContractInv, ContractTypeOK, DecisionSound, ReadDefaults, Refuse
<1>2. ContractTypeOK'
  <2>1. defaults' \in Seq(Lists) /\ Len(defaults') = Len(defaults) + 1
    BY <1>1
  <2>2. Len(defaults') <= Len(triggers')
    <3>1. Len(defaults) \in Nat /\ Len(triggers) \in Nat
      BY <1>1
    <3> QED BY <1>1, <2>1, <3>1
  <2> QED BY <1>1, <2>1, <2>2 DEF ContractInv, ContractTypeOK
<1>3. TriggersSound'
  BY <1>1 DEF ContractInv, TriggersSound, RuleOnlyTrigger, Escalation
<1>4. DefaultsSound'
  <2>1. ASSUME step' = "defaults", NEW i \in 1..Len(defaults')
        PROVE  DefaultsValid(triggers[i], defaults'[i])
    <3>1. CASE i = Len(defaults) + 1
      <4>1. defaults'[i] = names
        BY <1>1, <3>1
      <4> QED BY <1>1, <2>1, <3>1, <4>1 DEF ReadDefaults, Refuse
    <3>2. CASE i # Len(defaults) + 1
      <4>1. i \in 1..Len(defaults) /\ defaults'[i] = defaults[i]
        BY <1>1, <2>1, <3>2
      <4> QED BY <1>1, <4>1 DEF ContractInv, DefaultsSound
    <3> QED BY <3>1, <3>2
  <2>2. ASSUME step' = "defaults", NEW i \in 1..Len(defaults')
        PROVE  DefaultsValid(triggers[i], defaults[i])'
    <3>1. DefaultsValid(triggers[i], defaults'[i]) /\ UNCHANGED <<triggers, actions>>
      BY <1>1, <2>1, <2>2
    <3> QED BY ONLY <3>1 DEF DefaultsValid, NotEmpty, ReferencesValid, SafeDefaultValid, Physical, PolicyValid
  <2>3. step' \in {"defaults", "refused"} /\ defaults' # <<>>
    BY <1>1
  <2> QED BY ONLY <2>2, <2>3 DEF DefaultsSound
<1>5. DecisionSound'
  BY <1>1 DEF DecisionSound
<1> QED BY <1>2, <1>3, <1>4, <1>5 DEF ContractInv

LEMMA DecideKeeps == ASSUME ContractInv, Decide PROVE ContractInv'
<1>1. /\ step = "defaults" /\ step' = "accepted" /\ Len(defaults) = Len(triggers)
      /\ triggers \in Seq(Triggers) /\ defaults \in Seq(Lists)
      /\ UNCHANGED <<triggers, actions, defaults>>
  BY DEF ContractInv, ContractTypeOK, Decide
<1>2. \A i \in 1..Len(defaults) : DefaultsValid(triggers[i], defaults[i])
  BY <1>1 DEF ContractInv, DefaultsSound
<1>3. ContractTypeOK'
  <2>1. \A i \in 1..Len(triggers) : i \in 1..Len(defaults) /\ defaults[i] # <<>>
    BY <1>1, <1>2 DEF DefaultsValid, NotEmpty
  <2>2. decision' \in {"none", "pending_review", "listed"}
    BY DEF Decide
  <2> QED BY <1>1, <2>1, <2>2 DEF ContractInv, ContractTypeOK
<1>4. TriggersSound'
  BY <1>1 DEF ContractInv, TriggersSound, RuleOnlyTrigger, Escalation
<1>5. DefaultsSound'
  BY <1>1, <1>2 DEF DefaultsSound, DefaultsValid, NotEmpty, ReferencesValid, SafeDefaultValid, Physical, PolicyValid
<1>6. DecisionSound'
  BY <1>1 DEF DecisionSound, Decide, DeclaredTiers
<1> QED BY <1>3, <1>4, <1>5, <1>6 DEF ContractInv

LEMMA FaultKeeps == ASSUME ContractInv, FindFault PROVE ContractInv'
<1>1. /\ step \in {"triggers", "actions", "defaults"} /\ step' = "faulty"
      /\ UNCHANGED <<triggers, actions, defaults, decision>>
  BY DEF FindFault
<1>2. DefaultsSound'
  BY <1>1 DEF DefaultsSound
<1>3. DOMAIN actions' \subseteq ActionNames /\ \A a \in DOMAIN actions' : actions'[a] \in Tiers
  BY <1>1 DEF ContractInv, ContractTypeOK
<1> QED BY <1>1, <1>2, <1>3, ReadingKeeps

LEMMA StutterKeeps == ASSUME ContractInv, UNCHANGED contractVars PROVE ContractInv'
<1>1. UNCHANGED <<step, triggers, actions, defaults, decision>>
  BY DEF contractVars
<1>2. ContractTypeOK' /\ TriggersSound' /\ DecisionSound'
  BY <1>1 DEF ContractInv, ContractTypeOK, TriggersSound, RuleOnlyTrigger, Escalation, DecisionSound, DeclaredTiers
<1>3. DefaultsSound'
  BY <1>1 DEF ContractInv, DefaultsSound, DefaultsValid, NotEmpty, ReferencesValid, SafeDefaultValid,
              Physical, PolicyValid
<1> QED BY <1>2, <1>3 DEF ContractInv

\* The invariant, one step for each action of the validator.
THEOREM ContractInvariant == ContractSpec => []ContractInv
<1>1. ContractInv /\ [ContractNext]_contractVars => ContractInv'
  <2> SUFFICES ASSUME ContractInv, [ContractNext]_contractVars PROVE ContractInv'
    OBVIOUS
  <2>1. CASE \E t \in Triggers : ReadTrigger(t)
    BY <2>1, TriggerKeeps
  <2>2. CASE EndTriggers
    BY <2>2, EndTriggersKeeps
  <2>3. CASE \E a \in ActionNames, tier \in Tiers : ReadAction(a, tier)
    BY <2>3, ActionKeeps
  <2>4. CASE EndActions
    BY <2>4, EndActionsKeeps
  <2>5. CASE \E names \in Lists : ReadDefaults(names)
    BY <2>5, DefaultsKeep
  <2>6. CASE Decide
    BY <2>6, DecideKeeps
  <2>7. CASE FindFault
    BY <2>7, FaultKeeps
  <2>8. CASE UNCHANGED contractVars
    BY <2>8, StutterKeeps
  <2> QED BY <2>1, <2>2, <2>3, <2>4, <2>5, <2>6, <2>7, <2>8 DEF ContractNext
<1> QED BY Initially, <1>1, PTL DEF ContractSpec

-----------------------------------------------------------------------------
(* What follows from it.                                                   *)

\* Accepted metadata has defaults, and some, for every trigger.
THEOREM ContractTypeCorrect == ContractSpec => []ContractTypeOK
<1>1. ContractInv => ContractTypeOK
  BY DEF ContractInv
<1> QED BY <1>1, ContractInvariant, PTL

\* What an accepted trigger and its defaults satisfy.
LEMMA AcceptedDefaults ==
  ASSUME ContractInv, step = "accepted", NEW i \in 1..Len(triggers)
  PROVE  RuleOnlyTrigger(triggers[i]) /\ DefaultsValid(triggers[i], defaults[i]) /\ triggers[i] \in Triggers
<1>1. i \in 1..Len(defaults)
  BY DEF ContractInv, DefaultsSound
<1> QED BY <1>1 DEF ContractInv, ContractTypeOK, TriggersSound, DefaultsSound

\* A listed skill can do nothing of Tier C or D, and nothing physical without an
\* approval or a notification (publish_decision after validate_skill_metadata).
THEOREM Listed == ContractSpec => []ListedIsHarmless
<1>1. ContractInv => ListedIsHarmless
  <2> SUFFICES ASSUME ContractInv, decision = "listed"
               PROVE  /\ \A a \in DOMAIN actions : actions[a] \in {"A", "B"}
                      /\ \A i \in 1..Len(triggers) :
                           /\ triggers[i].tier \in {"A", "B"}
                           /\ "B" \in Runs(i) => triggers[i].approval
                                \/ (triggers[i].reasoning = "post_action" /\ "A" \in Runs(i))
    BY DEF ListedIsHarmless
  <2>1. step = "accepted" /\ DeclaredTiers \cap {"C", "D"} = {}
    BY DEF ContractInv, DecisionSound
  <2>2. ASSUME NEW a \in DOMAIN actions PROVE actions[a] \in {"A", "B"}
    BY <2>1, <2>2 DEF ContractInv, ContractTypeOK, DeclaredTiers, Tiers
  <2>3. ASSUME NEW i \in 1..Len(triggers) PROVE triggers[i].tier \in {"A", "B"}
    <3>1. triggers[i].tier \in Tiers
      BY <2>1, AcceptedDefaults
    <3> QED BY <2>1, <3>1 DEF DeclaredTiers, Tiers
  <2>4. ASSUME NEW i \in 1..Len(triggers), "B" \in Runs(i)
        PROVE  triggers[i].approval \/ (triggers[i].reasoning = "post_action" /\ "A" \in Runs(i))
    <3>1. Physical(defaults[i])
      BY <2>4 DEF Runs, Physical
    <3>2. /\ triggers[i].approval \/ triggers[i].reasoning = "post_action"
          /\ triggers[i].reasoning = "post_action" => \E a \in Named(defaults[i]) : actions[a] = "A"
      BY <2>1, <2>3, <3>1, AcceptedDefaults DEF DefaultsValid, PolicyValid
    <3> QED BY <3>2 DEF Runs
  <2> QED BY <2>2, <2>3, <2>4
<1> QED BY <1>1, ContractInvariant, PTL

\* An action of Tier D is only run by rule (the check of each trigger together
\* with the check of each reference).
THEOREM TierD == ContractSpec => []TierDByRule
<1>1. ContractInv => TierDByRule
  <2> SUFFICES ASSUME ContractInv, step = "accepted", NEW i \in 1..Len(triggers),
                      "D" \in Runs(i) \cup {triggers[i].tier}
               PROVE  Escalation(triggers[i]) = "rule" /\ triggers[i].tier = "D"
    BY DEF TierDByRule
  <2>1. triggers[i].tier = "D"
    BY AcceptedDefaults DEF DefaultsValid, ReferencesValid, Runs
  <2> QED BY <2>1, AcceptedDefaults DEF RuleOnlyTrigger
<1> QED BY <1>1, ContractInvariant, PTL

\* A Tier C trigger falls back to the dashboard or to an action of Tier A.
THEOREM SafeDefault == ContractSpec => []SafeDefaultIsSafe
<1>1. ContractInv => SafeDefaultIsSafe
  BY AcceptedDefaults DEF SafeDefaultIsSafe, DefaultsValid, SafeDefaultValid, SafeTier
<1> QED BY <1>1, ContractInvariant, PTL

\* Both together.
THEOREM Contained == ContractSpec => []AuthorityContained
<1>1. TierDByRule /\ SafeDefaultIsSafe => AuthorityContained
  BY DEF AuthorityContained
<1>2. QED
  BY <1>1, TierD, SafeDefault, PTL

-----------------------------------------------------------------------------
(* The two as publish_skill puts them together: neither the inspection nor *)
(* the validation does anything in it that it does not do by itself.       *)

\* publish_skill runs the inspection and the validation as they are, one at a time.
THEOREM UploadIsBoth == UploadSpec => Spec /\ ContractSpec
<1>1. UploadInit => Init /\ ContractInit
  BY DEF UploadInit
<1>2. [UploadNext]_uploadVars => [Next]_vars /\ [ContractNext]_contractVars
  <2> SUFFICES ASSUME [UploadNext]_uploadVars PROVE [Next]_vars /\ [ContractNext]_contractVars
    OBVIOUS
  <2>1. CASE UNCHANGED uploadVars
    BY <2>1 DEF uploadVars
  <2>2. CASE \E m \in Members : Inspection(Inspect(m))
    BY <2>2 DEF Inspection, Next
  <2>3. CASE Inspection(Decompress \/ EndOfStream \/ Unreadable)
    BY <2>3 DEF Inspection, Next
  <2>4. CASE \E t \in Triggers : Validation(ReadTrigger(t))
    BY <2>4 DEF Validation, ContractNext
  <2>5. CASE \E a \in ActionNames, tier \in Tiers : Validation(ReadAction(a, tier))
    BY <2>5 DEF Validation, ContractNext
  <2>6. CASE \E names \in Lists : Validation(ReadDefaults(names))
    BY <2>6 DEF Validation, ContractNext
  <2>7. CASE Validation(EndTriggers \/ EndActions \/ Decide \/ FindFault)
    BY <2>7 DEF Validation, ContractNext
  <2>8. CASE Rebuilding
    BY <2>8 DEF Rebuilding, Next
  <2> QED BY <2>1, <2>2, <2>3, <2>4, <2>5, <2>6, <2>7, <2>8 DEF UploadNext
<1> QED BY <1>1, <1>2, PTL DEF UploadSpec, Spec, ContractSpec

\* So what is proved of each holds of every upload.
THEOREM UploadRight ==
  UploadSpec => [](VerdictRight /\ RebuiltRefusedForSize /\ ListedIsHarmless /\ AuthorityContained)
BY UploadIsBoth, Right, RefusedForSize, Listed, Contained, PTL
=============================================================================
