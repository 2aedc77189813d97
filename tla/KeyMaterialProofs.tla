------------------------- MODULE KeyMaterialProofs -------------------------
(***************************************************************************)
(* For any number of generations on one directory, any of which may fail   *)
(* or die at any step: a directory is of one generation at a time.  mkdir  *)
(* is what makes it so; a generation that has made the directory owns what *)
(* is in it until it ends, and a directory that is not there holds         *)
(* nothing of an earlier one.                                              *)
(***************************************************************************)
EXTENDS KeyMaterial, TLAPS

Written(g) ==
  \A i \in 1..Len(FilesOf(g)) :
    step[g] = "done" \/ i < position[g] => files[FilesOf(g)[i]] = File(g, "whole")

AtWorkOwns == \A g \in Generators : Busy(g) => owner = g
NotYet == \A g \in Generators : step[g] \in {"new", "checked"} => owner # g
FromTheStart == \A g \in Generators : step[g] \in {"new", "checked", "made"} => position[g] = 1
OwnersFiles ==
  \A n \in Names : Here(n) =>
    /\ owner # Nobody
    /\ files[n].by = IF n = "notes" THEN Nobody ELSE owner
Progress ==
  \A g \in Generators : step[g] \in {"made", "opening", "writing", "done"} /\ owner = g => Written(g)
OpenedIt ==
  \A g \in Generators : step[g] = "writing" =>
    Here(FilesOf(g)[position[g]]) /\ files[FilesOf(g)[position[g]]].by = g
StillToClean ==
  \A g \in Generators : step[g] = "cleaning" /\ g \notin hindered =>
    \A n \in Names : Here(n) /\ files[n].by = g => n \in children[g]

IInv ==
  /\ TypeOK
  /\ AtWorkOwns
  /\ NotYet
  /\ FromTheStart
  /\ OwnersFiles
  /\ Progress
  /\ OpenedIt
  /\ StillToClean
  /\ FailureLeavesNothing

\* The names in the list of a run are different, and all of generated files.
LEMMA FilesDiffer ==
  ASSUME NEW g \in Generators
  PROVE  /\ Len(FilesOf(g)) \in 1..4
         /\ \A i \in 1..Len(FilesOf(g)) : FilesOf(g)[i] \in GeneratedFiles
         /\ \A i, j \in 1..Len(FilesOf(g)) : i # j => FilesOf(g)[i] # FilesOf(g)[j]
<1>1. CASE shared[g]
  BY <1>1 DEF FilesOf, GeneratedFiles
<1>2. CASE ~shared[g]
  <2> DEFINE f == <<"manifest-private", "manifest-public", "artifact-private", "artifact-public">>
  <2>1. FilesOf(g) = f
    BY <1>2 DEF FilesOf
  <2>2. Len(f) = 4 /\ \A i \in 1..4 : f[i] \in GeneratedFiles
    BY DEF GeneratedFiles
  <2>3. \A i, j \in 1..4 : i # j => f[i] # f[j]
    OBVIOUS
  <2> QED  BY <2>1, <2>2, <2>3
<1> QED  BY <1>1, <1>2

\* Nothing is there before the first step.
LEMMA InitIInv == Init => IInv
<1> SUFFICES ASSUME Init PROVE IInv
  OBVIOUS
<1>1. TypeOK
  <2>1. \A g \in Generators : position[g] <= Len(FilesOf(g))
    <3>1. SUFFICES ASSUME NEW g \in Generators PROVE position[g] <= Len(FilesOf(g))
      OBVIOUS
    <3>2. position[g] = 1
      BY DEF Init
    <3> DEFINE l == Len(FilesOf(g))
    <3>3. l \in 1..4
      BY FilesDiffer
    <3> HIDE DEF l
    <3>4. 1 <= l
      BY <3>3
    <3> QED  BY <3>2, <3>4 DEF l
  <2>2. position \in [Generators -> 1..4]
    BY DEF Init
  <2>3. files \in [Names -> [by : Generators \cup {Nobody}, text : {"absent", "empty", "cut", "whole"}]]
    BY DEF Init, Absent
  <2> QED  BY <2>1, <2>2, <2>3 DEF Init, TypeOK
<1>2. \A n \in Names : ~Here(n)
  BY DEF Init, Here, Absent
<1>3. AtWorkOwns /\ NotYet /\ FromTheStart /\ Progress /\ OpenedIt /\ StillToClean /\ FailureLeavesNothing
  BY NobodyAssumption DEF Init, AtWorkOwns, NotYet, FromTheStart, Progress, OpenedIt, StillToClean,
     FailureLeavesNothing, Busy
<1> QED  BY <1>1, <1>2, <1>3 DEF IInv, OwnersFiles

LEMMA LookKeeps ==
  ASSUME IInv, NEW g \in Generators, Look(g)
  PROVE  IInv'
<1> USE DEF Look, Going, keyDirectory
<1>1. TypeOK'
  BY FilesDiffer DEF IInv, TypeOK, FromTheStart, FilesOf
<1>2. (AtWorkOwns /\ NotYet /\ FromTheStart /\ OwnersFiles)'
  BY DEF IInv, TypeOK, AtWorkOwns, NotYet, FromTheStart, OwnersFiles, Busy, Here
<1>3. \A h \in Generators : h # g => FilesOf(h)' = FilesOf(h) /\ step'[h] = step[h]
  BY DEF IInv, TypeOK, FilesOf
<1>4. step'[g] \in {"failed", "checked"}
  BY DEF IInv, TypeOK
<1>5. Progress'
  BY <1>3, <1>4 DEF IInv, TypeOK, Progress, Written, File
<1>6. OpenedIt'
  BY <1>3, <1>4 DEF IInv, TypeOK, OpenedIt, Here
<1>7. StillToClean'
  BY DEF IInv, TypeOK, StillToClean, Here
<1>8. FailureLeavesNothing'
  BY NobodyAssumption DEF IInv, TypeOK, FailureLeavesNothing, NotYet, OwnersFiles, Here
<1> QED  BY <1>1, <1>2, <1>5, <1>6, <1>7, <1>8 DEF IInv

LEMMA MakeDirectoryKeeps ==
  ASSUME IInv, NEW g \in Generators, MakeDirectory(g)
  PROVE  IInv'
<1> USE DEF MakeDirectory, Makes, Going
<1>1. TypeOK'
  BY DEF IInv, TypeOK, FilesOf
<1>2. (AtWorkOwns /\ NotYet /\ FromTheStart /\ OwnersFiles)'
  BY NobodyAssumption DEF IInv, TypeOK, AtWorkOwns, NotYet, FromTheStart, OwnersFiles, Busy, Here
<1>3. \A h \in Generators : FilesOf(h)' = FilesOf(h)
  BY DEF FilesOf
<1>4. (Progress /\ OpenedIt)'
  BY <1>3, FilesDiffer DEF IInv, TypeOK, Progress, OpenedIt, Written, File, Here, FromTheStart, NotYet
<1>5. StillToClean'
  BY DEF IInv, TypeOK, StillToClean, Here
<1>6. FailureLeavesNothing'
  BY NobodyAssumption DEF IInv, TypeOK, FailureLeavesNothing, NotYet, OwnersFiles, Here
<1> QED  BY <1>1, <1>2, <1>4, <1>5, <1>6 DEF IInv

LEMMA SecureKeeps ==
  ASSUME IInv, NEW g \in Generators, Secure(g)
  PROVE  IInv'
<1> USE DEF Secure, Fails, Going, keyDirectory
<1>1. TypeOK'
  BY DEF IInv, TypeOK, FilesOf
<1>2. (AtWorkOwns /\ NotYet /\ FromTheStart /\ OwnersFiles)'
  BY NobodyAssumption DEF IInv, TypeOK, AtWorkOwns, NotYet, FromTheStart, OwnersFiles, Busy, Here
<1>3. \A h \in Generators : FilesOf(h)' = FilesOf(h)
  BY DEF FilesOf
<1>4. (Progress /\ OpenedIt)'
  BY <1>3 DEF IInv, TypeOK, Progress, OpenedIt, Written, File, Here
<1>5. StillToClean'
  BY DEF IInv, TypeOK, StillToClean, Here
<1>6. FailureLeavesNothing'
  BY DEF IInv, TypeOK, FailureLeavesNothing, Here
<1> QED  BY <1>1, <1>2, <1>4, <1>5, <1>6 DEF IInv

LEMMA OpenFileKeeps ==
  ASSUME IInv, NEW g \in Generators, OpenFile(g)
  PROVE  IInv'
<1> DEFINE n == FilesOf(g)[position[g]]
<1>1. n \in GeneratedFiles /\ n \in Names /\ n # "notes" /\ owner = g
  <2>1. position[g] \in 1..Len(FilesOf(g))
    BY FilesDiffer DEF IInv, TypeOK
  <2>2. n \in GeneratedFiles
    BY <2>1, FilesDiffer
  <2>3. owner = g
    BY DEF IInv, AtWorkOwns, Busy, OpenFile
  <2> QED  BY <2>2, <2>3 DEF GeneratedFiles, Names
<1>2. \A h \in Generators : h # g => ~Busy(h) /\ owner # h
  BY <1>1 DEF IInv, AtWorkOwns
<1>3. \A h \in Generators : FilesOf(h)' = FilesOf(h)
  BY DEF OpenFile, Fails, FilesOf
<1>4. CASE files' = files /\ Fails(g)
  <2> USE <1>4 DEF OpenFile, Fails, Going
  <2>1. (TypeOK /\ AtWorkOwns /\ NotYet /\ FromTheStart /\ OwnersFiles)'
    BY <1>1, <1>3 DEF IInv, TypeOK, AtWorkOwns, NotYet, FromTheStart, OwnersFiles, Busy, Here
  <2>2. (Progress /\ OpenedIt)'
    BY <1>3 DEF IInv, TypeOK, Progress, OpenedIt, Written, File, Here
  <2>3. (StillToClean /\ FailureLeavesNothing)'
    BY DEF IInv, TypeOK, StillToClean, FailureLeavesNothing, Here
  <2> QED  BY <2>1, <2>2, <2>3 DEF IInv
<1>5. CASE /\ ~Here(n)
           /\ files' = [files EXCEPT ![n] = File(g, "empty")]
           /\ \/ Going(g, "writing") /\ UNCHANGED <<shared, position, children, hindered>>
              \/ Fails(g)
  <2> HIDE DEF n
  <2> USE <1>5 DEF OpenFile, Fails, Going, File
  <2>1. TypeOK'
    BY <1>1, <1>3 DEF IInv, TypeOK
  <2>2. (AtWorkOwns /\ NotYet /\ FromTheStart)'
    BY <1>1 DEF IInv, TypeOK, AtWorkOwns, NotYet, FromTheStart, Busy
  <2>3. OwnersFiles'
    BY <1>1, NobodyAssumption DEF IInv, TypeOK, OwnersFiles, Here
  <2>4. Progress'
    <3> SUFFICES ASSUME NEW h \in Generators, (step[h] \in {"made", "opening", "writing", "done"})', owner' = h
                 PROVE  Written(h)'
      BY DEF Progress
    <3>1. h = g
      BY <1>1
    <3>2. step[g] = "opening" /\ step'[g] = "writing" /\ position' = position
      BY <3>1 DEF IInv, TypeOK
    <3>3. Written(g)
      BY <1>1, <3>2 DEF IInv, Progress
    <3> QED  BY <1>1, <1>3, <3>1, <3>2, <3>3, FilesDiffer DEF Written, IInv, TypeOK, n
  <2>5. OpenedIt'
    <3> SUFFICES ASSUME NEW h \in Generators, step'[h] = "writing"
                 PROVE  (Here(FilesOf(h)[position[h]]) /\ files[FilesOf(h)[position[h]]].by = h)'
      BY DEF OpenedIt
    <3>1. h = g
      BY <1>2 DEF Busy, IInv, TypeOK
    <3>2. FilesOf(h)'[position'[h]] = n
      BY <1>3, <3>1 DEF n
    <3> QED  BY <1>1, <3>1, <3>2 DEF Here, IInv, TypeOK
  <2>6. StillToClean'
    BY <1>1 DEF IInv, TypeOK, StillToClean, Here
  <2>7. FailureLeavesNothing'
    BY <1>1 DEF IInv, TypeOK, FailureLeavesNothing, Here
  <2> QED  BY <2>1, <2>2, <2>3, <2>4, <2>5, <2>6, <2>7 DEF IInv
<1> QED  BY <1>4, <1>5 DEF OpenFile

LEMMA WriteFileKeeps ==
  ASSUME IInv, NEW g \in Generators, WriteFile(g)
  PROVE  IInv'
<1> DEFINE n == FilesOf(g)[position[g]]
<1>0. /\ position[g] \in 1..Len(FilesOf(g)) /\ position[g] \in 1..4 /\ Len(FilesOf(g)) \in 1..4
      /\ ~LastFile(g) => position[g] + 1 \in 1..4 /\ position[g] + 1 <= Len(FilesOf(g))
  <2>1. position[g] \in 1..4 /\ position[g] <= Len(FilesOf(g)) /\ Len(FilesOf(g)) \in 1..4
    BY FilesDiffer DEF IInv, TypeOK
  <2> DEFINE p == position[g]
             l == Len(FilesOf(g))
  <2>2. p \in 1..4 /\ p <= l /\ l \in 1..4
    BY <2>1
  <2>3. LastFile(g) <=> p = l
    BY DEF LastFile
  <2> HIDE DEF p, l
  <2>4. p \in 1..l /\ (p # l => p + 1 \in 1..4 /\ p + 1 <= l)
    BY <2>2
  <2> QED  BY <2>1, <2>3, <2>4 DEF p, l
<1>1. n \in GeneratedFiles /\ n \in Names /\ n # "notes" /\ owner = g
  <2>1. position[g] \in 1..Len(FilesOf(g))
    BY FilesDiffer DEF IInv, TypeOK
  <2>2. n \in GeneratedFiles
    BY <2>1, FilesDiffer
  <2>3. owner = g
    BY DEF IInv, AtWorkOwns, Busy, WriteFile
  <2> QED  BY <2>2, <2>3 DEF GeneratedFiles, Names
<1>2. \A h \in Generators : h # g => ~Busy(h) /\ owner # h
  BY <1>1 DEF IInv, AtWorkOwns
<1>3. \A h \in Generators : FilesOf(h)' = FilesOf(h)
  BY DEF WriteFile, Fails, FilesOf
<1>4. CASE \E text \in {"empty", "cut", "whole"} :
             files' = [files EXCEPT ![n] = File(g, text)] /\ Fails(g)
  <2> HIDE DEF n
  <2> USE <1>4 DEF WriteFile, Fails, Going, File
  <2>1. (TypeOK /\ AtWorkOwns /\ NotYet /\ FromTheStart)'
    BY <1>1, <1>3 DEF IInv, TypeOK, AtWorkOwns, NotYet, FromTheStart, Busy
  <2>2. OwnersFiles'
    BY <1>1, NobodyAssumption DEF IInv, TypeOK, OwnersFiles, Here
  <2>3. step'[g] = "listing" /\ \A h \in Generators : h # g => step'[h] = step[h]
    BY DEF IInv, TypeOK
  <2>4. (Progress /\ OpenedIt)'
    BY <1>1, <1>2, <2>3 DEF Progress, OpenedIt, Busy
  <2>5. (StillToClean /\ FailureLeavesNothing)'
    BY <1>1, <1>2, <2>3 DEF IInv, TypeOK, StillToClean, FailureLeavesNothing, Here, Busy
  <2> QED  BY <2>1, <2>2, <2>4, <2>5 DEF IInv
<1>5. CASE /\ files' = [files EXCEPT ![n] = File(g, "whole")]
           /\ IF LastFile(g)
              THEN Going(g, "done") /\ UNCHANGED position
              ELSE Going(g, "opening") /\ position' = [position EXCEPT ![g] = @ + 1]
           /\ UNCHANGED <<shared, children, hindered>>
  <2> HIDE DEF n
  <2>0. /\ \E next \in {"done", "opening"} : step' = [step EXCEPT ![g] = next]
        /\ \A h \in Generators : h # g => position'[h] = position[h]
        /\ owner' = owner
    BY <1>5 DEF WriteFile, Going, IInv, TypeOK
  <2>1. (AtWorkOwns /\ NotYet /\ FromTheStart)'
    BY <1>1, <2>0 DEF IInv, TypeOK, AtWorkOwns, NotYet, FromTheStart, Busy
  <2> USE <1>5 DEF WriteFile, Going, File
  <2>2. TypeOK'
    <3>2. position' \in [Generators -> 1..4] /\ \A h \in Generators : position'[h] <= Len(FilesOf(h))
      <4>1. \A h \in Generators : position'[h] = IF h = g /\ ~LastFile(g) THEN position[g] + 1 ELSE position[h]
        BY DEF IInv, TypeOK
      <4>2. ~LastFile(g) => position[g] + 1 <= Len(FilesOf(g))
        BY <1>0
      <4>3. position' \in [Generators -> 1..4]
        <5>1. CASE LastFile(g)
          <6>1. position' = position
            BY <5>1
          <6> QED  BY <6>1 DEF IInv, TypeOK
        <5>2. CASE ~LastFile(g)
          <6>1. position[g] + 1 \in 1..4
            BY <1>0, <5>2
          <6>2. position \in [Generators -> 1..4] /\ position' = [position EXCEPT ![g] = position[g] + 1]
            BY <5>2 DEF IInv, TypeOK
          <6> QED  BY <6>1, <6>2
        <5> QED  BY <5>1, <5>2
      <4> QED  BY <4>1, <4>2, <4>3 DEF IInv, TypeOK
    <3>3. files' \in [Names -> [by : Generators \cup {Nobody}, text : {"absent", "empty", "cut", "whole"}]]
      BY DEF IInv, TypeOK
    <3>4. step' \in [Generators -> {"new", "checked", "made", "opening", "writing", "listing",
                                   "cleaning", "done", "failed", "dead"}]
      <4>1. \E next \in {"done", "opening"} : step' = [step EXCEPT ![g] = next]
        OBVIOUS
      <4> HIDE <1>5 DEF WriteFile, Going
      <4> QED  BY <4>1 DEF IInv, TypeOK
    <3>5. UNCHANGED <<owner, shared, children, hindered>>
      BY <1>1
    <3> QED  BY <1>3, <3>2, <3>3, <3>4, <3>5 DEF IInv, TypeOK
  <2>3. OwnersFiles'
    BY <1>1, NobodyAssumption DEF IInv, TypeOK, OwnersFiles, Here
  <2>4. \A h \in Generators : h # g => step'[h] = step[h]
    BY DEF IInv, TypeOK
  <2>5. Progress'
    <3> SUFFICES ASSUME NEW h \in Generators, (step[h] \in {"made", "opening", "writing", "done"})', owner' = h
                 PROVE  Written(h)'
      BY DEF Progress
    <3>1. h = g
      BY <1>1
    <3>2. step[g] = "writing"
      BY DEF WriteFile
    <3>3. Written(g)
      BY <1>1, <3>2 DEF IInv, Progress
    <3>4. SUFFICES ASSUME NEW i \in 1..Len(FilesOf(g)), step'[g] = "done" \/ i < position'[g]
                   PROVE  files'[FilesOf(g)[i]] = File(g, "whole")
      BY <1>3, <3>1 DEF Written
    <3>5. FilesOf(g)[i] \in Names
      BY FilesDiffer DEF Names
    <3>6. CASE i = position[g]
      <4>1. FilesOf(g)[i] = n
        BY <3>6 DEF n
      <4> QED  BY <3>5, <4>1 DEF IInv, TypeOK
    <3>7. CASE i # position[g]
      <4>1. i < position[g]
        <5>2. CASE LastFile(g)
          BY <1>0, <5>2, <3>7 DEF LastFile
        <5>3. CASE ~LastFile(g)
          <6>1. step'[g] = "opening" /\ position'[g] = position[g] + 1
            BY <5>3 DEF IInv, TypeOK
          <6> QED  BY <1>0, <6>1, <3>4, <3>7
        <5> QED  BY <5>2, <5>3
      <4>2. files[FilesOf(g)[i]] = File(g, "whole")
        BY <3>3, <4>1 DEF Written
      <4>3. FilesOf(g)[i] # n
        BY <1>0, <3>7, FilesDiffer DEF n
      <4> QED  BY <3>5, <4>2, <4>3 DEF IInv, TypeOK
    <3> QED  BY <3>6, <3>7
  <2>6. step'[g] \in {"done", "opening"}
    BY DEF IInv, TypeOK
  <2>7. OpenedIt'
    BY <1>1, <1>2, <2>4, <2>6 DEF OpenedIt, Busy
  <2>8. (StillToClean /\ FailureLeavesNothing)'
    BY <1>1, <1>2, <2>4, <2>6 DEF IInv, TypeOK, StillToClean, FailureLeavesNothing, Here, Busy
  <2> QED  BY <2>1, <2>2, <2>3, <2>5, <2>7, <2>8 DEF IInv
<1> QED  BY <1>4, <1>5 DEF WriteFile

LEMMA ListDirectoryKeeps ==
  ASSUME IInv, NEW g \in Generators, ListDirectory(g)
  PROVE  IInv'
<1> USE DEF ListDirectory, Going, keyDirectory
<1>1. (TypeOK /\ AtWorkOwns /\ NotYet /\ FromTheStart)'
  BY DEF IInv, TypeOK, AtWorkOwns, NotYet, FromTheStart, Busy, FilesOf
<1>2. OwnersFiles'
  BY DEF IInv, OwnersFiles, Here
<1>3. (\A h \in Generators : FilesOf(h)' = FilesOf(h)) /\ step'[g] \in {"cleaning", "failed"}
  BY DEF FilesOf, IInv, TypeOK
<1>4. (Progress /\ OpenedIt)'
  BY <1>3 DEF IInv, TypeOK, Progress, OpenedIt, Written, File, Here
<1>5. StillToClean'
  BY DEF IInv, TypeOK, StillToClean, Here
<1>6. FailureLeavesNothing'
  BY DEF IInv, TypeOK, FailureLeavesNothing, Here
<1> QED  BY <1>1, <1>2, <1>4, <1>5, <1>6 DEF IInv

LEMMA CleanFileKeeps ==
  ASSUME IInv, NEW g \in Generators, CleanFile(g)
  PROVE  IInv'
<1>1. step[g] = "cleaning" /\ owner = g
  BY DEF CleanFile, IInv, AtWorkOwns, Busy
<1>2. \A h \in Generators : h # g => ~Busy(h) /\ owner # h
  BY <1>1 DEF IInv, AtWorkOwns
<1>3. \A h \in Generators : FilesOf(h)' = FilesOf(h)
  BY DEF CleanFile, FilesOf
<1>4. PICK n \in children[g] :
        /\ children' = [children EXCEPT ![g] = @ \ {n}]
        /\ \/ /\ n \in Cleans(g) /\ Here(n)
              /\ files' = [files EXCEPT ![n] = Absent]
              /\ UNCHANGED hindered
           \/ /\ n \in Cleans(g)
              /\ hindered' = hindered \cup {g}
              /\ UNCHANGED files
           \/ n \notin Cleans(g) /\ UNCHANGED <<files, hindered>>
  BY DEF CleanFile
<1>5. n \in Names
  BY <1>4 DEF IInv, TypeOK
<1> USE DEF CleanFile, Cleans
<1>6. (TypeOK /\ AtWorkOwns /\ NotYet /\ FromTheStart)'
  <2>1. files' \in [Names -> [by : Generators \cup {Nobody}, text : {"absent", "empty", "cut", "whole"}]]
    BY <1>4, <1>5 DEF IInv, TypeOK, Absent
  <2>2. children' \in [Generators -> SUBSET Names] /\ hindered' \subseteq Generators
    BY <1>4 DEF IInv, TypeOK
  <2>3. UNCHANGED <<owner, step, shared, position>>
    OBVIOUS
  <2> QED  BY <1>3, <2>1, <2>2, <2>3 DEF IInv, TypeOK, AtWorkOwns, NotYet, FromTheStart, Busy
<1>7. OwnersFiles'
  BY <1>4, <1>5 DEF IInv, TypeOK, OwnersFiles, Here, Absent
<1>8. (Progress /\ OpenedIt)'
  BY <1>1, <1>2 DEF Progress, OpenedIt, Busy
<1>9. StillToClean'
  <2> SUFFICES ASSUME NEW h \in Generators, step'[h] = "cleaning", h \notin hindered',
                      NEW m \in Names, Here(m)', files'[m].by = h
               PROVE  m \in children'[h]
    BY DEF StillToClean
  <2>1. h = g
    BY <1>2 DEF Busy
  <2>2. m # n
    <3>1. CASE n \in Cleans(g)
      BY <1>4, <1>5, <2>1, <3>1 DEF IInv, TypeOK, Here, Absent
    <3>2. CASE n \notin Cleans(g)
      <4>1. n = "notes" /\ files' = files
        BY <1>4, <1>5, <3>2 DEF Names
      <4> QED  BY <4>1, NobodyAssumption DEF IInv, OwnersFiles, Here
    <3> QED  BY <3>1, <3>2
  <2>3. Here(m) /\ files[m].by = g /\ g \notin hindered
    BY <1>4, <1>5, <2>1, <2>2 DEF IInv, TypeOK, Here
  <2>4. m \in children[g]
    BY <1>1, <2>3 DEF IInv, StillToClean
  <2> QED  BY <1>4, <2>1, <2>2, <2>4 DEF IInv, TypeOK
<1>10. FailureLeavesNothing'
  <2>1. \A m \in Names : files'[m] = files[m] \/ ~Here(m)'
    BY <1>4, <1>5 DEF IInv, TypeOK, Here, Absent
  <2>2. hindered \subseteq hindered'
    BY <1>4
  <2>3. \A h \in Generators : step'[h] = "failed" => owner' # h
    BY <1>1, <1>2
  <2> QED  BY <2>1, <2>2, <2>3 DEF IInv, FailureLeavesNothing, Here
<1> QED  BY <1>6, <1>7, <1>8, <1>9, <1>10 DEF IInv

LEMMA RemoveDirectoryKeeps ==
  ASSUME IInv, NEW g \in Generators, RemoveDirectory(g)
  PROVE  IInv'
<1>1. step[g] = "cleaning" /\ owner = g
  BY DEF RemoveDirectory, IInv, AtWorkOwns, Busy
<1>2. \A h \in Generators : h # g => ~Busy(h) /\ owner # h
  BY <1>1 DEF IInv, AtWorkOwns
<1>3. \A h \in Generators : FilesOf(h)' = FilesOf(h)
  BY DEF RemoveDirectory, FilesOf
<1> USE DEF RemoveDirectory, Going
<1>4. TypeOK'
  BY <1>3 DEF IInv, TypeOK
<1>5. (AtWorkOwns /\ NotYet /\ FromTheStart)'
  BY <1>1, <1>2, NobodyAssumption DEF IInv, TypeOK, AtWorkOwns, NotYet, FromTheStart, Busy
<1>6. OwnersFiles'
  BY DEF IInv, OwnersFiles, Here
<1>7. step'[g] = "failed" /\ \A h \in Generators : h # g => step'[h] = step[h]
  BY DEF IInv, TypeOK
<1>8. (Progress /\ OpenedIt /\ StillToClean)'
  BY <1>1, <1>2, <1>7, NobodyAssumption DEF Progress, OpenedIt, StillToClean, Busy
<1>9. FailureLeavesNothing'
  <2> SUFFICES ASSUME NEW h \in Generators, step'[h] = "failed", h \notin hindered'
               PROVE  /\ \A n \in Names : Here(n) => files[n].by # h
                      /\ owner' = h => Here("notes")
    BY DEF FailureLeavesNothing, Here
  <2>1. CASE h # g
    BY <1>2, <1>7, <2>1, NobodyAssumption DEF IInv, FailureLeavesNothing
  <2>2. CASE h = g
    <3>1. g \notin hindered
      BY <2>2
    <3>2. \A n \in Names : Here(n) => files[n].by # g
      BY <1>1, <3>1 DEF IInv, StillToClean
    <3>3. \A n \in Names : Here(n) => n = "notes"
      BY <1>1, <3>2 DEF IInv, OwnersFiles
    <3> QED  BY <2>2, <3>2, <3>3, NobodyAssumption
  <2> QED  BY <2>1, <2>2
<1> QED  BY <1>4, <1>5, <1>6, <1>8, <1>9 DEF IInv

LEMMA DieKeeps ==
  ASSUME IInv, NEW g \in Generators, Die(g)
  PROVE  IInv'
<1> USE DEF Die, Going, keyDirectory
<1>1. (TypeOK /\ AtWorkOwns /\ NotYet /\ FromTheStart)'
  BY DEF IInv, TypeOK, AtWorkOwns, NotYet, FromTheStart, Busy, FilesOf
<1>2. OwnersFiles'
  BY DEF IInv, OwnersFiles, Here
<1>3. (\A h \in Generators : FilesOf(h)' = FilesOf(h)) /\ step'[g] = "dead"
  BY DEF FilesOf, IInv, TypeOK
<1>4. (Progress /\ OpenedIt)'
  BY <1>3 DEF IInv, TypeOK, Progress, OpenedIt, Written, File, Here
<1>5. (StillToClean /\ FailureLeavesNothing)'
  BY DEF IInv, TypeOK, StillToClean, FailureLeavesNothing, Here
<1> QED  BY <1>1, <1>2, <1>4, <1>5 DEF IInv

LEMMA PutNotesKeeps ==
  ASSUME IInv, PutNotes
  PROVE  IInv'
<1> USE DEF PutNotes, run, File
<1>1. (TypeOK /\ AtWorkOwns /\ NotYet /\ FromTheStart)'
  BY DEF IInv, TypeOK, AtWorkOwns, NotYet, FromTheStart, Busy, FilesOf, Names
<1>2. OwnersFiles'
  BY DEF IInv, TypeOK, OwnersFiles, Here
<1>3. \A n \in GeneratedFiles : n \in Names /\ files'[n] = files[n]
  BY DEF IInv, TypeOK, GeneratedFiles, Names
<1>4. \A h \in Generators : FilesOf(h)' = FilesOf(h)
  BY DEF FilesOf
<1>5. Progress'
  <2> SUFFICES ASSUME NEW h \in Generators, step'[h] \in {"made", "opening", "writing", "done"}, owner' = h
               PROVE  Written(h)'
    BY DEF Progress
  <2>1. Written(h)
    BY DEF IInv, Progress
  <2>2. step' = step /\ position' = position
    OBVIOUS
  <2> HIDE DEF PutNotes, File, run
  <2> QED  BY <1>3, <1>4, <2>1, <2>2, FilesDiffer DEF Written, File
<1>6. OpenedIt'
  <2>1. SUFFICES ASSUME NEW h \in Generators, step'[h] = "writing"
                 PROVE  Here(FilesOf(h)[position[h]])' /\ (files[FilesOf(h)[position[h]]].by)' = h
    BY DEF OpenedIt
  <2>2. position[h] \in 1..4 /\ position[h] <= Len(FilesOf(h))
    BY DEF IInv, TypeOK
  <2>3. step[h] = "writing" /\ position'[h] = position[h] /\ OpenedIt
    BY <2>1 DEF IInv
  <2> HIDE DEF PutNotes, File, run
  <2>4. FilesOf(h)[position[h]] \in GeneratedFiles
    BY <2>2, FilesDiffer
  <2>5. FilesOf(h)'[position'[h]] = FilesOf(h)[position[h]]
    BY <1>4, <2>3
  <2> QED  BY <1>3, <2>3, <2>4, <2>5 DEF OpenedIt, Here
<1>7. (StillToClean /\ FailureLeavesNothing)'
  BY NobodyAssumption DEF IInv, TypeOK, StillToClean, FailureLeavesNothing, Here, Names
<1> QED  BY <1>1, <1>2, <1>5, <1>6, <1>7 DEF IInv

LEMMA ClearAwayKeeps ==
  ASSUME IInv, ClearAway
  PROVE  IInv'
<1> USE DEF ClearAway, run, Absent
<1>1. (TypeOK /\ AtWorkOwns /\ NotYet /\ FromTheStart)'
  BY NobodyAssumption DEF IInv, TypeOK, AtWorkOwns, NotYet, FromTheStart, Busy, FilesOf
<1>2. (OwnersFiles /\ Progress)'
  BY NobodyAssumption DEF OwnersFiles, Progress, Here
<1>3. (OpenedIt /\ StillToClean /\ FailureLeavesNothing)'
  BY NobodyAssumption DEF OpenedIt, StillToClean, FailureLeavesNothing, Busy, Here
<1> QED  BY <1>1, <1>2, <1>3 DEF IInv

\* The hub only reads.
LEMMA HubKeeps ==
  ASSUME IInv, UNCHANGED <<keyDirectory, run>>
  PROVE  IInv'
BY DEF IInv, TypeOK, AtWorkOwns, NotYet, FromTheStart, OwnersFiles, Progress, OpenedIt, StillToClean,
   FailureLeavesNothing, Busy, Here, Written, FilesOf, keyDirectory, run

LEMMA StepIInv == IInv /\ [Next]_vars => IInv'
<1> SUFFICES ASSUME IInv, [Next]_vars PROVE IInv'
  OBVIOUS
<1>1. CASE UNCHANGED vars
  BY <1>1, HubKeeps DEF vars
<1>2. CASE \E g \in Generators : Generate(g) \/ Die(g)
  BY <1>2, LookKeeps, MakeDirectoryKeeps, SecureKeeps, OpenFileKeeps, WriteFileKeeps, ListDirectoryKeeps,
     CleanFileKeeps, RemoveDirectoryKeeps, DieKeeps DEF Generate
<1>3. CASE PutNotes \/ ClearAway
  BY <1>3, PutNotesKeeps, ClearAwayKeeps
<1>4. CASE StartHub \/ (\E s \in Sources : ReadSource(s)) \/ Decide
  BY <1>4, HubKeeps DEF StartHub, ReadSource, Decide
<1> QED  BY <1>1, <1>2, <1>3, <1>4 DEF Next

\* The directory is its maker's, and what a generation has written or removed of it so
\* far is what its step says.
THEOREM Invariant == Spec => []IInv
BY InitIInv, StepIInv, PTL DEF Spec

\* The variables keep their types: for any number of runs.
THEOREM TypeCorrect == Spec => []TypeOK
<1>1. IInv => TypeOK
  BY DEF IInv
<1> QED  BY <1>1, Invariant, PTL

\* Whatever step failed, and whatever other runs do, a failed generation with
\* nothing in the way of its cleaning up leaves nothing (_clean_failed_generation).
THEOREM NothingLeft == Spec => []FailureLeavesNothing
<1>1. IInv => FailureLeavesNothing
  BY DEF IInv
<1> QED  BY <1>1, Invariant, PTL

\* A directory a generation reported has all of its files, whole.
THEOREM Success == Spec => []SuccessIsWhole
<1>1. IInv => SuccessIsWhole
  BY DEF IInv, Progress, Written, SuccessIsWhole
<1> QED  BY <1>1, Invariant, PTL

\* No generation overwrites or removes what another one or the operator put there.
THEOREM Exclusive == Spec => OthersKept
<1> DEFINE Step == \A n \in Names : run' # run /\ Here(n) /\ files'[n] # files[n] => Acted(files[n].by)
<1>1. IInv /\ [Next]_vars => [Step]_vars
  <2> SUFFICES ASSUME IInv, Next,
                      NEW n \in Names, run' # run, Here(n), files'[n] # files[n]
               PROVE  Acted(files[n].by)
    OBVIOUS
  <2>1. PICK g \in Generators : OpenFile(g) \/ WriteFile(g) \/ CleanFile(g)
    BY DEF Next, Generate, Die, Look, MakeDirectory, Secure, ListDirectory, RemoveDirectory, PutNotes,
       ClearAway, StartHub, ReadSource, Decide, keyDirectory
  <2>2. owner = g
    BY <2>1 DEF IInv, AtWorkOwns, Busy, OpenFile, WriteFile, CleanFile
  <2>3. CASE OpenFile(g)
    BY <2>3 DEF OpenFile, IInv, TypeOK
  <2>4. CASE WriteFile(g)
    <3>1. n = FilesOf(g)[position[g]]
      BY <2>4 DEF WriteFile, IInv, TypeOK
    <3>2. files[n].by = g
      BY <2>4, <3>1 DEF WriteFile, IInv, OpenedIt
    <3>3. step'[g] # step[g]
      BY <2>4 DEF WriteFile, Fails, Going, IInv, TypeOK
    <3> QED  BY <3>2, <3>3 DEF Acted
  <2>5. CASE CleanFile(g)
    <3>1. n \in children[g] /\ n \in GeneratedFiles /\ children' = [children EXCEPT ![g] = @ \ {n}]
      BY <2>5 DEF CleanFile, Cleans, IInv, TypeOK
    <3>2. files[n].by = g
      BY <2>2, <3>1 DEF IInv, OwnersFiles, GeneratedFiles
    <3>3. children'[g] # children[g]
      BY <3>1 DEF IInv, TypeOK
    <3> QED  BY <3>2, <3>3 DEF Acted
  <2> QED  BY <2>1, <2>3, <2>4, <2>5
<1>2. Spec => [][Step]_vars
  BY <1>1, Invariant, PTL DEF Spec
<1> QED  BY <1>2 DEF OthersKept
-----------------------------------------------------------------------------
(* The start of the hub.                                                   *)

Files == [by : Generators \cup {Nobody}, text : {"absent", "empty", "cut", "whole"}]

\* What has been read when the hub is about to read the source at.
Before(at) ==
  CASE at = "root" -> {} [] at = "manifest" -> {"root"} [] at = "artifact" -> {"root", "manifest"} [] OTHER -> Sources

\* What the source s gives in the environment e.
AsRead(e, s, key) ==
  /\ ~(e.value[s] # "unset" /\ e.file[s])
  /\ ~Configured(e, s) <=> key = NoKey
  /\ e.value[s] # "unset" => key = Value(IF e.value[s] = "seed" THEN "whole" ELSE "cut")
  /\ e.file[s] => key.by \in Generators

Reading ==
  /\ hub \in [at : Sources \cup {"deciding"}, environment : Environments, read : [Sources -> Files]]
  /\ \A s \in Before(hub.at) : AsRead(hub.environment, s, hub.read[s])

HubIs ==
  \/ hub = Down
  \/ Reading
  \/ /\ hub \in [at : {"up"}, environment : Environments, keys : [Profiles -> Files]]
     /\ UpAsConfigured

\* A source that was read gives what it was configured with.
LEMMA SourceRead ==
  ASSUME IInv, Reading, NEW s \in Sources, ReadSource(s)
  PROVE  HubIs'
<1> DEFINE e == hub.environment
           f == files[PrivateFile(s)]
<1>1. /\ hub.at = s
      /\ e \in [publishing : BOOLEAN, value : [Sources -> {"unset", "malformed", "seed"}], file : [Sources -> BOOLEAN]]
  BY EnvironmentsAssumption DEF ReadSource, Reading
<1>2. f \in Files /\ (f.text # "absent" => f.by \in Generators)
  <2>1. PrivateFile(s) \in Names /\ PrivateFile(s) # "notes"
    BY DEF PrivateFile, Sources, Names, GeneratedFiles
  <2>2. f \in Files
    BY <2>1 DEF IInv, TypeOK, Files
  <2>3. f.text # "absent" => f.by = owner /\ owner # Nobody
    BY <2>1 DEF IInv, OwnersFiles, Here
  <2> QED  BY <2>2, <2>3 DEF IInv, TypeOK
<1>3. SUFFICES ASSUME NEW key, hub' = [hub EXCEPT !.at = Following(s), !.read[s] = key],
                      key \in Files, AsRead(e, s, key)
               PROVE  Reading'
  <2>1. NoKey \in Files /\ \A t \in {"whole", "cut"} : Value(t) \in Files
    BY DEF NoKey, Value, File, Files
  <2>2. \A t \in {"whole", "cut"} : Value(t) # NoKey
    BY DEF NoKey, Value, File
  <2>3. f.text # "absent" => f # NoKey
    <3>1. NoKey.text = "absent"
      BY DEF NoKey, File
    <3> QED  BY <3>1
  <2>4. CASE hub' = Down
    BY <2>4 DEF HubIs
  <2>5. CASE e.value[s] # "unset" /\ ~e.file[s]
    BY <1>1, <1>3, <2>1, <2>2, <2>5 DEF ReadSource, AsRead, Configured, HubIs
  <2>6. CASE e.value[s] = "unset" /\ ~e.file[s]
    BY <1>1, <1>3, <2>1, <2>6 DEF ReadSource, AsRead, Configured, HubIs
  <2>7. CASE e.value[s] = "unset" /\ e.file[s]
    BY <1>1, <1>2, <1>3, <2>3, <2>4, <2>7 DEF ReadSource, AsRead, Configured, HubIs
  <2> QED  BY <1>1, <2>4, <2>5, <2>6, <2>7 DEF ReadSource
<1>4. /\ Following(s) \in Sources \cup {"deciding"}
      /\ Before(Following(s)) = Before(s) \cup {s}
      /\ s \notin Before(s) /\ Before(s) \subseteq Sources
  BY DEF Following, Before, Sources
<1>5. hub' = [at |-> Following(s), environment |-> e, read |-> [hub.read EXCEPT ![s] = key]]
  BY <1>3 DEF Reading
<1>6. hub' \in [at : Sources \cup {"deciding"}, environment : Environments, read : [Sources -> Files]]
  BY <1>3, <1>4, <1>5 DEF Reading
<1>7. \A r \in Before(hub'.at) : AsRead(hub'.environment, r, hub'.read[r])
  BY <1>1, <1>3, <1>4, <1>5 DEF Reading
<1> QED  BY <1>6, <1>7 DEF Reading

\* Root key alone, both profile keys or none: what the hub goes on from was given so.
LEMMA Decided ==
  ASSUME Reading, Decide
  PROVE  HubIs'
<1> DEFINE e == hub.environment
<1>1. CASE hub' = Down
  BY <1>1 DEF HubIs
<1>2. CASE hub' # Down
  <2>1. /\ ~Ambiguous /\ ~Partial
        /\ \A s \in Sources : Given(s) => hub.read[s].text = "whole"
        /\ e.publishing => \E s \in Sources : Given(s)
        /\ hub' = [at |-> "up", environment |-> e, keys |-> Keys]
    BY <1>2 DEF Decide
  <2>2. /\ e \in Environments
        /\ e \in [publishing : BOOLEAN, value : [Sources -> {"unset", "malformed", "seed"}], file : [Sources -> BOOLEAN]]
        /\ hub.read \in [Sources -> Files]
    BY EnvironmentsAssumption DEF Reading
  <2>3. \A s \in Sources : AsRead(e, s, hub.read[s])
    BY DEF Decide, Reading, Before, Sources
  <2>4. \A s \in Sources : Given(s) <=> Configured(e, s)
    BY <2>3 DEF Given, AsRead
  <2>5. Keys \in [Profiles -> Files]
    BY <2>2 DEF Keys, Profiles, Sources
  <2>6. hub' \in [at : {"up"}, environment : Environments, keys : [Profiles -> Files]]
    BY <2>1, <2>2, <2>5
  <2> DEFINE given == {s \in Sources : Configured(e, s)}
             SourceOf(p) == IF given = {"root"} THEN "root" ELSE p
  <2>7. given \in {{}, {"root"}, Profiles}
    BY <2>1, <2>4 DEF Ambiguous, Partial, Profiles, Sources
  <2>8. given = {} => ~e.publishing
    BY <2>1, <2>4
  <2>9. ASSUME NEW p \in Profiles, given # {}
        PROVE  /\ Keys[p].text = "whole"
               /\ Keys[p].by \in Generators <=> e.file[SourceOf(p)]
               /\ e.value[SourceOf(p)] = IF e.file[SourceOf(p)] THEN "unset" ELSE "seed"
    <3> DEFINE r == SourceOf(p)
    <3>1. r \in Sources /\ Given(r) /\ Keys[p] = hub.read[r]
      BY <2>4, <2>7, <2>9 DEF Keys, Sources, Profiles
    <3>2. AsRead(e, r, hub.read[r]) /\ Configured(e, r) /\ hub.read[r].text = "whole"
      BY <2>1, <2>3, <2>4, <3>1
    <3>3. e.value[r] \in {"unset", "malformed", "seed"} /\ e.file[r] \in BOOLEAN
      BY <2>2, <3>1
    <3>4. Value("cut").text = "cut" /\ Value("whole").by = Nobody
      BY DEF Value, File
    <3>5. /\ Keys[p].by \in Generators <=> e.file[r]
          /\ e.value[r] = IF e.file[r] THEN "unset" ELSE "seed"
      BY <3>1, <3>2, <3>3, <3>4, NobodyAssumption DEF AsRead, Configured
    <3> QED  BY <3>1, <3>2, <3>5
  <2>10. UpAsConfigured'
    BY <2>1, <2>7, <2>8, <2>9 DEF UpAsConfigured
  <2> QED  BY <2>6, <2>10 DEF HubIs
<1> QED  BY <1>1, <1>2

LEMMA HubSteps == IInv /\ HubIs /\ [Next]_vars => HubIs'
<1> SUFFICES ASSUME IInv, HubIs, [Next]_vars PROVE HubIs'
  OBVIOUS
<1>1. CASE UNCHANGED hub
  BY <1>1 DEF HubIs, Reading, UpAsConfigured
<1>2. CASE StartHub
  <2>1. PICK e \in Environments : hub' = [at |-> "root", environment |-> e, read |-> [s \in Sources |-> NoKey]]
    BY <1>2 DEF StartHub
  <2>2. NoKey \in Files /\ "root" \in Sources
    BY DEF NoKey, File, Files, Sources
  <2>3. hub' \in [at : Sources \cup {"deciding"}, environment : Environments, read : [Sources -> Files]]
    BY <2>1, <2>2
  <2>4. Before(hub'.at) = {}
    BY <2>1 DEF Before
  <2> QED  BY <2>3, <2>4 DEF HubIs, Reading
<1>3. CASE \E s \in Sources : ReadSource(s)
  <2>1. Reading
    BY <1>3 DEF ReadSource, HubIs, Down, Sources
  <2> QED  BY <1>3, <2>1, SourceRead
<1>4. CASE Decide
  <2>1. Reading
    BY <1>4 DEF Decide, HubIs, Down
  <2> QED  BY <1>4, <2>1, Decided
<1>5. CASE \E g \in Generators : Generate(g) \/ Die(g)
  <2>1. UNCHANGED hub
    BY <1>5 DEF Generate, Die, Look, MakeDirectory, Secure, OpenFile, WriteFile, ListDirectory, CleanFile, RemoveDirectory
  <2> QED  BY <1>1, <2>1
<1> QED
  BY <1>1, <1>2, <1>3, <1>4, <1>5 DEF Next, PutNotes, ClearAway, vars

\* Whatever the environment and whatever becomes of the files meanwhile: a hub that
\* is up signs each profile with the key configured for it (load_hub_signing_keys).
THEOREM UpRight == Spec => []UpAsConfigured
<1>1. Init => HubIs
  BY DEF Init, HubIs
<1>2. HubIs => UpAsConfigured
  BY DEF HubIs, Reading, UpAsConfigured, Down, Sources
<1> QED  BY <1>1, <1>2, HubSteps, Invariant, PTL DEF Spec
=============================================================================
