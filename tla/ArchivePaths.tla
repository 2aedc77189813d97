---------------------------- MODULE ArchivePaths ----------------------------
(***************************************************************************)
(* The inspection of a skill archive, decompressed and then read member by *)
(* member, and the rebuild of an accepted one around its signed manifest,  *)
(* which is decompressed and inspected again.                              *)
(*                                                                         *)
(* A path is a sequence of components.  Two components that differ in case *)
(* only have the same fold.                                                *)
(***************************************************************************)
EXTENDS Integers, Sequences

CONSTANTS
  Components,     \* names between slashes
  Fold,           \* casefold of each
  Forbidden,      \* components no portable path has: "..", "", "con", a drive, a trailing dot
  Manifest,       \* skill.yaml
  Paths,          \* the paths members have
  Sizes,          \* the sizes members have
  ArchiveSizes,   \* compressed sizes
  ExpandedSizes,  \* sizes of the tar stream in an upload
  Block, RecordSize,   \* what a tar stream is counted, and filled up, in
  Headers,        \* bytes tarfile writes before the payload: more for some names
  MaxMembers, MaxPath, MaxFile, MaxTotal, MaxManifest, MaxArchive, MaxExpanded  \* TarballLimits

Kinds == {"file", "directory", "link"}
Members == [path : Paths, kind : Kinds, size : Sizes]

ASSUME ComponentsAssumption ==
  /\ Fold \in [Components -> Components]
  /\ Manifest \in Components /\ Fold[Manifest] = Manifest
  /\ Forbidden \subseteq Components
  /\ Paths \subseteq Seq(Components) \ {<<>>}
  /\ Sizes \subseteq Nat

ASSUME StreamAssumption ==
  /\ ArchiveSizes \subseteq Nat /\ ExpandedSizes \subseteq Nat
  /\ Block \in Nat \ {0} /\ RecordSize \in Nat \ {0}
  /\ Headers \in [Paths -> [Kinds -> Nat]]

ASSUME LimitsAssumption ==
  /\ {MaxMembers, MaxPath, MaxFile, MaxTotal, MaxManifest, MaxArchive, MaxExpanded} \subseteq Nat \ {0}
  /\ MaxManifest <= MaxFile /\ MaxFile <= MaxTotal /\ MaxTotal <= MaxExpanded

VARIABLES
  pass,             \* 1: the upload, 2: what was rebuilt from it
  archive,          \* its compressed size, and that of the tar stream in it
  status,           \* of the inspection
  members,          \* the members read, the one refused included
  seenFiles,        \* seen_paths: folded paths of regular members
  seenDirectories,  \* and of directories
  spellings,        \* seen_prefix_spellings: every prefix as it was spelled
  total,            \* total_file_bytes
  manifests,        \* the paths of manifests
  rebuilt           \* the members of the rebuilt archive

seen == <<seenFiles, seenDirectories, spellings, total, manifests>>
given == <<pass, archive, rebuilt>>
vars == <<given, status, members, seen>>

Folded(p) == [i \in 1..Len(p) |-> Fold[p[i]]]
Prefix(p, k) == [i \in 1..k |-> p[i]]
LastOf(p) == p[Len(p)]
IsPrefix(p, q) == Len(p) <= Len(q) /\ Prefix(q, Len(p)) = p
NamedManifest(p) == Fold[LastOf(p)] = Manifest

-----------------------------------------------------------------------------
(* The stream the members are in.                                          *)

Filled(n, unit) == ((n + unit - 1) \div unit) * unit

SumOf(ns) ==
  LET sum[i \in 0..Len(ns)] == IF i = 0 THEN 0 ELSE sum[i - 1] + ns[i]
  IN sum[Len(ns)]

End == 2 * Block

\* No stream with these members is shorter, whoever wrote it.
Least(ms) == SumOf([i \in 1..Len(ms) |-> Block + Filled(ms[i].size, Block)])

\* The stream rebuild_tarball writes.
Written(m) == Headers[m.path][m.kind] + Filled(m.size, Block)

Stream(ms) == Filled(SumOf([i \in 1..Len(ms) |-> Written(ms[i])]) + End, RecordSize)

Oversized == archive.bytes > MaxArchive \/ archive.expanded > MaxExpanded

\* Before any member is read.
Decompress ==
  /\ status = "arrived"
  /\ status' = IF Oversized THEN "oversized" ELSE "reading"
  /\ UNCHANGED <<given, members, seen>>

-----------------------------------------------------------------------------
(* A member.                                                               *)

Canonical(p) == Len(p) <= MaxPath /\ \A i \in 1..Len(p) : p[i] \notin Forbidden

\* Mutant: a spelling is compared for the whole path only.
LastSpelled(p) == \A q \in spellings : Folded(q) = Folded(p) => q = p

\* Every prefix of the path is spelled as before.
SpelledAsBefore(p) ==
  \A k \in 1..Len(p), q \in spellings : Folded(q) = Folded(Prefix(p, k)) => q = Prefix(p, k)

\* A regular member with members below it that came first.
NoChild(m) ==
  m.kind = "file" =>
    \A q \in seenFiles \cup seenDirectories : ~(IsPrefix(Folded(m.path), q) /\ q # Folded(m.path))

NoFileParent(m) == \A k \in 1..(Len(m.path) - 1) : Folded(Prefix(m.path, k)) \notin seenFiles

Related(m) ==
  /\ Folded(m.path) \notin seenFiles \cup seenDirectories
  /\ SpelledAsBefore(m.path)
  /\ NoFileParent(m)
  /\ NoChild(m)

Fits(m) == m.size <= MaxFile /\ total + m.size <= MaxTotal

ManifestInPlace(m) ==
  NamedManifest(m.path) =>
    /\ m.kind = "file"
    /\ LastOf(m.path) = Manifest
    /\ Len(m.path) <= 2
    /\ m.size <= MaxManifest
    /\ manifests = {}

Accepted(m) ==
  /\ Len(members) < MaxMembers
  /\ m.kind # "link"
  /\ m.kind = "directory" => m.size = 0
  /\ Canonical(m.path)
  /\ Related(m)
  /\ m.kind = "file" => Fits(m)
  /\ ManifestInPlace(m)

Record(m) ==
  /\ IF m.kind = "file"
     THEN seenFiles' = seenFiles \cup {Folded(m.path)} /\ UNCHANGED seenDirectories
     ELSE seenDirectories' = seenDirectories \cup {Folded(m.path)} /\ UNCHANGED seenFiles
  /\ spellings' = spellings \cup {Prefix(m.path, k) : k \in 1..Len(m.path)}
  /\ total' = IF m.kind = "file" THEN total + m.size ELSE total
  /\ manifests' = IF NamedManifest(m.path) THEN manifests \cup {m.path} ELSE manifests

\* The upload brings any member, with its payload if that is read; the second pass
\* the next one of the rebuilt archive.
Brings(m) ==
  IF pass = 1 THEN Accepted(m) => Least(Append(members, m)) <= archive.expanded
  ELSE Len(members) < Len(rebuilt) /\ m = rebuilt[Len(members) + 1]

Inspect(m) ==
  /\ status = "reading"
  /\ Brings(m)
  /\ members' = Append(members, m)
  /\ IF Accepted(m) THEN Record(m) /\ UNCHANGED status
     ELSE status' = "refused" /\ UNCHANGED seen
  /\ UNCHANGED given

-----------------------------------------------------------------------------
(* The end of the stream, and the rebuild.                                 *)

UnderPackageRoot(p) ==
  \A q \in manifests : Len(q) = 2 => p[1] = q[1]

EndOfStream ==
  /\ status = "reading"
  /\ IF pass = 1 THEN Least(members) + End <= archive.expanded
     ELSE Len(members) = Len(rebuilt)
  /\ status' = IF manifests # {} /\ \A i \in 1..Len(members) : UnderPackageRoot(members[i].path)
               THEN "inspected" ELSE "refused"
  /\ UNCHANGED <<given, members, seen>>

\* Not a complete gzip stream, a malformed or truncated tar, something hidden behind
\* its end, a manifest that is not strict YAML.
Unreadable ==
  /\ status = "reading"
  /\ status' = "unreadable"
  /\ UNCHANGED <<given, members, seen>>

\* Only the manifest's payload changes.
Resized(size) ==
  [i \in 1..Len(members) |->
     IF members[i].path \in manifests THEN [members[i] EXCEPT !.size = size] ELSE members[i]]

\* Mutant: the signed manifest may be of any size.
AnySize == Sizes

SignedSizes == {s \in Sizes : s <= MaxManifest}

\* A signed manifest that is no mapping, is not signed, says something else or is
\* too large is refused before anything is rebuilt.
Rebuild ==
  /\ status = "inspected" /\ pass = 1
  /\ \/ /\ status' = "unsigned"
        /\ UNCHANGED <<given, members, seen>>
     \/ \E size \in SignedSizes :
          /\ rebuilt' = Resized(size)
          /\ \E bytes \in ArchiveSizes :
               archive' = [bytes |-> bytes, expanded |-> Stream(Resized(size))]
          /\ pass' = 2
          /\ status' = "arrived"
          /\ members' = <<>>
          /\ seenFiles' = {} /\ seenDirectories' = {} /\ spellings' = {}
          /\ total' = 0 /\ manifests' = {}

Init ==
  /\ pass = 1
  /\ archive \in [bytes : ArchiveSizes, expanded : ExpandedSizes]
  /\ status = "arrived"
  /\ members = <<>>
  /\ seenFiles = {} /\ seenDirectories = {} /\ spellings = {}
  /\ total = 0 /\ manifests = {}
  /\ rebuilt = <<>>

Next ==
  \/ Decompress
  \/ \E m \in Members : Inspect(m)
  \/ EndOfStream
  \/ Unreadable
  \/ Rebuild

Spec == Init /\ [][Next]_vars

-----------------------------------------------------------------------------
(* What an acceptable archive is, without saying in which order its members *)
(* come or what is remembered of them.                                      *)

Distinct(ms) == \A i, j \in 1..Len(ms) : Folded(ms[i].path) = Folded(ms[j].path) => i = j

\* No two ways of writing the same directory or file.
OneSpelling(ms) ==
  \A i, j \in 1..Len(ms) : \A k \in 1..Len(ms[i].path), l \in 1..Len(ms[j].path) :
    Folded(Prefix(ms[i].path, k)) = Folded(Prefix(ms[j].path, l)) =>
      Prefix(ms[i].path, k) = Prefix(ms[j].path, l)

\* Nothing is below a regular file.
Tree(ms) ==
  \A i, j \in 1..Len(ms) :
    ms[i].kind = "file" /\ IsPrefix(Folded(ms[i].path), Folded(ms[j].path)) => i = j

Portable(ms) == Distinct(ms) /\ OneSpelling(ms) /\ Tree(ms)

\* One skill.yaml, in the package directory all members are in if there is one.
OneManifest(ms) ==
  \E i \in 1..Len(ms) :
    /\ LastOf(ms[i].path) = Manifest /\ ms[i].kind = "file" /\ ms[i].size <= MaxManifest
    /\ Len(ms[i].path) <= 2
    /\ \A j \in 1..Len(ms) :
         /\ j # i => ~NamedManifest(ms[j].path)
         /\ Len(ms[i].path) = 2 => ms[j].path[1] = ms[i].path[1]

Weight(m) == IF m.kind = "file" THEN m.size ELSE 0

TotalOf(ms) == SumOf([i \in 1..Len(ms) |-> Weight(ms[i])])

Within(ms) ==
  /\ Len(ms) <= MaxMembers
  /\ \A i \in 1..Len(ms) :
       /\ ms[i].kind # "link"
       /\ ms[i].size <= IF ms[i].kind = "file" THEN MaxFile ELSE 0
       /\ Canonical(ms[i].path)
  /\ TotalOf(ms) <= MaxTotal

Acceptable(ms) == Portable(ms) /\ OneManifest(ms) /\ Within(ms)

-----------------------------------------------------------------------------
(* Properties.                                                             *)

TypeOK ==
  /\ pass \in {1, 2}
  /\ archive \in [bytes : ArchiveSizes, expanded : Nat]
  /\ status \in {"arrived", "oversized", "reading", "inspected", "refused", "unreadable", "unsigned"}
  /\ members \in Seq(Members) /\ rebuilt \in Seq(Members)
  /\ total \in 0..MaxTotal
  /\ manifests \subseteq Paths

\* In whatever order the members came: of an archive that passes no two fall
\* together where case does not matter, nothing is below a file, the one manifest is
\* where it must be, and all of them together, and the archive itself, are within the
\* limits.  What is refused for its members is refused for nothing else: the members
\* read up to there are no acceptable archive in any order, so that the order they
\* came in did not decide.
VerdictRight ==
  /\ status = "inspected" => Acceptable(members) /\ ~Oversized
  /\ status = "refused" => ~Acceptable(members)

\* Over a limit in what the signed manifest can add to: the files together, the
\* stream they are written in, the archive.
Overgrown ==
  \/ TotalOf(rebuilt) > MaxTotal
  \/ Stream(rebuilt) > MaxExpanded
  \/ archive.bytes > MaxArchive

\* What was rebuilt from an accepted upload around a manifest of allowed size is
\* refused exactly if it has outgrown one of the three limits on sums: none of the
\* rules on members, their paths, their number or the manifest can turn it down.
RebuiltRefusedForSize ==
  pass = 2 =>
    /\ status \in {"refused", "oversized"} => Overgrown
    /\ status = "inspected" => ~Overgrown
=============================================================================
