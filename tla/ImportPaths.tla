----------------------------- MODULE ImportPaths -----------------------------
(* How the loader names a file: __Source_Path_Resolve_Import__ and the path    *)
(* helpers under it. A path is the sequence of its components, "." and ".."    *)
(* included; the file system is a set of regular files and symbolic links.     *)
EXTENDS Integers, Sequences, SequencesExt

CONSTANTS PathNames,      \* the components of paths
          RegularFiles,   \* canonical paths of the regular files
          Links,          \* symbolic links: a path, to the canonical path it leads to
          ProjectRoot,    \* canonical path of the project
          SourceNames     \* the file names that end in .sn

ASSUME PathsAssumption ==
  /\ {"library", "std"} \subseteq PathNames
  /\ ProjectRoot \in Seq(PathNames)
  /\ DOMAIN Links \subseteq Seq(PathNames) /\ Links \in [DOMAIN Links -> Seq(PathNames)]

IsUnder(path, root) == IsPrefix(root, path)

\* realpath, one component at a time; a component that is not a directory stops it.
IsDirectory(path) == \E f \in RegularFiles : IsStrictPrefix(path, f)
Nowhere == [at |-> <<>>, found |-> FALSE]
WalkInto(walk, name) ==
  IF ~ walk.found \/ ~ IsDirectory(walk.at) THEN Nowhere
  ELSE CASE name = "."  -> walk
         [] name = ".." -> [at |-> IF walk.at = <<>> THEN <<>> ELSE Front(walk.at), found |-> TRUE]
         [] OTHER       -> LET next == Append(walk.at, name)
                           IN  [at |-> IF next \in DOMAIN Links THEN Links[next] ELSE next,
                                found |-> TRUE]
Walk(path) ==
  LET after[n \in 0..Len(path)] ==
        IF n = 0 THEN [at |-> <<>>, found |-> TRUE] ELSE WalkInto(after[n - 1], path[n])
  IN  after[Len(path)]
Canonical(path) == IF Walk(path).found THEN Walk(path).at ELSE path
Exists(path) == Walk(path).found /\ Walk(path).at \in RegularFiles

Directory(path) == Front(path)

\* The spelling is followed by depth alone, without looking at the disk.
NotBelow == -1
DepthBelow(path, root) == IF IsUnder(path, root) THEN Len(path) - Len(root) ELSE NotBelow
\* Mutant of Descend: ".." at the root of the project stays there.
DescendClamped(depth, name) ==
  IF depth = NotBelow THEN NotBelow
  ELSE CASE name = "."  -> depth
         [] name = ".." -> IF depth = 0 THEN 0 ELSE depth - 1
         [] OTHER       -> depth + 1
Descend(depth, name) ==
  IF depth = NotBelow THEN NotBelow
  ELSE CASE name = "."  -> depth
         [] name = ".." -> IF depth = 0 THEN NotBelow ELSE depth - 1
         [] OTHER       -> depth + 1
SpellingEscapes(importer, root, import) ==
  LET depth[n \in 0..Len(import)] ==
        IF n = 0 THEN DepthBelow(Directory(importer), root) ELSE Descend(depth[n - 1], import[n])
  IN  depth[Len(import)] = NotBelow

StdRoot == ProjectRoot \o <<"library", "std">>

\* A relative import belongs to the standard library when its importer does.
RelativeRoot(importer) == IF IsUnder(importer, StdRoot) THEN StdRoot ELSE Canonical(ProjectRoot)

\* A logical import starts at the standard library when it says so or is in it.
LogicalCandidate(importer, import) ==
  IF Head(import) = "std" /\ Len(import) > 1 THEN StdRoot \o Tail(import)
  ELSE IF IsUnder(importer, StdRoot) THEN StdRoot \o import
  ELSE ProjectRoot \o import

\* A request is what the source spells: [kind, path]; "absolute" starts with a slash.
Candidate(importer, request) ==
  IF request.kind = "logical" THEN LogicalCandidate(importer, request.path)
  ELSE Directory(importer) \o request.path

\* The links of a relative import are followed before it is accepted.
LeavesRoot(importer, request) ==
  /\ request.kind = "relative"
  /\ ~ IsUnder(Canonical(Candidate(importer, request)), RelativeRoot(importer))

Resolve(importer, request) ==
  IF request.kind = "absolute" THEN "missing"
  ELSE IF request.kind = "relative"
          /\ SpellingEscapes(importer, RelativeRoot(importer), request.path) THEN "escapes"
  ELSE IF ~ Exists(Candidate(importer, request)) THEN "missing"
  ELSE IF LeavesRoot(importer, request) THEN "escapes"
  ELSE IF Last(Candidate(importer, request)) \notin SourceNames THEN "foreign"
  ELSE "found"
Resolved(importer, request) == Canonical(Candidate(importer, request))

-----------------------------------------------------------------------------
\* What the spelling of an import reaches, read from the path itself: the
\* components that are left once "." and ".." are applied.
Apply(path, name) ==
  CASE name = "."  -> path
    [] name = ".." -> IF path = <<>> THEN <<>> ELSE Front(path)
    [] OTHER       -> Append(path, name)
Reduced(path) ==
  LET after[n \in 0..Len(path)] ==
        IF n = 0 THEN <<>> ELSE Apply(after[n - 1], path[n])
  IN  after[Len(path)]

\* The spelling climbs out at the n-th component: it is "..", and what the
\* components before it reach is not below the root. (The parent of "/" is "/",
\* but a spelling that goes there has left the root all the same.)
ClimbsOut(from, root, path, n) ==
  path[n] = ".." /\ ~ IsStrictPrefix(root, Reduced(from \o SubSeq(path, 1, n - 1)))

\* Reference: a relative import escapes exactly when its importer is not under the
\* root, its spelling climbs out of the root on the way, or a link takes the file
\* out of it.
EscapesByDefinition(importer, request) ==
  LET root == RelativeRoot(importer)
      from == Directory(importer)
      file == from \o request.path
  IN  \/ ~ IsUnder(from, root)
      \/ \E n \in 1..Len(request.path) : ClimbsOut(from, root, request.path, n)
      \/ Exists(file) /\ ~ IsUnder(Canonical(file), root)
=============================================================================
