--------------------------- MODULE ImportResolution ---------------------------
(* One import of one file, resolved: the step of the loader that ImportPaths  *)
(* computes, on its own so that every spelling can be enumerated.             *)
EXTENDS ImportPaths

CONSTANT Importings   \* [importer, request]: a file and what it imports

\* An importer is a unit, whose path is canonical: no component is "." or "..".
ASSUME ImportingsAssumption ==
  \A i \in Importings :
    /\ i.importer \in Seq(PathNames) /\ i.importer # <<>>
    /\ ~ \E k \in DOMAIN i.importer : i.importer[k] \in {".", ".."}
    /\ i.request.path \in Seq(PathNames)

VARIABLES importing, answered

resolutionVars == <<importing, answered>>

ResolutionInit == importing \in Importings /\ answered = "pending"

ResolveImport ==
  /\ answered = "pending"
  /\ answered' = Resolve(importing.importer, importing.request)
  /\ UNCHANGED importing

ResolutionSpec == ResolutionInit /\ [][ResolveImport]_resolutionVars

\* A relative import is refused as an escape exactly when its spelling leaves the
\* root of its importer on the way, or a link takes the file that exists out of it,
\* and the file that is loaded for it lies under that root: the depth count of
\* Source_Path_Escapes and the check of the canonical path agree with the paths.
ImportsStayInTheirRoot ==
  answered # "pending" /\ importing.request.kind = "relative" =>
    LET importer == importing.importer
        request  == importing.request
    IN  /\ (answered = "escapes") = EscapesByDefinition(importer, request)
        /\ answered = "found" => IsUnder(Resolved(importer, request), RelativeRoot(importer))
=============================================================================
