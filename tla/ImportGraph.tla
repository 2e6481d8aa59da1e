----------------------------- MODULE ImportGraph -----------------------------
(***************************************************************************)
(* The .fidl and .fdepl files on disk and their import statements, as the  *)
(* loaders of the generator and of the validator see them: a file is its   *)
(* resolved URI, its imports a sequence of files in the order in which the *)
(* ImportsProvider iterates over them.                                     *)
(***************************************************************************)
EXTENDS Naturals, Sequences, FiniteSets

CONSTANTS
  Fidl,        \* files with an interface model
  Fdepl,       \* files with a deployment model and no specification
  SpecFiles,   \* .fdepl files that define deployment specifications
  Missing,     \* files that cannot be read
  Empty,       \* files that are read and have no contents
  Fragile,     \* .fdepl files whose elements cannot be named
  NoFile,      \* no file
  ImportGraphs \* the import graphs under consideration

Files == Fidl \cup Fdepl \cup SpecFiles \cup Missing \cup Empty

ASSUME ImportGraphAssumption ==
  /\ IsFiniteSet(Files) /\ NoFile \notin Files
  /\ Fidl \cap Fdepl = {}
  /\ SpecFiles \cap (Fidl \cup Fdepl) = {}
  /\ Missing \cap (Fidl \cup Fdepl \cup SpecFiles) = {}
  /\ Empty \cap (Fidl \cup Fdepl \cup SpecFiles \cup Missing) = {}
  /\ Fragile \subseteq Fdepl \cup SpecFiles
  /\ ImportGraphs \subseteq [Files -> Seq(Files)]
  /\ \A g \in ImportGraphs : \A f \in Missing \cup Empty : g[f] = <<>>

Readable == Fidl \cup Fdepl \cup SpecFiles

Imported(g, f) == {g[f][i] : i \in 1 .. Len(g[f])}

(* A set of files that is closed under import. *)
Closed(g, S) == \A f \in S : Imported(g, f) \subseteq S

(* The least closed set with r: what r needs, directly or not, and r itself. *)
Needed(g, r) ==
  {f \in Files : \A S \in SUBSET Files : r \in S /\ Closed(g, S) => f \in S}

(* No file needs itself. *)
Acyclic(g) == \A f \in Files : \A h \in Imported(g, f) : f \notin Needed(g, h)
=============================================================================
