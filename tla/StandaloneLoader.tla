--------------------------- MODULE StandaloneLoader ---------------------------
(***************************************************************************)
(* How the validator reads and judges a deployment: CommandlineValidator.  *)
(* validateDeployment() makes a StandaloneModelPersistenceHandler, has it  *)
(* load the file and all it imports, and runs the registered validators    *)
(* over every resource, unless an earlier part has reported an error.      *)
(*                                                                         *)
(* The handler differs from FDeployManager in one thing that matters: it   *)
(* never clears its list of loaded imports.                                *)
(***************************************************************************)
EXTENDS LoadStack

CONSTANTS
  IgnoredSpecs,  \* missing files named deployment_spec.fdepl
  InvalidSets    \* the sets of files that a registered validator may reject

ASSUME StandaloneLoaderAssumption ==
  IgnoredSpecs \subseteq Missing /\ InvalidSets \subseteq SUBSET Files

VARIABLES
  graph,             \* what the files import
  invalid,           \* the files whose validation issues an error
  phase,             \* where validateDeployment() is
  root,              \* the file it was called with
  stack,             \* the loadModel() calls, the innermost last
  importsLoadedList, \* the URIs loaded or tried
  resources,         \* the resources of the resource set
  errors,            \* the files whose loading reported an error
  validated,         \* the resources that the validators have seen
  hasValidationError,
  verdict            \* what validateDeployment() returns

judging == <<validated, hasValidationError, verdict>>
vars == <<graph, invalid, phase, root, stack, importsLoadedList, resources, errors, judging>>

TypeOK ==
  /\ graph \in [Files -> Seq(Files)] /\ invalid \subseteq Files
  /\ phase \in {"start", "loading", "validating", "done"}
  /\ root \in Files \cup {NoFile} /\ stack \in Seq(Frames)
  /\ importsLoadedList \subseteq Files /\ resources \subseteq Files
  /\ errors \subseteq Missing /\ validated \subseteq Files
  /\ hasValidationError \in BOOLEAN /\ verdict \in {"none", "accepted", "rejected"}

Init ==
  /\ graph \in ImportGraphs /\ invalid \in InvalidSets
  /\ phase = "start" /\ root = NoFile /\ stack = <<>>
  /\ importsLoadedList = {} /\ resources = {} /\ errors = {}
  /\ validated = {} /\ hasValidationError = FALSE /\ verdict = "none"

-----------------------------------------------------------------------------
HasImport == HasNext(graph, stack)
NextImport == ImportAt(graph, stack)

(* Mutant: a missing deployment_spec.fdepl is an error like any other. *)
ReportedAll(f) == {f} \cap Missing

(* What loadModel() tells the message acceptor of a file: a file that cannot *)
(* be read is an error, one without contents is not.                         *)
Reported(f) == {f} \cap (Missing \ IgnoredSpecs)

(* Mutant: the file is not added to the list. *)
LoadModelUnlisted(f, s) ==
  /\ UNCHANGED importsLoadedList
  /\ resources' = resources \cup {f}
  /\ errors' = errors \cup Reported(f)
  /\ stack' = IF f \in Readable THEN Append(s, Frame(f)) ELSE s

(* loadModel(f): the resource joins the resource set even when it cannot be  *)
(* read; only a file with contents has imports to go through.                *)
LoadModel(f, s) ==
  /\ importsLoadedList' = importsLoadedList \cup {f}
  /\ resources' = resources \cup {f}
  /\ errors' = errors \cup Reported(f)
  /\ stack' = IF f \in Readable THEN Append(s, Frame(f)) ELSE s

(* Only .fdepl files are looked at: anything else is accepted as it is. *)
Start(r) ==
  /\ phase = "start"
  /\ root' = r
  /\ IF r \in Fidl
       THEN /\ phase' = "done" /\ verdict' = "accepted"
            /\ UNCHANGED <<stack, importsLoadedList, resources, errors>>
       ELSE /\ phase' = "loading" /\ UNCHANGED verdict
            /\ LoadModel(r, stack)
  /\ UNCHANGED <<graph, invalid, validated, hasValidationError>>

SkipImport ==
  /\ HasImport /\ NextImport \in importsLoadedList
  /\ stack' = Advance(stack)
  /\ UNCHANGED <<graph, invalid, phase, root, importsLoadedList, resources, errors, judging>>

LoadImport ==
  /\ HasImport /\ NextImport \notin importsLoadedList
  /\ LoadModel(NextImport, Advance(stack))
  /\ UNCHANGED <<graph, invalid, phase, root, judging>>

Return ==
  /\ stack # <<>> /\ ~HasImport
  /\ stack' = Pop(stack)
  /\ UNCHANGED <<graph, invalid, phase, root, importsLoadedList, resources, errors, judging>>

(* outputDiagnostics(): an error of the loading ends the validation. *)
Loaded ==
  /\ phase = "loading" /\ stack = <<>>
  /\ IF errors # {}
       THEN phase' = "done" /\ verdict' = "rejected"
       ELSE phase' = "validating" /\ UNCHANGED verdict
  /\ UNCHANGED <<graph, invalid, root, stack, importsLoadedList, resources, errors,
                 validated, hasValidationError>>

(* validate(ResourceSet) goes on after an error. *)
Validate(f) ==
  /\ phase = "validating" /\ f \in resources \ validated
  /\ validated' = validated \cup {f}
  /\ hasValidationError' = (hasValidationError \/ f \in invalid)
  /\ UNCHANGED <<graph, invalid, phase, root, stack, importsLoadedList, resources, errors, verdict>>

(* The base class has no deployment validation of its own to add. *)
Judge ==
  /\ phase = "validating" /\ validated = resources
  /\ phase' = "done"
  /\ verdict' = IF hasValidationError THEN "rejected" ELSE "accepted"
  /\ UNCHANGED <<graph, invalid, root, stack, importsLoadedList, resources, errors,
                 validated, hasValidationError>>

Step ==
  \/ SkipImport \/ LoadImport \/ Return \/ Loaded
  \/ (\E f \in Files : Validate(f)) \/ Judge

Next == (\E r \in Files : Start(r)) \/ Step

Spec == Init /\ [][Next]_vars

(* One thread, and no step of it waits for another. *)
FairSpec == Spec /\ WF_vars(Step)

-----------------------------------------------------------------------------
OnStack == FilesOf(stack)

(* The usual invariant of a depth-first search: what was left is closed      *)
(* under import up to what was found, what was found is needed.              *)
SearchInv ==
  /\ OnStack \subseteq importsLoadedList
  /\ importsLoadedList \subseteq Needed(graph, root)
  /\ DoneIn(graph, stack, importsLoadedList)
  /\ \A f \in importsLoadedList \ OnStack : Imported(graph, f) \subseteq importsLoadedList
  /\ phase \in {"loading", "validating"} => root \in importsLoadedList

(* What the later parts of validateDeployment() have to go on. *)
JudgeInv ==
  /\ phase = "start" => stack = <<>> /\ importsLoadedList = {} /\ verdict = "none"
  /\ phase # "loading" => stack = <<>>
  /\ resources = importsLoadedList
  /\ errors = importsLoadedList \cap (Missing \ IgnoredSpecs)
  /\ validated \subseteq resources
  /\ hasValidationError = (validated \cap invalid # {})
  /\ phase \in {"start", "loading"} => validated = {}
  /\ phase = "validating" => errors = {}
  /\ phase \in {"start", "loading", "validating"} => verdict = "none"
  /\ phase # "start" => root \in Files
  /\ verdict = "accepted" /\ root \notin Fidl =>
       errors = {} /\ validated = resources /\ ~hasValidationError /\ root \in resources
  /\ verdict = "rejected" => errors # {} \/ hasValidationError

StandaloneInv == SearchInv /\ JudgeInv

(* An accepted deployment has all the files it needs, but for ignored        *)
(* specifications, and no validator objects to any of them; a rejected one   *)
(* needs a file that is missing or invalid.                                  *)
VerdictIsRight ==
  /\ verdict = "accepted" /\ root \notin Fidl =>
       Needed(graph, root) \cap (invalid \cup (Missing \ IgnoredSpecs)) = {}
  /\ verdict = "rejected" =>
       Needed(graph, root) \cap (invalid \cup (Missing \ IgnoredSpecs)) # {}

(* No file is loaded while it is being loaded, on any import graph. *)
NoReentry == \A i, j \in 1 .. Len(stack) : stack[i].file = stack[j].file => i = j

(* Every validateDeployment() comes to a verdict. *)
VerdictReached == (phase = "loading") ~> (phase = "done")

(* Nothing goes round for ever, on any import graph: every turn of the loop    *)
(* over the imports, every call and every return leaves less to do.            *)
Room == Cardinality(Readable)
SearchShrinks ==
  /\ [](Left(graph, stack, Room) \in [1 .. Room -> Nat])
  /\ [][phase = "loading" /\ phase' = "loading" =>
          Precedes(Left(graph, stack, Room)', Left(graph, stack, Room))]_vars

(* The loader implements the abstract one. *)
Closure == INSTANCE ImportClosure WITH
  asked <- IF phase = "loading" /\ root \in Readable THEN root ELSE NoFile,
  models <- IF phase = "validating" THEN resources \cap (Fidl \cup Fdepl) ELSE {}

ImplementsClosure == Closure!Spec
=============================================================================
