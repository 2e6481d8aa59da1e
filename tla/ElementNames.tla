----------------------------- MODULE ElementNames -----------------------------
(***************************************************************************)
(* How loadModel() gives the arguments of a model names that C++ accepts:  *)
(* ValidateElements, one object for all the files of a command line.  An   *)
(* output argument that has the name of an input argument of its method is *)
(* put into listOfOutArguments, as the argument and as its deployment, and *)
(* gets a suffix; a keyword has got one before.                            *)
(*                                                                         *)
(* An interface is a sequence of methods, each the sequences of the names  *)
(* of its arguments and the sets of those that the file deploys.           *)
(***************************************************************************)
EXTENDS ModelLoader, SequencesExt

CONSTANTS
  Keywords,  \* the names that C++ reserves
  Contents   \* for each model file, its interfaces

(* An argument is known by its name: no two outputs of a method share one. *)
Method == [in : Seq(STRING), deployedIn : SUBSET STRING, deployedOut : SUBSET STRING,
           out : {names \in Seq(STRING) :
                    \A j, k \in DOMAIN names : names[j] = names[k] => j = k}]

ASSUME ContentsAssumption == Contents \subseteq [Readable -> Seq(Seq(Method))]

VARIABLES
  content,            \* what is in the files
  listOfOutArguments, \* of validateElements, between two calls
  named               \* history: the arguments the last step has named

nameVars == <<content, listOfOutArguments, named>>

-----------------------------------------------------------------------------
(* The output arguments of a method that have the name of an input argument, *)
(* and those of them that are deployed, as is the input.                     *)
EqualAll(method) == ToSet(method.in) \cap ToSet(method.out)
EqualDeployed(method) == EqualAll(method) \cap method.deployedIn \cap method.deployedOut

(* Entries of the list.  Calls of one doGenerate() leave nothing to each     *)
(* other, so the run tells apart the arguments of different calls.           *)
Entry(run, i, m, name, deployed) == [deployed |-> deployed, arg |-> <<run, i, m, name>>]

Entries(run, i, interface, deployed) ==
  FlattenSeq([m \in DOMAIN interface |->
    LET out == interface[m].out
        equal == IF deployed THEN EqualDeployed(interface[m]) ELSE EqualAll(interface[m])
    IN  FlattenSeq([k \in DOMAIN out |->
          IF out[k] \in equal THEN <<Entry(run, i, m, out[k], deployed)>> ELSE <<>>])])

(* What validateInterfaceAndElementsName() adds for each interface: with a   *)
(* deployment its arguments first, then those "only identified in FModel".   *)
Collected(run, f, interfaces) ==
  FlattenSeq([i \in DOMAIN interfaces |->
    (IF f \in Fidl THEN <<>> ELSE Entries(run, i, interfaces[i], TRUE))
      \o Entries(run, i, interfaces[i], FALSE)])

(* The entry of the argument itself. *)
ArgumentOf(entry) == [deployed |-> FALSE, arg |-> entry.arg]

(* The deployments in the list whose argument is in it as well.             *)
Twins(list) ==
  {k \in DOMAIN list : list[k].deployed /\ ArgumentOf(list[k]) \in ToSet(list)}

(* Mutant: the argument stays in the list next to its deployment. *)
PrunedNot(list) == list

(* The loop that drops the argument of each deployment from the list it      *)
(* iterates over: it gets to drop the first one.                             *)
Pruned(list) ==
  IF Twins(list) = {} THEN list
  ELSE RemoveFirst(list, ArgumentOf(list[Min(Twins(list))]))

(* Then next() throws a ConcurrentModificationException, unless hasNext()    *)
(* finds the cursor at the end of what is left of the list.                  *)
PruneThrows(list) ==
  Twins(list) # {} /\ Min(Twins(list)) # Len(list) - 1

(* Fragile are the files whose elements cannot be named even with empty lists. *)
FragileContents ==
  {c \in Contents : \A f \in Fdepl \cup SpecFiles :
     f \in Fragile <=> PruneThrows(Collected(0, f, c[f]))}

-----------------------------------------------------------------------------
KeywordSuffix(name) == IF name \in Keywords THEN 1 ELSE 0

(* The entries of an argument. *)
Places(list, arg) == {k \in DOMAIN list : list[k].arg = arg}

(* verifyReservedKeyword(), then addSuffixForEqualInOut() for each entry.    *)
Argument(i, m, out, name, suffixes) ==
  [method |-> <<i, m>>, out |-> out, name |-> name, suffixes |-> suffixes]

Arguments(i, m, method, list) ==
  {Argument(i, m, FALSE, name, KeywordSuffix(name)) : name \in ToSet(method.in)}
  \cup
  {Argument(i, m, TRUE, name,
            KeywordSuffix(name) + Cardinality(Places(list, <<runs, i, m, name>>))) :
     name \in ToSet(method.out)}

Named(f, list) ==
  UNION {UNION {Arguments(i, m, content[f][i][m], list) : m \in DOMAIN content[f][i]}
           : i \in DOMAIN content[f]}

(* An interface model is named only if it is loaded for itself. *)
Names(f) == f \in Fdepl \cup SpecFiles \/ (f \in Fidl /\ root \in Fidl)

-----------------------------------------------------------------------------
NamesInit ==
  /\ Init
  /\ content \in FragileContents
  /\ listOfOutArguments = <<>> /\ named = {}

(* The list before the loop over it. *)
Listed == listOfOutArguments \o Collected(runs, Top(stack).file, content[Top(stack).file])

ReturnNamed ==
  /\ Return
  /\ LET f == Top(stack).file
     IN  IF Names(f)
           THEN /\ \E list \in {Listed} :
                     IF f \in Fidl THEN named' = Named(f, list)
                     ELSE /\ ~PruneThrows(list)
                          /\ \E pruned \in {Pruned(list)} : named' = Named(f, pruned)
                /\ listOfOutArguments' = <<>>
           ELSE named' = {} /\ UNCHANGED listOfOutArguments
  /\ UNCHANGED content

NamingThrowsNamed ==
  /\ NamingThrows
  /\ \E list \in {Listed} : PruneThrows(list) /\ listOfOutArguments' = Pruned(list)
  /\ named' = {} /\ UNCHANGED content

NamesNothing == named' = {} /\ UNCHANGED <<content, listOfOutArguments>>

LoadNames ==
  \/ SkipImport /\ NamesNothing
  \/ ImportNothing /\ NamesNothing
  \/ ImportModel /\ NamesNothing
  \/ Overflow /\ NamesNothing
  \/ ImportThrows /\ NamesNothing
  \/ ReturnNamed
  \/ NamingThrowsNamed

NamesNext ==
  \/ \E r \in Files : Start(r) /\ NamesNothing
  \/ LoadNames
  \/ Generate /\ NamesNothing

NamesSpec == NamesInit /\ [][NamesNext]_<<vars, nameVars>>

(* One thread, and no step of it waits for another. *)
FairNamesSpec == NamesSpec /\ WF_<<vars, nameVars>>(LoadNames \/ (Generate /\ NamesNothing))

-----------------------------------------------------------------------------
(* "In case of In and Out being equal and have as name a reserved identifier *)
(* the final result will be the name of Out argument with two additional _   *)
(* and the In argument with only one": an output argument gets exactly one   *)
(* suffix more than its input twin, deployed or not, whatever the call       *)
(* before has left in the lists, and no other argument gets any but a        *)
(* keyword's.                                                                *)
SuffixedOnce ==
  \A a \in named :
    LET twins == {b \in named : b.method = a.method /\ b.name = a.name /\ a.out /\ ~b.out}
    IN  a.suffixes = KeywordSuffix(a.name) + Cardinality(twins)

(* "Accept duplicate argument names for method in and out" (CHANGES:50):     *)
(* naming ends with the lists cleared, for every model; what is in the list  *)
(* between two calls an exception has left there.                            *)
SameNameAccepted == listOfOutArguments = <<>>

(* Where SameNameAccepted fails an earlier call has thrown, and the loader    *)
(* is not in a clean state since: a call that returns leaves nothing behind,  *)
(* not even what a call before it had left.                                   *)
LeftByException == SameNameAccepted \/ spoiled

(* The list of the imports is empty after a load only if its root was named.  *)
LeftoverInv ==
  /\ LeftByException
  /\ phase = "loaded" /\ importsLoadedList = {} => SameNameAccepted
=============================================================================
