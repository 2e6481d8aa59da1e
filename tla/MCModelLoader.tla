---------------------------- MODULE MCModelLoader ----------------------------
(* Import graphs for ModelLoader: every way in which a few files may import *)
(* each other, in every order of the import statements.  Methods for        *)
(* ElementNames: every way in which arguments may share names and be        *)
(* deployed.                                                                *)
EXTENDS ElementNames

CONSTANTS d1, d2, d3, x1, i1, s1, m1, e1

(* The sequences over S without repetition of at most n elements. *)
Imports(S, n) ==
  {q \in UNION {[1 .. k -> S] : k \in 0 .. n} : \A j, k \in DOMAIN q : q[j] = q[k] => j = k}

Graph(a, b, c) ==
  [f \in Files |-> CASE f = d1 -> a [] f = d2 -> b [] f = d3 -> c [] OTHER -> <<>>]

(* No cycles; a specification and an interface that several files share.    *)
AcyclicGraphs ==
  {Graph(a, b, c) : a \in Imports({d2, d3, s1}, 2), b \in Imports({d3, i1, s1}, 2),
                    c \in Imports({i1, m1}, 2)}

(* Cycles of deployments, self-imports included, around an interface and     *)
(* files that are missing or make the loader throw.                          *)
CyclicGraphs ==
  {Graph(a, b, c) : a \in Imports({d1, d2, d3, i1}, 2), b \in Imports({d1, d3, m1, e1}, 2),
                    c \in Imports({d1}, 1)}

(* Cycles through a specification, some of which the loader does not get out of. *)
SpecificationGraphs ==
  {Graph(a, b, <<>>) : a \in Imports({d2, s1, i1, e1}, 2), b \in Imports({d1, s1}, 2)}

(* A deployment that cannot be named, before or after others. *)
FragileGraphs ==
  {[Graph(a, <<d3>>, <<>>) EXCEPT ![x1] = <<i1>>] : a \in Imports({d2, x1}, 2)}

AllGraphs == AcyclicGraphs \cup CyclicGraphs \cup SpecificationGraphs \cup FragileGraphs

-----------------------------------------------------------------------------
NameLists == {<<>>, <<"n">>, <<"int">>, <<"n", "int">>}
Set(s) == {s[k] : k \in DOMAIN s}

Methods ==
  UNION {{[in |-> i, out |-> o, deployedIn |-> di, deployedOut |-> do] :
            di \in {{}, Set(i)}, do \in {{}, Set(o)}} : i \in NameLists, o \in NameLists}

Twin == [in |-> <<"n">>, out |-> <<"n">>, deployedIn |-> {"n"}, deployedOut |-> {"n"}]
Hidden == [Twin EXCEPT !.deployedIn = {}]

(* One method; one or two pairs of equal names, in a method, an interface or *)
(* two; undeployed.                                                          *)
OneMethod == {<<<<m>>>> : m \in Methods}
Pairs ==
  UNION {{<<<<m, n>>>>, <<<<m>>, <<n>>>>} :
           m \in {Twin, Hidden}, n \in {k \in Methods : k.in = k.out}}
Undeployed == {<<<<m>>>> : m \in {k \in Methods : k.deployedIn = {} /\ k.deployedOut = {}}}
TwoTwins == <<<<Twin, Twin>>>>

Content(x, d, i) ==
  [f \in Readable |-> CASE f = x1 -> x [] f = d2 -> d [] f = i1 -> i
                        [] f = d3 -> <<<<Twin>>>> [] OTHER -> <<>>]
Usual == Content(TwoTwins, <<>>, <<>>)
NoContents == {[f \in Readable |-> <<>>]}
SomeContents ==
  {Usual} \cup {Content(x, <<>>, <<>>) : x \in OneMethod \cup Pairs}
    \cup {Content(TwoTwins, d, <<>>) : d \in OneMethod \cup Pairs}
    \cup {Content(TwoTwins, <<>>, i) : i \in Undeployed}

(* Content matters where files import few others. *)
MCInit ==
  /\ NamesInit
  /\ graph \in FragileGraphs \/ content = Usual
MCSpec == MCInit /\ [][NamesNext]_<<vars, nameVars>>
MCFairSpec == MCSpec /\ WF_<<vars, nameVars>>(LoadNames \/ (Generate /\ NamesNothing))
=============================================================================
