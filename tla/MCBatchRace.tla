---------------------------- MODULE MCBatchRace ----------------------------
(* A library, another, and a program that uses both: the batches of three    *)
(* runs move a definition between the libraries, drop the package the        *)
(* program imports, load the program anew, or load what was never there.     *)
(* And a type whose methods are in two files of their own, beside the        *)
(* interface it comes to implement, or does no longer.                       *)
EXTENDS BatchRace, TLC

Def(of, member, kind) == [role |-> "definition", desc |-> [of |-> of, member |-> member], kind |-> kind]
D(of, kind) == Def(of, "", kind)
M(of, name) == Def(of, name, "method")
R(of)       == [role |-> "reference", desc |-> [of |-> of, member |-> ""], kind |-> "type"]
L(file, text) == [file |-> file, text |-> text]

MCFiles   == {"lib", "main", "util", "more"}
MCTypes   == {"X", "Y", "T", "I"}
MCMethods == {"Put", "Get"}

Package == D("p", "package")
Befores == { <<L("lib", {Package, D("X", "type")}), L("main", {R("p"), R("X"), R("Y")})>>,
             <<L("lib", {Package}), L("main", {R("p")}), L("util", {D("X", "type"), D("Y", "type")})>>,
             <<L("main", {R("p"), R("Y")})>>,
             << >> }

\* One file each, or none: a third batch beside any two.
Small == { << >>, <<L("lib", {Package})>>, <<L("lib", {})>> }
Large == { <<L("lib", {Package, D("Y", "type")}), L("util", {D("X", "type")})>>,
           <<L("main", {R("p"), R("X")})>>, <<L("util", {D("Y", "type"), Package})>> }
Moving == { P \in [Loads -> Befores \cup Small \cup Large] :
              /\ P["before"] \in Befores /\ \A b \in Batches : P[b] \in Small \cup Large
              /\ \E b \in Batches : P[b] \in Small }

\* T in lib and I, which has Put, in main.  util holds the Put of T or not, and
\* more a second part of I, Get, with the Get of T or without.
Ends_ == <<L("lib", {D("T", "type")}), L("main", {D("I", "interface"), M("I", "Put")})>>
Get   == L("more", {M("I", "Get")})
Had   == { Ends_, Ends_ \o <<Get>> }
Have  == { << >>, <<L("util", {M("T", "Put")})>>, <<L("util", {})>>,
           <<Get>>, <<L("more", {M("I", "Get"), M("T", "Get")})>> }
Implementing == { P \in [Loads -> Had \cup Have] :
                    /\ P["before"] \in Had /\ \A b \in Batches : P[b] \in Have
                    /\ \E b \in Batches : P[b] = << >> }

MCPlans == Moving \cup Implementing
Alike   == Permutations(Batches)
=============================================================================
