------------------------------ MODULE MCRelink ------------------------------
(* The corpus of link/incremental_test.go, reduced: an interface, a type    *)
(* and a caller, each with the texts that move, rename or drop a symbol     *)
(* another file depends on.                                                 *)
EXTENDS Relink

S(at, of, member, role, kind) ==
  [at |-> at, desc |-> [of |-> of, member |-> member], role |-> role, kind |-> kind, scope |-> 1]
D(at, of, member, kind) == S(at, of, member, "definition", kind)
R(at, of, member, kind) == S(at, of, member, "reference", kind)

MCTypes   == {"Storer", "Store"}
MCMethods == {"Put", "Get"}

Graph == D(1, "graph", "", "package")

\* The interface loses a method; a method of Store moves next to it; the file
\* leaves the package.
Iface == {
  << Graph, D(2, "Storer", "", "interface"), D(3, "Storer", "Put", "method"),
     D(4, "Storer", "Get", "method") >>,
  << Graph, D(2, "Storer", "", "interface"), D(3, "Storer", "Put", "method"),
     D(4, "Store", "Put", "method") >>,
  << D(2, "Storer", "", "interface") >> }

\* The type gains and loses the methods; it moves away altogether.
Store == {
  << Graph, D(2, "Store", "", "type"), D(3, "Store", "Put", "method") >>,
  << D(1, "store", "", "package"), D(2, "Store", "", "type"),
     D(3, "Store", "Put", "method"), D(4, "Store", "Get", "method") >>,
  << R(1, "graph", "", "package"), D(2, "Storer", "", "interface") >> }

\* The caller: a declaration of the type, a call, and one before any function.
Main == {
  << R(1, "graph", "", "package"), D(2, "main", "", "function"), D(3, "s", "", "variable"),
     R(4, "Store", "", "type"), R(5, "Store", "Put", "method") >>,
  << R(1, "Store", "Put", "method"), D(2, "main", "", "function"), D(3, "run", "", "function"),
     R(4, "Storer", "Put", "method") >> }

MCFiles   == {"iface", "store", "main"}
MCTexts   == [f \in MCFiles |-> CASE f = "iface" -> Iface
                                  [] f = "store" -> Store
                                  [] f = "main"  -> Main]
MCSymbols == UNION {{s[i] : i \in DOMAIN s} : s \in UNION {MCTexts[f] : f \in MCFiles}}
=============================================================================
