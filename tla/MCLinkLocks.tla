----------------------------- MODULE MCLinkLocks -----------------------------
EXTENDS LinkLocks

R(table, from, to) == [table |-> table, from |-> from, to |-> to]

(* Three files: b refers to a and c, c back to b, and a imports b, so that  *)
(* b's rows lie in two tables and each file shares some with another's.     *)
MCRows == << R("resolves_to", "b", "c"), R("resolves_to", "b", "a"),
             R("resolves_to", "c", "b"), R("imports", "a", "b") >>

\* A batch of another repository beside two callers of index.Run.
MCLoaded == [b1 |-> <<"a">>, l1 |-> <<"b">>, l2 |-> <<"c">>]
=============================================================================
