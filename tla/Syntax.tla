------------------------------- MODULE Syntax -------------------------------
(* Syntax written nested, for the instances: inner nodes, leaves, leaves that *)
(* mean a symbol, and the preorder the stanzas read.                          *)
EXTENDS Tree

X(type, field, text, path, named, tag, known, kids) ==
  [type |-> type, field |-> field, text |-> text, path |-> path, named |-> named,
   tag |-> tag, known |-> known, kids |-> kids]
N(type, field, kids)      == X(type, field, "", <<>>, TRUE, "", FALSE, kids)
L(type, field, text)      == X(type, field, text, <<>>, TRUE, "", FALSE, <<>>)
Str(type, field, path)    == X(type, field, "", path, TRUE, "", FALSE, <<>>)
P(text)                   == X(text, "", text, <<>>, FALSE, "", FALSE, <<>>)
\* A leaf that declares or names the symbol `tag`; U: and no stanza can tell.
D(type, field, text, tag) == X(type, field, text, <<>>, TRUE, tag, tag # "", <<>>)
Id(field, text, tag)      == D("identifier", field, text, tag)
Ty(field, text, tag)      == D("type_identifier", field, text, tag)
Tag(x, tag)               == [x EXCEPT !.tag = tag, !.known = tag # ""]
U(x)                      == [x EXCEPT !.known = FALSE]
As(x, field)              == [x EXCEPT !.field = field]
Between(open, kids, close) == <<P(open)>> \o kids \o <<P(close)>>
Braces(kids)              == Between("{", kids, "}")
Parens(kids)              == Between("(", kids, ")")

\* The preorder of a nested tree; tokens are a byte long and a byte apart.
RECURSIVE Flat(_, _, _, _)
Flat(x, parent, id, at) ==
  LET row(to) == [type |-> x.type, field |-> x.field, text |-> x.text, path |-> x.path,
                  named |-> x.named, tag |-> x.tag, known |-> x.known,
                  parent |-> parent, from |-> at, to |-> to]
      below == FoldLeft(LAMBDA acc, k :
                 LET at2 == IF acc = <<>> THEN at ELSE acc[Len(acc)].to + 1
                 IN acc \o Flat(k, id, id + Len(acc) + 1, at2), <<>>, x.kids)
      end == IF below = <<>> THEN at + 1 ELSE below[Len(below)].to
  IN <<row(end)>> \o below
TreeOf(x) == Flat(x, 0, 1, 0)

\* Each list of statements with the next; a file with each of the others.
Pairs(S)           == { <<S[i], S[(i % Len(S)) + 1]>> : i \in DOMAIN S }
With(file, others) == { <<file, other>> : other \in others }
=============================================================================
