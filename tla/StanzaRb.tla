------------------------------ MODULE StanzaRb ------------------------------
(* The Ruby stanza: extract/rb. A symbol's namespace is the constants around *)
(* it; the builder's `ns` is its `unit`, the file's path, which only a       *)
(* require names. `bindings` is `ivarTypes`. A constant path is the sequence *)
(* of its segments.                                                          *)
EXTENDS Stanza, TLC

-----------------------------------------------------------------------------
(* query.scm *)
Callables == {"method", "singleton_method"}
Sigils    == {"instance_variable", "class_variable", "global_variable"}

Scopes ==
  [x \in Callables \cup {"block", "do_block", "lambda"} |-> "function"]
  @@ [x \in {"class", "singleton_class"} |-> "type"]
  @@ [program |-> "file"] @@ [module |-> "package"]

Captures(t) ==
  Matches(t, { <<"module", "name", "constant", "package">>, <<"class", "name", "constant", "type">>,
               <<"assignment", "left", "constant", "constant">>,
               <<"exception_variable", AnyField, "identifier", "variable">> }
        \cup { <<x, "name", y, "method">> : x \in Callables, y \in {"identifier", "setter"} }
        \cup { <<x, "left", y[1], y[2]>> :
                 x \in {"assignment", "operator_assignment"},
                 y \in { <<"identifier", "variable">>, <<"instance_variable", "field">>,
                         <<"class_variable", "field">>, <<"global_variable", "variable">> } }
        \cup { <<x, AnyField, "identifier", "parameter">> :
                 x \in {"method_parameters", "block_parameters", "lambda_parameters"} }
        \cup { <<x, "name", "identifier", "parameter">> :
                 x \in {"optional_parameter", "splat_parameter", "hash_splat_parameter",
                        "keyword_parameter", "block_parameter"} })

\* The calls of the methods, each with the symbols or the paths it is given.
Directives(t, methods, given) ==
  { [as |-> "directive", node |-> x[1], name |-> x[2]] :
      x \in { y \in (DOMAIN t) \X given :
                /\ t[y[1]].type = "call" /\ FieldText(t, y[1], "method") \in methods
                /\ \/ t[y[2]].parent = Field(t, y[1], "arguments")
                   \/ /\ Type(t, t[y[2]].parent) = "string"
                      /\ t[t[y[2]].parent].parent = Field(t, y[1], "arguments") } }
attrs(t) == Directives(t, {"attr_reader", "attr_writer", "attr_accessor"},
                       { n \in DOMAIN t : t[n].type = "simple_symbol" })
requires(t) == Directives(t, {"require", "require_relative"},
                          { n \in DOMAIN t : t[n].type = "string_content" })

Uses(t) ==
  Matches(t, { <<"call", "method", "identifier", "call">>, <<"call", "method", "constant", "call">>,
               <<"scope_resolution", "scope", "constant", "type">>,
               <<"scope_resolution", "name", "constant", "type">> })
  \cup Leaves(t, {"constant"}, "type")
  \cup Leaves(t, {"identifier"} \cup Sigils, "read")

-----------------------------------------------------------------------------
(* Constant paths and the containers of a node. *)
singletonComponent == <<"self", ".">>

\* The prefixes of a constant path: of each its last segment.
pathSegments(t, node) ==
  LET s[n \in 0 .. Len(t)] ==
        LET scope == Field(t, n, "scope")
            name  == FieldText(t, n, "name") IN
        CASE Type(t, n) = "constant" -> << t[n].text >>
          [] Type(t, n) = "scope_resolution" /\ name # "" /\ scope = 0 -> << name >>
          [] Type(t, n) = "scope_resolution" /\ name # "" /\ s[scope] # <<>> -> Append(s[scope], name)
          [] OTHER -> <<>>
  IN s[node]

\* Every segment but the last is a namespace.
joinPath(segs, mark) ==
  [i \in DOMAIN segs |-> <<segs[i], IF i = Len(segs) THEN mark ELSE "/">>]

declaredPath(t, n) == pathSegments(t, Field(t, n, "name"))
memberName(t, n)   == FieldText(t, n, "name")

\* What a node contributes to the suffix of what it holds.
Callable(within, name) == IF name = "" THEN <<>> ELSE Append(within, <<name, "().">>)

component(t, n) ==
  CASE Type(t, n) = "module"          -> joinPath(declaredPath(t, n), "/")
    [] Type(t, n) = "class"           -> joinPath(declaredPath(t, n), "#")
    [] Type(t, n) = "singleton_class" -> << singletonComponent >>
    [] Type(t, n) = "method"           -> Callable(<<>>, memberName(t, n))
    [] Type(t, n) = "singleton_method" -> Callable(<< singletonComponent >>, memberName(t, n))
    [] OTHER                           -> <<>>

containerSuffix(t, n) ==
  FoldLeft(LAMBDA s, p : s \o component(t, p), <<>>, InOrder(Ancestors(t, n)))

\* The modules around a node alone: what an unqualified constant falls back to.
moduleSuffix(t, n) ==
  FoldLeft(LAMBDA s, p : s \o component(t, p), <<>>,
           InOrder({ p \in Ancestors(t, n) \cup {n} : t[p].type = "module" }))

enclosingType(t, n)    == Nearest(t, n, {"class", "module", "singleton_class"})
hasEnclosingType(t, n) == enclosingType(t, n) # 0

\* What `self` is at a node, none at the top level: the class object inside a
\* `def self.m`, when it is told apart.
selfSuffix(t, n, singleton) ==
  LET p == enclosingType(t, n)
      inSingleton == \E m \in Ancestors(t, n) : p < m /\ t[m].type = "singleton_method"
      toldApart == singleton /\ inSingleton /\ t[p].type # "singleton_class"
  IN IF component(t, p) = <<>> THEN <<>>
     ELSE containerSuffix(t, p) \o component(t, p) \o (IF toldApart THEN << singletonComponent >> ELSE <<>>)

-----------------------------------------------------------------------------
(* Definitions. *)
refineKind(t, c) == IF c.as = "method" /\ ~hasEnclosingType(t, c.node) THEN "function" ELSE c.as

definitionMark(kind) ==
  CASE kind \in {"function", "method"} -> "()."
    [] kind \in {"type", "constant"}   -> "#"
    [] kind = "package"                -> "/"
    [] kind = "parameter"              -> "()"
    [] OTHER                           -> "."

definitionSuffix(t, c) ==
  LET sigil == t[c.name].type
      container == containerSuffix(t, c.node)
                   \o (IF t[c.node].type = "singleton_method" THEN << singletonComponent >> ELSE <<>>)
      in == IF sigil = "global_variable" THEN <<>>
            ELSE IF sigil \in Sigils THEN selfSuffix(t, c.node, sigil = "instance_variable")
            ELSE container
  IN Append(in, <<Text(t, c.name), definitionMark(refineKind(t, c))>>)

\* The one expression whose type Ruby writes down: C.new.
inferredType(t, expr) ==
  LET call == Bare(t, expr, {"parenthesized_statements"})
      receiver == Field(t, call, "receiver")
  IN IF /\ Type(t, call) = "call" /\ FieldText(t, call, "method") = "new"
        /\ Type(t, receiver) \in {"constant", "scope_resolution"}
     THEN Words(t, receiver) ELSE NoType

declaredType(t, node) ==
  IF t[node].type \in {"assignment", "operator_assignment"}
  THEN inferredType(t, Field(t, node, "right")) ELSE NoType

-----------------------------------------------------------------------------
(* What a name means here. *)
enclosingScope(b, span) == Enclosing(b, span)

lookup(b, name, pos) == Visible(b, name, pos, {})

\* A segment is a module or a class, and only the file that declares it knows.
terminators(mark) ==
  CASE mark = "#" -> <<"#", "/">>
    [] mark = "/" -> <<"/", "#">>
    [] OTHER      -> << mark >>

\* A path looked up segment by segment from a prefix, none when it is not the
\* file's: all but the last must be declared, and the last of a path of one.
declaredFrom(b, prefix, segs, mark) ==
  LET d[i \in 0 .. Len(segs)] ==
        LET last  == i = Len(segs)
            marks == terminators(IF last THEN mark ELSE "/")
            with(m) == Append(d[i - 1], <<segs[i], m>>)
            found == { k \in DOMAIN marks : Indexed(b, Desc(b.coord, with(marks[k]))) # 0 }
        IN IF i = 0 THEN prefix
           ELSE IF i > 1 /\ d[i - 1] = <<>> THEN <<>>
           ELSE IF found # {} THEN with(marks[Least(found)])
           ELSE IF last /\ i > 1 THEN with(mark)
           ELSE <<>>
  IN d[Len(segs)]

\* Innermost container first, the root last.
localDeclared(b, n, segs, mark, otherwise) ==
  LET t == b.tree
      in(p) == IF p = 0 THEN <<>> ELSE containerSuffix(t, p) \o component(t, p)
      around == { p \in Ancestors(t, n) \cup {n} : component(t, p) # <<>> } \cup {0}
      found  == { x \in { [at |-> p, desc |-> declaredFrom(b, in(p), segs, mark)] : p \in around } : x.desc # <<>> }
  IN NearestOf(found, otherwise)

constantTarget(b, n, segs, mark, absolute) ==
  LET stated == (IF absolute THEN <<>> ELSE moduleSuffix(b.tree, n)) \o joinPath(segs, mark)
  IN Desc(b.coord, localDeclared(b, n, segs, mark, stated))

\* A qualified path is read from the root.
typeTarget(b, n, type) == constantTarget(b, n, type, "#", Len(type) > 1)

OfStated(b, n, type) == IF type = NoType THEN NoTarget ELSE typeTarget(b, n, type)

\* What a receiver is: `self`, the class object a constant names, the instance
\* a variable was last initialised to.
valueTarget(b, node, pos) ==
  LET t == b.tree
      value == Bare(t, node, {"parenthesized_statements"})
      self  == selfSuffix(t, value, TRUE)
      segs  == pathSegments(t, value)
      local == lookup(b, Text(t, value), pos)
      class == typeTarget(b, value, segs)
      type  == CASE Type(t, value) = "identifier" /\ local # 0 -> b.defs[local].type
                 [] Type(t, value) \in {"instance_variable", "class_variable"}
                      /\ t[value].text \in DOMAIN b.bindings -> b.bindings[t[value].text]
                 [] Type(t, value) = "call" -> inferredType(t, value)
                 [] OTHER -> NoType
  IN IF Type(t, value) = "self" /\ self # <<>> THEN Desc(b.coord, self)
     ELSE IF Type(t, value) \in {"constant", "scope_resolution"} /\ segs # <<>>
     THEN [class EXCEPT !.suffix = Append(@, singletonComponent)]
     ELSE OfStated(b, value, type)

-----------------------------------------------------------------------------
(* References. *)
\* On the left of an assignment a call is to the writer.
sendName(t, call, name) ==
  LET p == t[call].parent
  IN IF Type(t, p) \in {"assignment", "operator_assignment"} /\ Field(t, p, "left") = call
     THEN name \o "=" ELSE name

\* A send to self: a method the file declares around it, or self's.
SendToSelf(b, n, name) ==
  Desc(b.coord, localDeclared(b, n, << name >>, "().", Append(selfSuffix(b.tree, n, TRUE), <<name, "().">>)))

callDescriptor(b, r) ==
  LET name == sendName(b.tree, r.node, Text(b.tree, r.name))
      receiver == Field(b.tree, r.node, "receiver")
      target == valueTarget(b, receiver, b.tree[r.name].from)
  IN IF receiver = 0 THEN SendToSelf(b, r.name, name)
     ELSE HangOr(target, name, "().", Hang(Top(b.coord, Unknown, "#"), name, "()."))

\* A bare name is a local declared before it, or a send to self.
readDescriptor(b, r) ==
  LET t == b.tree
      name == Text(t, r.name)
      local == lookup(b, name, t[r.name].from)
      member == Append(selfSuffix(t, r.name, t[r.name].type = "instance_variable"), <<name, ".">>)
  IN CASE t[r.name].type = "global_variable" -> Top(b.coord, name, ".")
       [] t[r.name].type \in Sigils \ {"global_variable"} -> Desc(b.coord, member)
       [] t[r.name].type = "identifier" /\ local # 0 -> DescriptorOf(b, local)
       [] OTHER -> SendToSelf(b, r.name, name)

isPathQualifier(t, n) ==
  LET p == t[n].parent IN Type(t, p) = "scope_resolution" /\ Field(t, p, "scope") = n

\* The argument of an include names a module and nothing else.
isMixinArgument(t, n) ==
  LET args == t[n].parent
      call == IF args = 0 THEN 0 ELSE t[args].parent
  IN /\ Type(t, args) = "argument_list" /\ Type(t, call) = "call" /\ Field(t, call, "receiver") = 0
     /\ FieldText(t, call, "method") \in {"include", "extend", "prepend"}

\* Which of a path's segments an identifier names, how the last of them ends.
referencePath(t, r) ==
  LET all  == pathSegments(t, r.node)
      mark == IF isMixinArgument(t, r.node) THEN "/" ELSE "#"
      path(segs, m, absolute) == [segs |-> segs, mark |-> m, absolute |-> absolute]
  IN IF t[r.node].type # "scope_resolution" THEN path(<< Text(t, r.name) >>, mark, FALSE)
     ELSE IF all # <<>> /\ Field(t, r.node, "scope") = r.name THEN path(<< all[1] >>, "/", TRUE)
     ELSE IF isPathQualifier(t, r.node) THEN path(all, "/", TRUE)
     ELSE path(all, mark, TRUE)

constantReference(b, r, p) ==
  IF p.segs = <<>> THEN Top(b.coord, Unknown, "#")
  ELSE constantTarget(b, r.name, p.segs, p.mark, p.absolute)

referenceDescriptor(b, r) ==
  CASE r.as = "call" -> callDescriptor(b, r)
    [] r.as = "type" -> constantReference(b, r, referencePath(b.tree, r))
    [] OTHER         -> readDescriptor(b, r)

refPriority(role) == CASE role = "call" -> 3 [] role = "type" -> 2 [] OTHER -> 1

\* The role, then the wider node.
moreSpecific(t, c, d) ==
  \/ refPriority(c.as) > refPriority(d.as)
  \/ /\ refPriority(c.as) = refPriority(d.as)
     /\ t[c.node].to - t[c.node].from > t[d.node].to - t[d.node].from

\* A call that declares rather than sends.
isDirective(t, call) ==
  /\ t[call].type = "call" /\ Field(t, call, "receiver") = 0 /\ Field(t, call, "arguments") # 0
  /\ FieldText(t, call, "method") \in {"require", "require_relative", "include", "extend", "prepend",
                                      "attr_reader", "attr_writer", "attr_accessor"}

-----------------------------------------------------------------------------
(* The passes. *)
addOccurrence(b, desc, role, kind, span) == Added(b, desc, role, kind, span)

collectScopes(b) == Scoped(b, Scopes)

\* The load unit a file is: a definition without width at its start.
collectUnit(b) == PackageDefined(b, <<0, 0>>, fileScope(b))

claimSubtree(b, node) == [b EXCEPT !.claimed = @ \cup { Span(b.tree, c) : c \in Within(b.tree, node) }]

\* An accessor the class already has is not declared again.
defineAttr(b, container, name, span) ==
  LET desc == Desc(b.coord, Append(container, <<name, "().">>))
      a == addOccurrence(b, desc, "definition", "method", span)
  IN IF Indexed(b, desc) # 0 THEN b
     ELSE [a EXCEPT !.edges = @ \cup { <<"defines", "file", 0, "occurrence", Len(a.occs)>> }]

attr(b, c) ==
  LET t == b.tree
      in == containerSuffix(t, c.node)
      method == FieldText(t, c.node, "method")
      reader == IF method = "attr_writer" THEN b ELSE defineAttr(b, in, Text(t, c.name), Span(t, c.name))
  IN IF method = "attr_reader" THEN reader
     ELSE defineAttr(reader, in, Text(t, c.name) \o "=", Span(t, c.name))

InTextOrder(cands) == Sorted(cands, LAMBDA x, y : x.name < y.name)

collectAttrs(b) == FoldLeft(attr, b, InTextOrder(attrs(b.tree)))

\* What a sigil holds is the file's to remember, whichever method wrote it.
define(a, c) ==
  LET t == a.tree
      s == Span(t, c.name)
      name == Text(t, c.name)
      type == declaredType(t, c.node)
      held == type # NoType /\ t[c.name].type \in {"instance_variable", "class_variable"}
  IN [Defined(claimSubtree(a, c.name), Desc(a.coord, definitionSuffix(t, c)), refineKind(t, c),
              name, s, enclosingScope(a, s), type)
        EXCEPT !.bindings = IF held THEN Bind(@, name, type) ELSE @]

\* The unit, the definitions and the accessors.
collectDefinitions(b) == collectAttrs(Define(collectUnit(b), Captures(b.tree), define))

\* path.Join: the directory, and the segments of what is required of it.
Joined(dir, segs) ==
  FoldLeft(LAMBDA at, s : IF s = "." THEN at
                          ELSE IF s = ".." /\ at # <<>> /\ Last(at) # ".." THEN Front(at)
                          ELSE Append(at, s), dir, segs)

\* A path without the extension a require never writes.
unitNamespace(path) == NS(Joined(<<>>, path))
rbStdlib == {"json", "set"}

\* A path relative to the file, or to the repository's root.
resolveRequire(b, spec, relative) ==
  LET joined == Joined(b.dir, spec) IN
  IF relative THEN IF joined # <<>> /\ joined[1] = ".." THEN Desc(spec, <<>>)
                   ELSE Desc(b.coord, unitNamespace(joined))
  ELSE IF spec[1] \in rbStdlib THEN Desc(<< spec[1] >>, unitNamespace(Tail(spec)))
  ELSE Desc(b.coord, unitNamespace(spec))

require(a, c) ==
  LET relative == FieldText(a.tree, c.node, "method") = "require_relative"
  IN addOccurrence(a, resolveRequire(a, a.tree[c.name].path, relative), "reference", "package",
                   Span(a.tree, c.name))

collectImports(b) == FoldLeft(require, b, InTextOrder(requires(b.tree)))

\* What declares is not a reference as well.
refer(a, r) ==
  LET s == Span(a.tree, r.name)
  IN IF r.as = "call" /\ isDirective(a.tree, r.node) THEN a
     ELSE Referred(a, referenceDescriptor(a, r), r.as, s, enclosingScope(a, s))

collectReferences(b) ==
  LET cands == Uses(b.tree)
  IN Refer(b, cands, { p \in cands \X cands : moreSpecific(b.tree, p[1], p[2]) }, refer)

\* The load unit's namespace is the file's path under the coordinate's root.
Parse(coord, file) ==
  NewBuilder(coord, unitNamespace(Front(file.path)), Front(Front(file.path)), file.tree)
=============================================================================
