----------------------------- MODULE MCCompiled -----------------------------
(* The programs of the compiled languages: Go, Rust, Java, C#. *)
EXTENDS Syntax

Block(stmts) == N("block", "body", Braces(stmts))

-----------------------------------------------------------------------------
(* Two Go packages of one module: lib, and a main that imports it. *)
Fd(f, x, tag) == D("field_identifier", f, x, tag)
GoParams(ps) == N("parameter_list", "parameters", Parens(ps))
GoParam(name, tag, type) == N("parameter_declaration", "", <<Id("name", name, tag), type>>)
GoCall(fn) == N("call_expression", "", <<fn, N("argument_list", "arguments", <<P("("), P(")")>>)>>)
Sel(f, x, xt, y, yt) == N("selector_expression", f, <<Id("operand", x, xt), Fd("field", y, yt)>>)
Short(l, r) == N("short_var_declaration", "", <<N("expression_list", "left", l), N("expression_list", "right", r)>>)
Lit(type) == N("composite_literal", "", <<type, P("{}")>>)

GoMod == <<"ex.com", "m">>
GoImport(alias, path) ==
  N("import_spec", "", (IF alias = "" THEN <<>> ELSE <<L("package_identifier", "name", alias)>>) \o <<Str("interpreted_string_literal", "path", path)>>)

\* lib/lib.go: package lib; type T struct { f int }; func (t *T) M() { t.f }; func F() {}
GoLib ==
  N("source_file", "", <<
    N("package_clause", "", <<D("package_identifier", "", "lib", "lib")>>),
    N("type_declaration", "", << N("type_spec", "", <<Ty("name", "T", "T"),
        N("struct_type", "type", Braces(<<N("field_declaration", "", <<Fd("name", "f", "T.f"), Ty("type", "int", "")>>)>>))>>)>>),
    N("method_declaration", "", << N("parameter_list", "receiver",
          <<P("("), GoParam("t", "M.t", N("pointer_type", "type", <<Ty("", "T", "T")>>)), P(")")>>),
        Fd("name", "M", "T.M"), GoParams(<<>>), Block(<<Sel("", "t", "M.t", "f", "T.f")>>)>>),
    N("function_declaration", "", <<Id("name", "F", "F"), GoParams(<<>>), Block(<<GoCall(Id("function", "g", "g"))>>)>>),
    N("function_declaration", "", <<Id("name", "g", "g"), GoParams(<<>>), Block(<<>>)>>)
  >>)

GoStatements(q) == <<
  <<GoCall(Sel("function", q, "lib", "F", "F"))>>,
  <<Short(<<Id("", "v", "v")>>, <<Lit(N("qualified_type", "type", <<L("package_identifier", "package", q), Ty("name", "T", "T")>>))>>),
    GoCall(Sel("function", "v", "v", "M", "T.M"))>>,
  <<GoCall(Sel("function", "p", "main.p", "M", "T.M")), Sel("", "p", "main.p", "f", "T.f")>>,
  <<GoCall(Id("function", "len", "")), GoCall(Id("function", "helper", "helper"))>>,
  <<Sel("", "glob", "glob", "f", "")>>,
  \* early := lib.T{}; early.M(), which a variable of the package is named too
  <<Short(<<Id("", "early", "early2")>>, <<Lit(N("qualified_type", "type", <<L("package_identifier", "package", q), Ty("name", "T", "T")>>))>>),
    GoCall(Sel("function", "early", "early2", "M", "T.M"))>> >>

\* func(x S) { x.M() }, func(x S) { x.F() }, func(x func()) { x() }: x is main's p,
\* the package lib, main's helper.
GoClosure(x, tag, type, body) == <<N("func_literal", "", <<GoParams(<<GoParam(x, tag, type)>>), Block(<<body>>)>>)>>
GoShadowedLocal == GoClosure("p", "p2", Ty("type", "S", "S"), GoCall(Sel("function", "p", "p2", "M", "S.M")))
GoShadowedImport == GoClosure("lib", "arg", Ty("type", "S", "S"), GoCall(Sel("function", "lib", "arg", "F", "S.F")))
GoHomonym == GoClosure("helper", "arg", N("function_type", "type", <<GoParams(<<>>)>>), GoCall(Id("function", "helper", "arg")))

GoMain(alias, q, s1, s2) ==
  N("source_file", "", <<
    N("package_clause", "", <<D("package_identifier", "", "main", "main")>>),
    Tag(GoImport(alias, <<"ex.com", "m", "lib">>), "lib"),
    GoImport("", <<"fmt">>),
    N("var_declaration", "", <<N("var_spec", "", <<Id("name", "early", "early"), L("interface_type", "type", "")>>)>>),
    N("function_declaration", "", <<Id("name", "main", "mainf"),
       GoParams(<<GoParam("p", "main.p", N("pointer_type", "type", <<N("qualified_type", "", <<L("package_identifier", "package", q), Ty("name", "T", "T")>>)>>))>>),
       Block(s1 \o <<N("func_literal", "", <<GoParams(<<>>), Block(s2)>>)>>)>>),
    N("type_declaration", "", << N("type_spec", "", <<Ty("name", "S", "S"),
        N("interface_type", "type", Braces(<<N("method_elem", "", <<Fd("name", "M", "S.M"), GoParams(<<>>)>>),
                                              N("method_elem", "", <<Fd("name", "F", "S.F"), GoParams(<<>>)>>)>>))>>)>>),
    N("function_declaration", "", <<Id("name", "helper", "helper"), GoParams(<<>>), Block(<<>>)>>),
    N("var_declaration", "", <<N("var_spec", "", <<Id("name", "glob", "glob"), L("interface_type", "type", "")>>)>>)
  >>)

GoProgramsOf(mains) ==
  With([ext |-> "go", path |-> <<"lib", "lib.go">>, coord |-> GoMod, tree |-> TreeOf(GoLib)],
       { [ext |-> "go", path |-> <<"main.go">>, coord |-> GoMod, tree |-> TreeOf(m)] : m \in mains })
GoPrograms ==
  GoProgramsOf(UNION { { GoMain(a, q, s[1], s[2]) : s \in Pairs(GoStatements(q)) } : <<a, q>> \in { <<"", "lib">>, <<"l", "l">> } })
GoCollision(s) == GoProgramsOf({GoMain("", "lib", <<>>, s)})

-----------------------------------------------------------------------------
(* Two Rust files of one crate: the module greeter, written as greeter.rs or *)
(* as greeter/mod.rs, and the crate's main.rs.                               *)
List(kids) == N("declaration_list", "body", Braces(kids))
Fn(x, tag, ps, stmts) ==
  N("function_item", "", <<P("fn"), Id("name", x, tag), N("parameters", "parameters", Parens(ps)), N("block", "body", Braces(stmts))>>)
Sig(x, tag, ps) == N("function_signature_item", "", <<P("fn"), Id("name", x, tag), N("parameters", "parameters", Parens(ps)), P(";")>>)
Me == N("self_parameter", "", <<P("&"), L("self", "", "self")>>)
Self == L("self", "", "self")
RsParam(x, tag, type) == N("parameter", "", <<Id("pattern", x, tag), P(":"), As(type, "type")>>)
Ref(type) == N("reference_type", "", <<P("&"), As(type, "type")>>)
Let(x, tag, v) == N("let_declaration", "", <<P("let"), Id("pattern", x, tag), P("="), As(v, "value"), P(";")>>)
RsCall(f) == N("call_expression", "", <<As(f, "function"), N("arguments", "arguments", Parens(<<>>))>>)
RsDot(v, x, tag) == N("field_expression", "", <<As(v, "value"), P("."), D("field_identifier", "field", x, tag)>>)
RsOn(v, x, tag) == RsCall(RsDot(v, x, tag))
At(path, x, tag) == N("scoped_identifier", "", <<As(path, "path"), P("::"), Id("name", x, tag)>>)
TypeAt(path, x, tag) == N("scoped_type_identifier", "", <<As(path, "path"), P("::"), Ty("name", x, tag)>>)
RsFieldOf(x, tag, type) == N("field_declaration", "", <<D("field_identifier", "name", x, tag), P(":"), As(type, "type")>>)
Struct(x, tag, fields) ==
  N("struct_item", "", <<P("struct"), Ty("name", x, tag), N("field_declaration_list", "body", Braces(fields))>>)
Impl(type, items) == N("impl_item", "", <<P("impl"), As(type, "type"), List(items)>>)
ImplFor(trait, type, items) ==
  N("impl_item", "", <<P("impl"), As(trait, "trait"), P("for"), As(type, "type"), List(items)>>)
Crate == L("crate", "", "crate")
Super == L("super", "", "super")
U32 == L("primitive_type", "", "u32")

\* const LIMIT: u32 = 1; trait Loud { fn shout(&self); fn twice(&self) { self.shout(); } }
\* enum Mood { Happy } struct Inner { size: u32 } struct Greeter { inner: Inner, mood: Mood }
\* impl Greeter { fn new() -> Self { Inner {}; Self::new() }
\*   fn greet(&self) { self.inner.size; Mood::Happy; let r = &Greeter::new(); r.greet(); helper(); } }
\* impl Loud for Greeter { fn shout(&self) { self.greet(); } }  fn helper<T>(x: T) { x.y; }
\* mod deep { struct Low; impl Low { fn dig(&self) { super::helper(); self::bury(); } } fn bury() {}
\*   impl super::Greeter { fn under(&self) { self.under(); } } }
RsLib == N("source_file", "", <<
  N("const_item", "", <<P("const"), Id("name", "LIMIT", "LIMIT"), P(":"), As(U32, "type"), P(";")>>),
  N("trait_item", "", <<P("trait"), Ty("name", "Loud", "Loud"),
    List(<<Sig("shout", "Loud.shout", <<Me>>), Fn("twice", "twice", <<Me>>, <<RsOn(Self, "shout", "Loud.shout")>>)>>)>>),
  N("enum_item", "", <<P("enum"), Ty("name", "Mood", "Mood"),
    N("enum_variant_list", "body", Braces(<<N("enum_variant", "", <<Id("name", "Happy", "Happy")>>)>>))>>),
  Struct("Inner", "Inner", <<RsFieldOf("size", "size", U32)>>),
  Struct("Greeter", "Greeter", <<RsFieldOf("inner", "inner", Ty("", "Inner", "Inner")), RsFieldOf("mood", "mood", Ty("", "Mood", "Mood"))>>),
  Impl(Ty("", "Greeter", "Greeter"), <<
    N("function_item", "", <<P("fn"), Id("name", "new", "new"), N("parameters", "parameters", Parens(<<>>)), P("->"), Ty("return_type", "Self", "Greeter"),
      N("block", "body", Braces(<<N("struct_expression", "", <<Ty("name", "Inner", "Inner"), N("field_initializer_list", "body", Braces(<<>>))>>),
        RsCall(At(U(Id("", "Self", "Greeter")), "new", ""))>>))>>),
    Fn("greet", "greet", <<Me>>, <<RsDot(RsDot(Self, "inner", "inner"), "size", ""), At(Id("", "Mood", "Mood"), "Happy", "Happy"),
      Let("r", "r", N("reference_expression", "", <<P("&"), As(RsCall(At(Id("", "Greeter", "Greeter"), "new", "new")), "value")>>)),
      RsOn(Id("", "r", "r"), "greet", "greet"), RsCall(Id("", "helper", "helper"))>>)>>),
  ImplFor(Ty("", "Loud", "Loud"), Ty("", "Greeter", "Greeter"), <<Fn("shout", "shout", <<Me>>, <<RsOn(Self, "greet", "greet")>>)>>),
  N("function_item", "", <<P("fn"), Id("name", "helper", "helper"),
    N("type_parameters", "type_parameters", Between("<", <<N("type_parameter", "", <<Ty("name", "T", "T")>>)>>, ">")),
    N("parameters", "parameters", Parens(<<RsParam("x", "x", U(Ty("", "T", "T")))>>)), N("block", "body", Braces(<<RsDot(Id("", "x", "x"), "y", "")>>))>>),
  N("mod_item", "", <<P("mod"), Id("name", "deep", "deep"), List(<<
    Struct("Low", "Low", <<>>),
    Impl(Ty("", "Low", "Low"), <<Fn("dig", "dig", <<Me>>, <<RsCall(At(Super, "helper", "helper")), RsCall(At(Self, "bury", "bury"))>>)>>),
    Fn("bury", "bury", <<>>, <<>>),
    Impl(TypeAt(Super, "Greeter", "Greeter"), <<Fn("under", "under", <<Me>>, <<RsOn(Self, "under", "under")>>)>>)>>)>>)>>)

Greeter == Id("", "greeter", "greeter")
Use(x) == N("use_declaration", "", <<P("use"), As(x, "argument"), P(";")>>)
Items(path, xs) == N("scoped_use_list", "", <<As(path, "path"), P("::"), N("use_list", "list", Braces(xs))>>)
Deep == At(Id("", "deep", "deep"), "Low", "")
CrateGreeter == Tag(At(Crate, "greeter", ""), "greeter")
RsUses == {
  <<Use(Items(CrateGreeter, <<Self, Id("", "Greeter", ""), Deep>>))>>,
  <<Use(At(Greeter, "Greeter", "")), Use(N("use_wildcard", "", <<Greeter, P("::*")>>)),
    Use(N("use_as_clause", "", <<As(At(Tag(At(Id("", "greeter", ""), "deep", ""), "deep"), "Low", ""), "path"), P("as"), Id("alias", "Low", "")>>))>>,
  <<N("extern_crate_declaration", "", <<P("extern"), L("crate", "", "crate"), Id("name", "core", ""), P(";")>>),
    Use(Items(Tag(Crate, "crate"), <<Items(Greeter, <<Deep, N("use_as_clause", "", <<Id("path", "Greeter", ""), P("as"), Id("alias", "Greeter", "")>>)>>)>>))>> }

RsStatements == <<
  <<Let("g", "g", RsCall(At(Id("", "Greeter", "Greeter"), "new", "new"))), RsOn(Id("", "g", "g"), "greet", "greet"), RsDot(Id("", "g", "g"), "mood", "mood")>>,
  <<RsCall(At(Greeter, "helper", "helper")), RsCall(At(At(At(Crate, "greeter", "greeter"), "deep", "deep"), "bury", "bury")),
    At(At(Greeter, "Mood", "Mood"), "Happy", "Happy"), At(Greeter, "LIMIT", "LIMIT")>>,
  <<RsOn(Id("", "p", "p"), "greet", "greet"), RsDot(Id("", "p", "p"), "inner", "inner"), RsOn(Id("", "p", "p"), "shout", "shout"), RsCall(Id("", "helper", "main.helper"))>>,
  <<RsOn(Id("", "l", "l"), "dig", "dig"), RsCall(Id("", "Some", "")), RsCall(U(RsDot(Id("", "q", "q"), "greet", ""))),
    N("closure_expression", "", <<N("closure_parameters", "parameters", Between("|", <<RsParam("k", "k", Ty("", "Low", "Low"))>>, "|")), RsOn(Id("", "k", "k"), "dig", "dig")>>)>> >>

\* |x: F| { x() }: x is main's p, the imported aid, main's helper.
RsClosure(x, tag, type, body) ==
  <<N("closure_expression", "", <<N("closure_parameters", "parameters", Between("|", <<RsParam(x, tag, type)>>, "|")), body>>)>>
Callback(x) == RsClosure(x, "arg", Ty("", "Low", "Low"), RsCall(Id("", x, "arg")))
RsShadowedLocal == RsClosure("p", "p2", Ty("", "Low", "Low"), RsOn(Id("", "p", "p2"), "dig", "dig"))
RsShadowedImport == Callback("aid")
RsHomonym == Callback("helper")
UseAid == <<Use(N("use_as_clause", "", <<As(At(Tag(At(Greeter, "deep", ""), "deep"), "Low", ""), "path"), P("as"), Id("alias", "Low", "")>>)),
            Use(N("use_as_clause", "", <<As(At(Greeter, "helper", ""), "path"), P("as"), Id("alias", "aid", "")>>))>>

RsApp(uses, s1, s2) == Tag(N("source_file", "",
  <<N("mod_item", "", <<P("mod"), Id("name", "greeter", "greeter"), P(";")>>)>> \o uses \o
  <<Fn("run", "run", <<RsParam("p", "p", Ref(TypeAt(L("identifier", "", "greeter"), "Greeter", "Greeter"))), RsParam("l", "l", Ty("", "Low", "Low")),
      RsParam("q", "q", TypeAt(At(Crate, "greeter", "greeter"), "Greeter", "Greeter"))>>, s1 \o s2),
    Fn("helper", "main.helper", <<>>, <<>>)>>), "crate")

RsFile(path, tree) == [ext |-> "rs", path |-> path, coord |-> <<"app">>, tree |-> TreeOf(tree)]
RsProgramsOf(apps) ==
  UNION { With(RsFile(at, Tag(RsLib, "greeter")), { RsFile(<<"src", "main", ".rs">>, a) : a \in apps }) :
            at \in { <<"src", "greeter", ".rs">>, <<"src", "greeter", "mod", ".rs">> } }
RsPrograms == RsProgramsOf({ RsApp(u, s[1], s[2]) : u \in RsUses, s \in Pairs(RsStatements) })
RsCollision(s) == RsProgramsOf({RsApp(UseAid, <<>>, s)})

-----------------------------------------------------------------------------
(* Two Java packages of one artifact: com.ex, and a com.app that uses it. *)
Args == N("argument_list", "arguments", Parens(<<>>))
JavaParams(ps) == N("formal_parameters", "parameters", Parens(ps))
JavaParam(type, x, tag) == N("formal_parameter", "", <<As(type, "type"), Id("name", x, tag)>>)
JavaMethod(x, tag, ps, stmts) ==
  N("method_declaration", "", <<L("void_type", "type", "void"), Id("name", x, tag), JavaParams(ps), Block(stmts)>>)
JavaFieldOf(type, x, tag) ==
  N("field_declaration", "", <<As(type, "type"), N("variable_declarator", "declarator", <<Id("name", x, tag)>>)>>)
JavaLocal(type, x, tag, value) ==
  N("local_variable_declaration", "", <<As(type, "type"), N("variable_declarator", "declarator", <<Id("name", x, tag), P("="), As(value, "value")>>)>>)
JavaClass(x, tag, extends, members) ==
  N("class_declaration", "", <<P("class"), Id("name", x, tag)>>
     \o (IF extends = <<>> THEN <<>> ELSE <<N("superclass", "superclass", <<P("extends")>> \o extends)>>)
     \o <<N("class_body", "body", Braces(members))>>)
JavaCall(x, tag) == N("method_invocation", "", <<Id("name", x, tag), Args>>)
JavaOn(object, x, tag) == N("method_invocation", "", <<As(object, "object"), P("."), Id("name", x, tag), Args>>)
Access(object, x, tag) == N("field_access", "", <<As(object, "object"), P("."), Id("field", x, tag)>>)
JavaNew(type) == N("object_creation_expression", "", <<P("new"), As(type, "type"), Args>>)
JavaThis == L("this", "", "this")

RECURSIVE Path(_)
Path(words) ==
  IF Len(words) = 1 THEN L("identifier", "", words[1])
  ELSE Tag(N("scoped_identifier", "", <<As(Path(Front(words)), "scope"), P("."), L("identifier", "name", Last(words))>>),
           CASE words = <<"com", "ex">>            -> "com.ex"
             [] words = <<"com", "app">>           -> "com.app"
             [] words = <<"com", "ex", "Greeter">> -> "Greeter"
             [] OTHER                              -> "")
Package(words) == N("package_declaration", "", <<P("package"), Path(words)>>)

\* package com.ex; record Point(int x) {}
\* class Base { void ping() {} }
\* class Greeter extends Base { Inner in; Greeter(Greeter g) { this.in; } static void make() { helper(); }
\*   void greet() { in.pong(); super.ping(); this.in.pong(); late.greet(); } class Inner { void pong() {} } Greeter late;
\*   void set(Inner late) { late.pong(); } void greet(int n) { greet(n); } void helper() {} }    and, a homonym, void tail() { tail.greet(); } Greeter tail;
JavaLib(tail) == N("program", "", <<
  Package(<<"com", "ex">>),
  N("record_declaration", "", <<P("record"), Id("name", "Point", "Point"),
    N("formal_parameters", "parameters", Parens(<<JavaParam(L("integral_type", "", "int"), "x", "Point.x")>>)), N("class_body", "body", Braces(<<>>))>>),
  JavaClass("Base", "Base", <<>>, <<JavaMethod("ping", "ping", <<>>, <<>>)>>),
  JavaClass("Greeter", "Greeter", <<Ty("", "Base", "Base")>>, <<
    JavaFieldOf(Ty("", "Inner", "Inner"), "in", "in"),
    N("constructor_declaration", "", <<Id("name", "Greeter", "init"), JavaParams(<<JavaParam(Ty("", "Greeter", "Greeter"), "g", "g")>>),
      N("constructor_body", "body", Braces(<<Access(JavaThis, "in", "in"), JavaOn(Id("", "g", "g"), "greet", "greet")>>))>>),
    JavaMethod("make", "make", <<>>, <<JavaCall("helper", "helper")>>),
    JavaMethod("greet", "greet", <<>>, <<JavaOn(Id("", "in", "in"), "pong", "pong"), JavaOn(L("super", "", "super"), "ping", "ping"),
      JavaOn(Access(JavaThis, "in", "in"), "pong", "pong"), JavaOn(Id("", "late", "late"), "greet", "greet")>>),
    JavaClass("Inner", "Inner", <<>>, <<JavaMethod("pong", "pong", <<>>, <<>>)>>),
    JavaFieldOf(Ty("", "Greeter", "Greeter"), "late", "late"),
    JavaMethod("set", "set", <<JavaParam(Ty("", "Inner", "Inner"), "late", "set.late")>>, <<JavaOn(Id("", "late", "set.late"), "pong", "pong")>>),
    JavaMethod("greet", "greetN", <<JavaParam(L("integral_type", "", "int"), "n", "n")>>, <<JavaCall("greet", "greetN")>>),
    JavaMethod("helper", "helper", <<>>, <<>>)>> \o tail)
>>)
JavaHomonym == <<JavaMethod("tail", "tail", <<>>, <<JavaOn(Id("", "tail", "rest"), "greet", "")>>),
                 JavaFieldOf(Ty("", "Greeter", "Greeter"), "tail", "rest")>>

JavaImport(static, words, tail) ==
  N("import_declaration", "", <<P("import")>> \o (IF static THEN <<P("static")>> ELSE <<>>) \o <<Path(words)>> \o tail)
Star == <<P("."), L("asterisk", "", "*")>>

JavaExGreeter == Access(Access(Id("", "com", ""), "ex", "com.ex"), "Greeter", "Greeter")
JavaStatements == <<
  <<JavaCall("make", "make"), JavaCall("helper", "App.helper")>>,
  <<JavaLocal(Ty("", "Greeter", "Greeter"), "v", "v", JavaNew(Ty("", "Greeter", "Greeter"))), JavaOn(Id("", "v", "v"), "greet", "greet")>>,
  <<JavaOn(Id("", "Greeter", "Greeter"), "make", "make"), JavaOn(JavaNew(Ty("", "Greeter", "Greeter")), "greet", "greet")>>,
  <<JavaOn(JavaExGreeter, "make", "make"), Access(Id("", "p", "p"), "late", "late")>>,
  <<JavaLocal(Ty("", "var", ""), "w", "w", JavaNew(Ty("", "Greeter", "Greeter"))), N("method_invocation", "", <<As(Id("", "w", "w"), "object"), P("."), U(Id("name", "greet", "greet")), Args>>),
    JavaOn(Access(Id("", "System", ""), "out", ""), "println", "")>> >>

\* class App { void make() {} }, beside an import of Greeter's
JavaShadowedImport == <<JavaMethod("make", "App.make", <<>>, <<JavaCall("make", "App.make")>>)>>

JavaApp(import, s1, s2, more) == N("program", "", << Package(<<"com", "app">>) >> \o import \o <<
  JavaClass("App", "App", <<>>, <<
    JavaMethod("main", "main", <<JavaParam(N("scoped_type_identifier", "", <<N("scoped_type_identifier", "", <<Ty("", "com", ""), P("."), Ty("", "ex", "com.ex")>>), P("."), Ty("", "Greeter", "Greeter")>>), "p", "p")>>,
      s1 \o <<N("lambda_expression", "", <<N("inferred_parameters", "parameters", Parens(<<Id("", "k", "k")>>)), P("->"), Block(s2)>>)>>),
    JavaMethod("helper", "App.helper", <<>>, <<>>)>> \o more) >>)

Imports == { << JavaImport(FALSE, <<"com", "ex", "Greeter">>, <<>>), JavaImport(TRUE, <<"com", "ex", "Greeter", "make">>, <<>>) >>,
             << JavaImport(FALSE, <<"java", "util">>, Star), JavaImport(TRUE, <<"com", "ex", "Greeter", "make">>, <<>>),
                JavaImport(FALSE, <<"com", "ex", "Greeter">>, <<>>) >> }

JavaProgramsOf(tail, apps) ==
  With([ext |-> "java", path |-> <<"src", "com", "ex", "Greeter.java">>, coord |-> <<"g", "a">>, tree |-> TreeOf(JavaLib(tail))],
       { [ext |-> "java", path |-> <<"src", "com", "app", "App.java">>, coord |-> <<"g", "a">>, tree |-> TreeOf(a)] : a \in apps })
JavaPrograms == JavaProgramsOf(<<>>, { JavaApp(i, s[1], s[2], <<>>) : i \in Imports, s \in Pairs(JavaStatements) })
JavaCollision(tail, more) == JavaProgramsOf(tail, { JavaApp(i, <<>>, <<>>, more) : i \in Imports })

-----------------------------------------------------------------------------
(* Two C# files of one artifact: the namespace Ex, and a program that uses it *)
(* from another namespace, in its three shapes, or adds to it.                *)
T(x) == Id("", x, x)
IntType == L("predefined_type", "", "int")
Var == L("implicit_type", "", "var")
CsThis == L("this", "", "this")
Qual(q, x, tag) == N("qualified_name", "", <<As(q, "qualifier"), P("."), Id("name", x, tag)>>)
CsDot(v, x, tag) == N("member_access_expression", "", <<As(v, "expression"), P("."), Id("name", x, tag)>>)
CsCall(f) == N("invocation_expression", "", <<As(f, "function"), N("argument_list", "arguments", Parens(<<>>))>>)
CsOn(v, x, tag) == CsCall(CsDot(v, x, tag))
CsNew(type) == N("object_creation_expression", "", <<P("new"), As(type, "type"), N("argument_list", "arguments", Parens(<<>>))>>)
Vars(type, x, tag, value) ==
  N("variable_declaration", "", <<As(type, "type"), N("variable_declarator", "", <<Id("name", x, tag)>> \o value)>>)
CsLocal(type, x, tag, value) == N("local_declaration_statement", "", <<Vars(type, x, tag, <<P("="), value>>), P(";")>>)
CsFieldOf(type, x, tag) == N("field_declaration", "", <<Vars(type, x, tag, <<>>), P(";")>>)
CsParam(type, x, tag) == N("parameter", "", <<As(type, "type"), Id("name", x, tag)>>)
CsParams(ps) == N("parameter_list", "parameters", Parens(ps))
CsMethod(x, tag, ps, stmts) ==
  N("method_declaration", "", <<L("predefined_type", "returns", "void"), Id("name", x, tag), CsParams(ps), Block(stmts)>>)
LocalFn(x, tag, stmts) ==
  N("local_function_statement", "", <<L("predefined_type", "type", "void"), Id("name", x, tag), CsParams(<<>>), Block(stmts)>>)
CsClass(x, tag, bases, members) ==
  N("class_declaration", "", <<P("class"), Id("name", x, tag)>>
     \o (IF bases = <<>> THEN <<>> ELSE <<N("base_list", "", <<P(":")>> \o bases)>>)
     \o <<N("declaration_list", "body", Braces(members))>>)
Namespace(name, members) ==
  N("namespace_declaration", "", <<P("namespace"), As(name, "name"), N("declaration_list", "body", Braces(members))>>)
FileScoped(name) == N("file_scoped_namespace_declaration", "", <<P("namespace"), As(name, "name"), P(";")>>)

\* namespace Ex; interface ISpeak { void Speak(); } class Base { void Ping() {} }
\* partial class Greeter : Base, ISpeak { const int Limit = 1; Inner inner; Greeter Next { get; }
\*   Greeter(Greeter g) { g.Greet(); this.inner; } void Make() { Loc(); void Loc() { Helper(); } Greeter.Limit; }
\*   void Greet() { inner.Pong(); base.Ping(); Next.Greet(); this.inner.Pong(); } void ISpeak.Speak() { this.Greet(); }
\*   void Greet(int n) { Greet(n); } class Inner { void Pong() {} } void Helper<K>(K k) { k.x; } }
\* record Point(int X); enum Mood { Happy } delegate Greeter Handler(Mood mood);
CsLib == N("compilation_unit", "", <<
  FileScoped(Id("", "Ex", "Ex")),
  N("interface_declaration", "", <<P("interface"), Id("name", "ISpeak", "ISpeak"), N("declaration_list", "body", Braces(<<
    N("method_declaration", "", <<L("predefined_type", "returns", "void"), Id("name", "Speak", "ISpeak.Speak"), CsParams(<<>>), P(";")>>)>>))>>),
  CsClass("Base", "Base", <<>>, <<CsMethod("Ping", "Ping", <<>>, <<>>)>>),
  CsClass("Greeter", "Greeter", <<T("Base"), T("ISpeak")>>, <<
    N("field_declaration", "", <<N("modifier", "", <<P("const")>>), Vars(IntType, "Limit", "Limit", <<>>), P(";")>>),
    CsFieldOf(T("Inner"), "inner", "inner"),
    N("property_declaration", "", <<As(T("Greeter"), "type"), Id("name", "Next", "Next"),
      N("accessor_list", "accessors", Braces(<<N("accessor_declaration", "", <<P("get"), P(";")>>)>>))>>),
    N("constructor_declaration", "", <<Id("name", "Greeter", "init"), CsParams(<<CsParam(T("Greeter"), "g", "g")>>),
      Block(<<CsOn(Id("", "g", "g"), "Greet", "Greet"), CsDot(CsThis, "inner", "inner")>>)>>),
    CsMethod("Make", "Make", <<>>, <<CsCall(Id("", "Loc", "Loc")), LocalFn("Loc", "Loc", <<CsCall(Id("", "Helper", "Helper"))>>), N("member_access_expression", "", <<As(T("Greeter"), "expression"), P("."), U(Id("name", "Limit", "Limit"))>>)>>),
    CsMethod("Greet", "Greet", <<>>, <<CsOn(Id("", "inner", "inner"), "Pong", "Pong"), CsOn(L("base", "", "base"), "Ping", "Ping"),
      CsOn(Id("", "Next", "Next"), "Greet", "Greet"), CsOn(CsDot(CsThis, "inner", "inner"), "Pong", "")>>),
    N("method_declaration", "", <<L("predefined_type", "returns", "void"), N("explicit_interface_specifier", "", <<T("ISpeak"), P(".")>>),
      Id("name", "Speak", "Greeter.Speak"), CsParams(<<>>), Block(<<CsOn(CsThis, "Greet", "Greet")>>)>>),
    CsMethod("Greet", "GreetN", <<CsParam(IntType, "n", "n")>>, <<CsCall(Id("", "Greet", "GreetN"))>>),
    CsClass("Inner", "Inner", <<>>, <<CsMethod("Pong", "Pong", <<>>, <<>>)>>),
    N("method_declaration", "", <<L("predefined_type", "returns", "void"), Id("name", "Helper", "Helper"),
      N("type_parameter_list", "type_parameters", Between("<", <<N("type_parameter", "", <<Id("name", "K", "K")>>)>>, ">")),
      CsParams(<<CsParam(U(Id("", "K", "K")), "k", "k")>>), Block(<<CsDot(Id("", "k", "k"), "x", "")>>)>>)>>),
  N("record_declaration", "", <<P("record"), Id("name", "Point", "Point"), CsParams(<<CsParam(IntType, "X", "Point.X")>>), P(";")>>),
  N("enum_declaration", "", <<P("enum"), Id("name", "Mood", "Mood"),
    N("enum_member_declaration_list", "body", Braces(<<N("enum_member_declaration", "", <<Id("name", "Happy", "Happy")>>)>>))>>),
  N("delegate_declaration", "", <<P("delegate"), As(T("Greeter"), "returns"), Id("name", "Handler", "Handler"), CsParams(<<CsParam(T("Mood"), "mood", "mood")>>)>>)
>>)

Using(tail) == N("using_directive", "", <<P("using")>> \o tail \o <<P(";")>>)
CsExGreeter == Qual(Id("", "Ex", "Ex"), "Greeter", "Greeter")
UsingEx == Using(<<Id("", "Ex", "Ex")>>)
\* What is used, and a member that only it explains.
CsUses == <<
  << <<UsingEx, Using(<<Qual(Id("", "System", ""), "Text", "")>>)>>, CsFieldOf(Qual(Qual(Id("", "System", ""), "Text", ""), "Builder", ""), "h", "h") >>,
  << <<Using(<<Id("name", "G", ""), P("="), Tag(CsExGreeter, "Greeter")>>), UsingEx>>,
     CsMethod("Aliased", "Aliased", <<CsParam(Id("", "G", "Greeter"), "h", "h")>>, <<CsOn(Id("", "G", "Greeter"), "Make", "Make"), CsOn(Id("", "h", "h"), "Greet", "Greet")>>) >>,
  << <<UsingEx, Using(<<P("static"), Tag(CsExGreeter, "Greeter")>>)>>, CsFieldOf(N("nullable_type", "", <<As(T("Greeter"), "type"), P("?")>>), "h", "h") >> >>

CsStatements == <<
  <<CsLocal(T("Greeter"), "v", "v", CsNew(T("Greeter"))), CsOn(Id("", "v", "v"), "Greet", "Greet"), CsDot(Id("", "v", "v"), "inner", "inner"), CsOn(CsNew(T("Greeter")), "Greet", "Greet")>>,
  <<CsOn(T("Greeter"), "Make", "Make"), CsCall(Id("", "Helper", "App.Helper")), CsOn(CsDot(Id("", "Ex", "Ex"), "Greeter", "Greeter"), "Make", "Make"),
    CsDot(T("Mood"), "Happy", "Happy"), CsOn(CsDot(Id("", "System", ""), "Console", ""), "WriteLine", "")>>,
  <<N("foreach_statement", "", <<P("foreach"), As(T("Greeter"), "type"), Id("left", "k", "k"), Id("right", "p", "p"), Block(<<CsOn(Id("", "k", "k"), "Greet", "Greet")>>)>>),
    N("lambda_expression", "", <<CsParams(<<CsParam(CsExGreeter, "q", "q")>>), P("=>"), As(CsOn(Id("", "q", "q"), "Greet", "Greet"), "body")>>)>>,
  <<CsLocal(Var, "w", "w", CsNew(CsExGreeter)), CsOn(Id("", "w", "w"), "Greet", ""), CsCall(Id("", "Loc", "App.Loc")), LocalFn("Loc", "App.Loc", <<>>),
    N("cast_expression", "", <<P("("), As(T("Point"), "type"), P(")"), As(CsDot(Id("", "p", "p"), "Next", "Next"), "value")>>)>> >>

Program(use, s1, s2) ==
  CsClass("App", "App", <<>>, <<use[2], CsMethod("Main", "Main", <<CsParam(CsExGreeter, "p", "p")>>, s1 \o s2), CsMethod("Helper", "App.Helper", <<>>, <<>>)>>)
\* The file's namespace, none, or one in another beside a part of Ex.
Shape(i, use, class) ==
  CASE i = 1 -> use[1] \o <<Namespace(Id("", "Outer", "Outer"), <<Namespace(Id("", "App", "Outer.App"), <<class>>)>>), Namespace(Id("", "Ex", "Ex"), <<
         CsClass("Greeter", "Greeter", <<>>, <<CsMethod("Again", "Again", <<>>, <<CsCall(Id("", "Own", "Own")), CsOn(CsThis, "Greet", "Greet")>>), CsMethod("Own", "Own", <<>>, <<>>)>>)>>)>>
    [] i = 2 -> <<FileScoped(Tag(Qual(Id("", "Outer", ""), "App", ""), "Outer.App"))>> \o use[1] \o <<class>>
    [] i = 3 -> use[1] \o <<class>>

CsFile(path, tree) == [ext |-> "cs", path |-> path, coord |-> <<"codiq">>, tree |-> TreeOf(tree)]
CsPrograms ==
  With(CsFile(<<"src", "Greeter.cs">>, CsLib),
       { CsFile(<<"src", "App.cs">>, Tag(N("compilation_unit", "", nodes), "global")) :
           nodes \in { Shape(i, CsUses[i], Program(CsUses[i], s[1], s[2])) : i \in 1 .. 3, s \in Pairs(CsStatements) } })

-----------------------------------------------------------------------------
CompiledPrograms == GoPrograms \cup RsPrograms \cup JavaPrograms \cup CsPrograms
\* A function that declares a name twice; a declaration that shadows an import;
\* two things of one name that are not of one kind.
ShadowedLocals == GoCollision(GoShadowedLocal) \cup RsCollision(RsShadowedLocal)
ShadowedImports == GoCollision(GoShadowedImport) \cup RsCollision(RsShadowedImport)
                     \cup JavaCollision(<<>>, JavaShadowedImport)
Homonyms == GoCollision(GoHomonym) \cup RsCollision(RsHomonym) \cup JavaCollision(JavaHomonym, <<>>)
=============================================================================
