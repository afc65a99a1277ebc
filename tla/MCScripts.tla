----------------------------- MODULE MCScripts -----------------------------
(* The programs of the scripting languages: TypeScript, Python, Ruby. *)
EXTENDS Syntax

-----------------------------------------------------------------------------
(* Two TypeScript modules of one package: src/lib/index and src/main. *)
Pr(f, x, tag) == D("property_identifier", f, x, tag)
TsBlock(stmts) == N("statement_block", "body", Braces(stmts))
TsTyped(type) == N("type_annotation", "type", <<P(":"), type>>)
Param(x, tag, type) == N("required_parameter", "", <<Id("pattern", x, tag), TsTyped(type)>>)
TsParams(ps) == N("formal_parameters", "parameters", Parens(ps))
Member(f, o, p) == N("member_expression", f, <<o, P("."), p>>)
TsArgs == N("arguments", "arguments", Parens(<<>>))
TsCall(fn) == N("call_expression", "", <<fn, TsArgs>>)
TsNew(f, c) == N("new_expression", f, <<P("new"), c, TsArgs>>)
Function(x, tag, ps, stmts) ==
  N("function_declaration", "", <<P("function"), Id("name", x, tag), TsParams(ps), TsBlock(stmts)>>)
Method(x, tag, ps, stmts) == N("method_definition", "", <<Pr("name", x, tag), TsParams(ps), TsBlock(stmts)>>)
Declare(word, x, tag, value) ==
  N("lexical_declaration", "", <<P(word), N("variable_declarator", "", <<Id("name", x, tag), P("="), value>>)>>)
This == L("this", "object", "this")

\* export class Greeter<T> { name: string; greet(g: Greeter) { this.name; g.greet() } }
\* interface Shape { area() }  enum Color { Red }  namespace N { function inner() {} }
\* export function make() { const c = new Greeter(); c.name }  export function inner() {}
TsLib == N("program", "", <<
  N("class_declaration", "", << P("class"), Ty("name", "Greeter", "Greeter"),
    N("type_parameters", "type_parameters", <<N("type_parameter", "", <<Ty("name", "T", "T")>>)>>),
    N("class_body", "body", Braces(<<
      N("public_field_definition", "", <<Pr("name", "name", "name"), TsTyped(L("predefined_type", "", "string"))>>),
      Method("greet", "greet", <<Param("g", "g", Ty("", "Greeter", "Greeter"))>>,
        <<Member("", This, Pr("property", "name", "name")),
          TsCall(Member("function", Id("object", "g", "g"), Pr("property", "greet", "greet")))>>)>>))>>),
  N("interface_declaration", "", <<P("interface"), Ty("name", "Shape", "Shape"),
    N("interface_body", "body", Braces(<<N("method_signature", "", <<Pr("name", "area", "area"), TsParams(<<>>)>>)>>))>>),
  N("enum_declaration", "", <<P("enum"), Id("name", "Color", "Color"),
    N("enum_body", "body", Braces(<<Pr("", "Red", "Red")>>))>>),
  N("internal_module", "", <<P("namespace"), Id("name", "N", "N"),
    TsBlock(<<Function("inner", "N.inner", <<>>, <<>>)>>)>>),
  Function("make", "make", <<>>,
    <<Declare("const", "c", "c", TsNew("value", Id("constructor", "Greeter", "Greeter"))),
      Member("", Id("object", "c", "c"), Pr("property", "name", "name"))>>),
  Function("inner", "inner", <<>>, <<>>)
>>)

TsImport(clause, path) ==
  N("import_statement", "", <<P("import"), N("import_clause", "", clause), P("from"), Str("string", "source", path)>>)
Named(specs) == N("named_imports", "", Braces(specs))
Spec(x, alias) ==
  N("import_specifier", "", <<Id("name", x, "")>> \o (IF alias = "" THEN <<>> ELSE <<P("as"), Id("alias", alias, "")>>))

TsStatements == <<
  <<TsCall(Id("function", "mk", "make")), TsCall(Id("function", "helper", "helper"))>>,
  <<Declare("let", "v", "v", TsNew("value", Id("constructor", "Greeter", "Greeter"))),
    TsCall(Member("function", Id("object", "v", "v"), Pr("property", "greet", "greet")))>>,
  <<TsCall(Member("function", Id("object", "lib", "lib"), Pr("property", "make", "make"))),
    TsCall(Id("function", "parseInt", ""))>>,
  <<Member("", Id("object", "p", "p"), Pr("property", "name", "name")),
    Member("", U(Id("object", "Color", "Color")), Pr("property", "Red", "Red"))>>,
  <<TsCall(Member("function", TsCall(Id("function", "mk", "make")), U(Pr("property", "greet", "greet"))))>> >>

\* (x: Date) => { x.getDay() }, (x: () => void) => { x() }: x is main's p, the imported mk,
\* main's helper.
Arrow(ps, stmts) == N("arrow_function", "", <<TsParams(ps), TsBlock(stmts)>>)
Callback(x) == <<Arrow(<<Param(x, "arg", L("function_type", "", ""))>>, <<TsCall(Id("function", x, "arg"))>>)>>
TsShadowedLocal == <<Arrow(<<Param("p", "p2", Ty("", "Date", ""))>>, <<TsCall(Member("function", Id("object", "p", "p2"), Pr("property", "getDay", "")))>>)>>
TsShadowedImport == Callback("mk")
TsHomonym == Callback("helper")

\* The library's module as its directory, its file, or the package's own name.
Paths == { <<".", "lib">>, <<".", "lib", "index">>, <<"app", "src", "lib">> }

TsMain(path, s1, s2) == N("program", "", <<
  Tag(TsImport(<<Named(<<Spec("Greeter", ""), Spec("Color", ""), Spec("make", "mk")>>)>>, path), "lib"),
  Tag(TsImport(<<N("namespace_import", "", <<P("*"), P("as"), Id("", "lib", "")>>)>>, path), "lib"),
  TsImport(<<Id("", "fs", "")>>, <<"fs">>),
  Function("main", "main", <<Param("p", "p", N("nested_type_identifier", "", <<Id("", "lib", ""), Ty("", "Greeter", "Greeter")>>))>>,
    s1 \o <<Arrow(<<>>, s2)>>),
  Function("helper", "helper", <<>>, <<>>)
>>)

TsProgramsOf(mains) ==
  With([ext |-> "ts", path |-> <<"src", "lib", "index", ".ts">>, coord |-> <<"app">>, tree |-> TreeOf(Tag(TsLib, "lib"))],
       { [ext |-> "ts", path |-> <<"src", "main", ".ts">>, coord |-> <<"app">>, tree |-> TreeOf(m)] : m \in mains })
TsPrograms == TsProgramsOf({ TsMain(p, s[1], s[2]) : p \in Paths, s \in Pairs(TsStatements) })
TsCollision(s) == TsProgramsOf({TsMain(<<".", "lib">>, <<>>, s)})

-----------------------------------------------------------------------------
(* Two Python modules of one distribution: the package pkg, and app.main. *)
Attr(f, o, a) == N("attribute", f, <<As(o, "object"), P("."), As(a, "attribute")>>)
PyArgs == N("argument_list", "arguments", Parens(<<>>))
PyCall(f, fn) == N("call", f, <<As(fn, "function"), PyArgs>>)
PyAssign(l, type, r) ==
  N("assignment", "", <<As(l, "left")>> \o (IF type = <<>> THEN <<>> ELSE <<P(":"), N("type", "type", type)>>)
                      \o <<P("="), As(r, "right")>>)
PyBlock(stmts) == N("block", "body", stmts)
PyDef(x, tag, ps, stmts) ==
  N("function_definition", "", <<P("def"), Id("name", x, tag), N("parameters", "parameters", Parens(ps)), PyBlock(stmts)>>)
PyClass(x, tag, bases, stmts) ==
  N("class_definition", "", <<P("class"), Id("name", x, tag), N("argument_list", "superclasses", Parens(bases)), PyBlock(stmts)>>)
PyTyped(x, tag, type) == N("typed_parameter", "", <<Id("", x, tag), P(":"), N("type", "type", <<type>>)>>)
PySelf == Id("", "self", "self")
Number == L("integer", "", "1")
Pass == <<L("pass_statement", "", "pass")>>

\* class Base(ABC): def run(self): pass
\* class Greeter(Base): kind = 1; def __init__(self, name: str): self.name = name
\*                      def greet(self): self.name; self.run(); LIMIT.name = 1
\*                      def reset(self): self.LIMIT = 1; LIMIT.real      (homonym)
\* LIMIT: Final = 1;  def make(): x = Greeter(); x.greet()
PyLib(reset) == N("module", "", <<
  PyClass("Base", "Base", <<Id("", "ABC", "")>>, <<PyDef("run", "Base.run", <<PySelf>>, Pass)>>),
  PyClass("Greeter", "Greeter", <<Id("", "Base", "Base")>>, <<
    PyAssign(Id("", "kind", "kind"), <<>>, Number),
    PyDef("__init__", "init", <<Id("", "self", "self1"), PyTyped("name", "arg", Id("", "str", ""))>>,
      <<PyAssign(Attr("", Id("", "self", "self1"), Id("", "name", "name")), <<>>, Id("", "name", ""))>>),
    PyDef("greet", "greet", <<Id("", "self", "self2")>>,
      <<Attr("", Id("", "self", "self2"), Id("", "name", "name")),
        PyCall("", Attr("", Id("", "self", "self2"), U(Id("", "run", "Base.run")))),
        PyAssign(Attr("", Id("", "LIMIT", "LIMIT"), Id("", "name", "")), <<>>, Number)>>)>> \o reset),
  PyAssign(Id("", "LIMIT", "LIMIT"), <<Id("", "Final", "")>>, Number),
  PyDef("make", "make", <<>>,
    <<PyAssign(Id("", "x", "x"), <<>>, PyCall("", U(Id("", "Greeter", "Greeter")))),
      PyCall("", Attr("", Id("", "x", "x"), Id("", "greet", "greet")))>>)
>>)

PyHomonym == <<PyDef("reset", "reset", <<Id("", "self", "self3")>>,
  <<PyAssign(Attr("", Id("", "self", "self3"), Id("", "LIMIT", "own")), <<>>, Number),
    Attr("", U(Id("", "LIMIT", "LIMIT")), Id("", "real", ""))>>)>>

Dotted2(f, words) == N("dotted_name", f, [i \in DOMAIN words |-> L("identifier", "", words[i])])
PyImport(words, alias) ==
  N("import_statement", "", << P("import"),
     IF alias = "" THEN Tag(Dotted2("name", words), IF words = <<"pkg">> THEN "pkg" ELSE "")
     ELSE Tag(N("aliased_import", "name", <<Dotted2("name", words), P("as"), L("identifier", "alias", alias)>>), "pkg") >>)
Absolute == Tag(Dotted2("module_name", <<"pkg">>), "pkg")
Relative == Tag(N("relative_import", "module_name",
                        <<Str("import_prefix", "", <<".", ".">>), Dotted2("", <<"pkg">>)>>), "pkg")
From(module) ==
  N("import_from_statement", "", << P("from"), module, P("import"), Dotted2("name", <<"Greeter">>), Dotted2("name", <<"LIMIT">>),
     N("aliased_import", "name", <<Dotted2("name", <<"make">>), P("as"), L("identifier", "alias", "mk")>>) >>)

PyStatements == <<
  <<PyCall("", Id("", "mk", "make")), PyCall("", Id("", "helper", "helper")), PyCall("", Id("", "print", ""))>>,
  <<PyAssign(Id("", "v", "v"), <<>>, PyCall("", U(Id("", "Greeter", "Greeter")))),
    PyCall("", Attr("", Id("", "v", "v"), Id("", "greet", "greet")))>>,
  <<PyCall("", Attr("", Id("", "p", "pkg"), Id("", "make", "make"))),
    PyCall("", Attr("", Id("", "os", ""), Id("", "getcwd", "")))>>,
  <<Attr("", Id("", "g", "g"), Id("", "name", "name")), Attr("", Id("", "LIMIT", "LIMIT"), Id("", "real", ""))>>,
  <<PyCall("", Attr("", PyCall("", Id("", "mk", "make")), U(Id("", "greet", "greet")))),
    N("for_statement", "", <<P("for"), Id("left", "h", "h"), P("in"), As(Number, "right"),
       PyBlock(<<Attr("", Id("", "h", "h"), U(Id("", "name", "name")))>>)>>)>> >>

Lambda(x, tag, values) ==
  N("lambda", "", <<P("lambda"), N("lambda_parameters", "parameters", <<Id("", x, tag)>>), P(":"), N("tuple", "body", values)>>)
\* lambda mk: (mk(),), where mk is imported
PyShadowedImport == <<Lambda("mk", "arg", <<PyCall("", Id("", "mk", "arg"))>>)>>

PyMain(from, s1, s2) == N("module", "", <<
  From(from), PyImport(<<"pkg">>, "p"), PyImport(<<"pkg">>, ""), PyImport(<<"os">>, ""),
  PyDef("main", "main", <<PyTyped("g", "g", Id("", "Greeter", "Greeter"))>>,
    s1 \o <<Lambda("k", "k", s2)>>),
  PyDef("helper", "helper", <<>>, Pass)
>>)

PyProgramsOf(reset, mains) ==
  With([ext |-> "py", path |-> <<"pkg", "__init__", ".py">>, coord |-> <<"dist">>, tree |-> TreeOf(Tag(PyLib(reset), "pkg"))],
       { [ext |-> "py", path |-> <<"app", "main", ".py">>, coord |-> <<"dist">>, tree |-> TreeOf(m)] : m \in mains })
PyPrograms == PyProgramsOf(<<>>, { PyMain(f, s[1], s[2]) : f \in {Absolute, Relative}, s \in Pairs(PyStatements) })
PyCollision(reset, s) == PyProgramsOf(reset, {PyMain(Absolute, <<>>, s)})

-----------------------------------------------------------------------------
(* Two Ruby files of one tree: a module, and a program that requires it, or *)
(* reopens it.                                                              *)
C(f, x, tag) == D("constant", f, x, tag)
V(type, x, tag) == D(type, "", x, tag)
Scoped(scope, c) == N("scope_resolution", "", <<As(scope, "scope"), P("::"), As(c, "name")>>)
RbArgs(as) == N("argument_list", "arguments", Parens(as))
Send(m, as) == N("call", "", <<As(m, "method"), RbArgs(as)>>)
To(r, m) == N("call", "", <<As(r, "receiver"), P("."), As(m, "method")>>)
RbNew(c) == To(c, L("identifier", "", "new"))
RbAssign(l, r) == N("assignment", "", <<As(l, "left"), P("="), As(r, "right")>>)
RbParams(ps) == N("method_parameters", "parameters", Parens(ps))
Body(stmts) == N("body_statement", "body", stmts)
RbDef(name, ps, stmts) ==
  N("method", "", <<P("def"), As(name, "name"), RbParams(ps), Body(stmts), P("end")>>)
DefSelf(name, ps, stmts) ==
  N("singleton_method", "", <<P("def"), L("self", "object", "self"), P("."), As(name, "name"), RbParams(ps), Body(stmts), P("end")>>)
Module(name, stmts) == N("module", "", <<P("module"), As(name, "name"), Body(stmts), P("end")>>)
RbClass(name, super, stmts) ==
  N("class", "", <<P("class"), As(name, "name")>> \o super \o <<Body(stmts), P("end")>>)
RbSelf == L("self", "", "self")
One == L("integer", "", "1")
Symbol(x, tag) == D("simple_symbol", "", x, tag)
Quoted(path, tag) == N("string", "", <<P("'"), Tag(Str("string_content", "", path), tag), P("'")>>)

\* module Greeting; LIMIT = 1; module Loud; def shout; LIMIT; $out; end; end
\* class Base; def ping; end; end
\* class Greeter < Base; include Loud; attr_accessor :name; attr_reader :size
\*   def self.build(n); @made = Greeter.new; @made.greet; helper(); n; end
\*   def self.helper; end;  def limit=(v); v; end
\*   def initialize(name); @name = name; @inner = Inner.new; @@count = 1; self.limit = name; end
\*   def greet; @inner.pong; name(); size; tail; @@count; ping; self.ping; end;  def tail; @name; end
\*   and, homonyms, def self.tail; end;  def self.cut; tail(); end
\*   class Inner; def pong; Loud; end; end;  class << self; def make; helper(); end; end; end; end
\* $out = 1
RbLib(cut) == N("program", "", <<
  Module(C("", "Greeting", "Greeting"), <<
    RbAssign(C("", "LIMIT", "LIMIT"), One),
    Module(C("", "Loud", "Loud"), <<RbDef(Id("", "shout", "shout"), <<>>, <<C("", "LIMIT", "LIMIT"), V("global_variable", "$out", "out")>>)>>),
    RbClass(C("", "Base", "Base"), <<>>, <<RbDef(Id("", "ping", "ping"), <<>>, <<>>)>>),
    RbClass(C("", "Greeter", "Greeter"), <<N("superclass", "superclass", <<P("<"), C("", "Base", "Base")>>)>>, <<
      Send(L("identifier", "", "include"), <<C("", "Loud", "Loud")>>),
      Send(L("identifier", "", "attr_accessor"), <<Symbol("name", "name")>>),
      Send(L("identifier", "", "attr_reader"), <<Symbol("size", "size")>>),
      DefSelf(Id("", "build", "build"), <<Id("", "n", "n")>>, <<
        RbAssign(V("instance_variable", "@made", "made"), RbNew(C("", "Greeter", "Greeter"))),
        To(V("instance_variable", "@made", "made"), Id("", "greet", "greet")), Send(Id("", "helper", "helper"), <<>>), Id("", "n", "n")>>),
      DefSelf(Id("", "helper", "helper"), <<>>, <<>>),
      RbDef(X("setter", "", "limit=", <<>>, TRUE, "limit=", FALSE, <<L("identifier", "name", "limit"), P("=")>>), <<Id("", "v", "v")>>, <<Id("", "v", "v")>>),
      RbDef(Id("", "initialize", "initialize"), <<Id("", "name", "init.name")>>, <<
        RbAssign(V("instance_variable", "@name", "@name"), Id("", "name", "init.name")),
        RbAssign(V("instance_variable", "@inner", "@inner"), RbNew(C("", "Inner", "Inner"))),
        RbAssign(V("class_variable", "@@count", "count"), One),
        RbAssign(To(RbSelf, Id("", "limit", "limit=")), Id("", "name", "init.name"))>>),
      RbDef(Id("", "greet", "greet"), <<>>, <<
        To(V("instance_variable", "@inner", "@inner"), Id("", "pong", "pong")), Send(Id("", "name", "name"), <<>>),
        Id("", "size", "size"), Id("", "tail", "tail"), V("class_variable", "@@count", "count"),
        U(Id("", "ping", "ping")), To(RbSelf, U(Id("", "ping", "ping")))>>),
      RbDef(Id("", "tail", "tail"), <<>>, <<V("instance_variable", "@name", "@name")>>),
      RbClass(C("", "Inner", "Inner"), <<>>, <<RbDef(Id("", "pong", "pong"), <<>>, <<C("", "Loud", "Loud")>>)>>),
      N("singleton_class", "", <<P("class"), P("<<"), L("self", "value", "self"),
        Body(<<RbDef(Id("", "make", "make"), <<>>, <<Send(Id("", "helper", "helper"), <<>>)>>)>>), P("end")>>)>> \o cut)>>),
  RbAssign(V("global_variable", "$out", "out"), One)>>)

RbHomonym == <<DefSelf(Id("", "tail", "self.tail"), <<>>, <<>>),
               DefSelf(Id("", "cut", "cut"), <<>>, <<Send(Id("", "tail", "self.tail"), <<>>)>>)>>

Greeter == Scoped(C("", "Greeting", "Greeting"), C("", "Greeter", "Greeter"))
RbStatements == <<
  <<RbAssign(Id("", "g", "g"), RbNew(Greeter)), To(Id("", "g", "g"), Id("", "greet", "greet")),
    RbAssign(To(Id("", "g", "g"), Id("", "name", "name")), One), Send(Id("", "helper", "Program.helper"), <<>>)>>,
  <<To(Greeter, Id("", "helper", "helper")), To(To(Greeter, Id("", "build", "build")), U(Id("", "greet", "greet")))>>,
  <<To(N("parenthesized_statements", "", Parens(<<RbNew(Greeter)>>)), Id("", "size", "size")), Scoped(C("", "Greeting", "Greeting"), C("", "LIMIT", "LIMIT"))>>,
  <<Send(Id("", "puts", ""), <<Id("", "xs", "xs")>>), To(RbNew(Scoped(Greeter, C("", "Inner", "Inner"))), Id("", "pong", "pong"))>> >>

App(require, s1, s2) == N("program", "", <<require,
  RbClass(C("", "Program", "Program"), <<>>, <<
    DefSelf(Id("", "main", "main"), <<Id("", "xs", "xs")>>, s1 \o <<
      N("call", "", <<Id("receiver", "xs", "xs"), P("."), L("identifier", "method", "each"),
        N("do_block", "block", <<P("do"), N("block_parameters", "parameters", <<Id("", "k", "k")>>), Body(s2 \o <<Id("", "k", "k")>>), P("end")>>)>>)>>),
    DefSelf(Id("", "helper", "Program.helper"), <<>>, <<>>)>>),
  Module(C("", "Greeting", "Greeting"), <<
    RbClass(C("", "Greeter", "Greeter"), <<>>, <<
      Send(L("identifier", "", "extend"), <<C("", "Loud", "Loud")>>),
      Send(L("identifier", "", "include"), <<Scoped(C("", "Greeting", "Greeting"), C("", "Loud", "Loud"))>>),
      RbDef(Id("", "extra", "extra"), <<>>, <<Id("", "greet", "greet"), To(RbSelf, Id("", "tail", "tail")), U(Id("", "extra", "extra"))>>)>>)>>)>>)

Requires == { Send(L("identifier", "", "require"), <<Quoted(<<"greeter", "greeter">>, "greeter/greeter")>>),
              Send(L("identifier", "", "require_relative"), <<Quoted(<<"..", "greeter", "greeter">>, "greeter/greeter")>>) }

File(path, tree) == [ext |-> "rb", path |-> path, coord |-> <<"app">>, tree |-> TreeOf(tree)]
RbProgramsOf(cut, statements) ==
  With(File(<<"greeter", "greeter", ".rb">>, Tag(RbLib(cut), "greeter/greeter")),
       { File(<<"app", "program", ".rb">>, App(r, s[1], s[2])) : r \in Requires, s \in statements })
RbPrograms == RbProgramsOf(<<>>, Pairs(RbStatements))
RbCollision(cut) == RbProgramsOf(cut, { <<RbStatements[1], RbStatements[2]>> })

-----------------------------------------------------------------------------
ScriptPrograms == TsPrograms \cup PyPrograms \cup RbPrograms
\* As in MCCompiled.
ShadowedLocals == TsCollision(TsShadowedLocal)
ShadowedImports == TsCollision(TsShadowedImport) \cup PyCollision(<<>>, PyShadowedImport)
Homonyms == TsCollision(TsHomonym) \cup PyCollision(PyHomonym, <<>>) \cup RbCollision(RbHomonym)
=============================================================================
