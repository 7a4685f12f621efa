# A TLA+ model of the Forge compiler

Forge is a small typed language. Its compiler, the `forge` command, reads one source
file, checks it, builds an MLIR module, lowers it to LLVM and runs it in a JIT. This
directory models the compiler and the program it makes: what each pass keeps, when it
reports or stops, what it hands to the next pass, and what the compiled program then
does, for every source up to a bound. It checks the model with TLC and proves the
properties that later passes depend on with TLAPS.

## 1. The system

| Component | Source | State | Operations |
|---|---|---|---|
| driver | `tools/forge/main.cpp` | the command line | runs the passes in order, stops at the first that fails |
| Parser | `lib/Frontend/Parser.cpp`, `Parser.h` | none | `parse`, `convert_stmt`, `convert` |
| AST | `include/forge/Frontend/AST.h` | the tree | `resolve`, `type_of`, `visit`: a visitor per pass |
| SymbolResolver | `lib/Frontend/SymbolResolver.cpp` | `variables`, `functions` | `resolve`, `check` per node class |
| TypeChecker | `lib/Frontend/TypeChecker.cpp` | `symbol_types`, `function_signatures`, `functions`, `return_type` | `check`, `infer` per node class |
| TypeRegistry | `include/forge/Frontend/TypeRegistry.h` | the table of builtin types | lookup |
| MLIRGenerator | `lib/Conversion/ASTToMLIR/MLIRGenerator.cpp` | the module, the insertion point, `value_map`, `test_symbols` | `compile`, `generate` per node class |
| lowering | `lib/Conversion/MLIRToLLVM/MLIRToLLVM.cpp` | the module | `lower` |
| JIT | `lib/Target/JIT.cpp` | the module, the native stack | `execute` |
| DiagnosticEmitter | `lib/Diagnostics/Emitter.cpp` | `error_count_`, the sources | `error`, `has_errors`, `make_span` |
| Forge dialect, `forge-opt` | `lib/Dialect`, `tools/forge-opt` | none | parse and print |

The components are called in one thread, one after the other. They share the tree,
which nobody changes after the parser, and the emitter, whose error count is how a
pass tells the driver that it failed. What is hard here is not concurrency but
*agreement at a distance*:

- the three passes keep tables of their own (`variables`, `symbol_types`, `value_map`)
  of the same scopes, each saved and restored by hand around a body, or not at all;
- the generator checks nothing: `value_map.at`, asserts that a release build drops,
  and operations built on whatever value it is handed rely on the passes before it;
- the checker goes on after an error with a null type that every comparison but one
  lets pass; where nothing was reported, the null type hides an unchecked expression;
- functions are registered before any body is visited, by three passes in three ways,
  which differ on duplicate names and on functions inside bodies;
- the compiled program checks nothing either: that an operation reads a value which
  exists, of the type it has, rests on rules that nothing verifies before it runs;
- the grammar reads a row of operators flat and `convert()` groups it; source ranges are
  put together from those of the parts, and are the text of an assertion's message and
  the place where a diagnostic is underlined;
- three libraries count lines and columns (peglib, LLVM's SourceMgr, the renderer), from
  0 or from 1, and with different ideas of where a line ends.

What makes each component correct:

- *parser*: a text is grouped as its operators' precedence says, and rejected exactly if
  it is no row of statements; the range of a node holds those of its children;
- *resolver*: it accepts a source if and only if the source obeys lexical scoping;
- *checker*: what it accepts has a valid translation; each `return` is compared with
  its own function's type; its types are those of the generated values;
- *generator*: no lookup fails; a variable reads the value its binder gave it; tests
  are called once each, in order, when and only when asked for;
- *program*: it does what the source means, up to the first failure;
- *emitter*: a span can be rendered, and underlines the node it is about;
- *driver*: a diagnostic is fatal, and an accepted source gets through to its last test.

`PROJECT.json` lists the hazards, each at its line, with the property that covers it
or the reason why none does.

## 2. The modules

```
ForgeNodes ─┬─ ForgeAST ─┬─ Parser ──────────┐
            │            ├─ SymbolResolver ──┤
            │            ├─ TypeChecker ─────┼─ Forge ── ForgeProperties
            │            ├─ MLIRGenerator    │
            │            │    └─ IRVerifier ─┴ Execution
            │            └─ Scoping ─┬─ LexicalScoping
            │                        └─ SourceSteps ── SourceMachine
            └─ Grammar ── Precedence ─┐
                          Emitter ────┴─ SourceText ── MCSourceText
TypeRegistry ── Arithmetic, used by Execution and SourceMachine

ForgeProperties ─┬─ ScopingInvariant ── TypeInvariant ── GeneratorInvariant ── SoundnessInvariant ─┐
                 ├─ ExecutionInvariant ─────────────────────────────────── CompilationInvariant ─┤
                 ├─ Semantics ───────────────────────────────────────────────────────────────────┼─ MCForge
                 └─ ForgeClaims ─────────────────────────────────────────────────────────────────┘
                    (CompilationInvariant extends both SoundnessInvariant and ExecutionInvariant)

proofs:  ForgeProofs         of ScopingInvariant, LexicalScoping and DiagnosticsAreFatal
         TypeProofs          of TypeInvariant, with ForgeProofs
         GeneratorProofs     of GeneratorInvariant, with TypeProofs
         SoundnessProofs     of SoundnessInvariant, with GeneratorProofs
         ExecutionProofs     of ExecutionInvariant, with SoundnessProofs
         CompilationProofs   of CompilationInvariant, with the two above
         RefinementProofs    of SourceMachine, with CompilationProofs
         EmitterProofs       of Emitter
```

There are two specifications. `Forge` takes a source as a row of productions and follows
it through all passes to the end of the program. `SourceText` takes a source as
characters and follows it through the parser, with ranges and diagnostics. They meet in
`ForgeNodes`, the nodes that `convert()` builds: the property `TreesAreWellFormed` of
`SourceText` is the assumption `SourceAssumption` of `Forge`.

**ForgeNodes** has the node classes, and **ForgeAST** the tree and what the passes
share. All three visitors visit the children of a node from left to right and then act
on the node, so the tree is kept as a sequence of nodes in that order; a node refers to
its operands by how far back they are. `FunctionDecl` and `TestDecl` act before and
after their body and are two nodes each, with the body between them. `path[n]` is the
nesting of declarations around node `n`. A pass is a cursor `pos` that walks the
sequence, one action per handler. That makes recursion into iteration: the C++ call
stack of handlers under way is `path`, and the handlers' locals (`saved`, `saved_ip`,
`saved_value_map`) are the stacks `saved` and `frames`.

**Parser** has one action per production of the grammar that builds nodes. The source
text is the environment's choice of productions, so the parser builds every tree up to
the bounds; the implicit `return` of a function's tail and end, a file that cannot be
opened, a syntax error at any point and the throw of `std::stoi` are actions too.

**SymbolResolver**, **TypeChecker** and **MLIRGenerator** have one action per overload
of `check`, `infer` and `generate`, one for what the entry function does before the
walk, and one for what it does after. A handler that may throw, crash or meet undefined
behaviour has that outcome as a disjunct, with a reason in `why`:

| `why` | where |
|---|---|
| `std::stoi` | `Parser.cpp:17` |
| `functions.at` | `TypeChecker.cpp:224` |
| `return_type.top` | `TypeChecker.cpp:212`: undefined, so also a comparison with anything |
| `value_map.at` | `MLIRGenerator.cpp:28` |
| `callee`, `intrinsic` | `MLIRGenerator.cpp:32,42,123,124` |
| `null value` | an operation created on a null `mlir::Value` |
| `addEntryBlock` | `MLIRGenerator.cpp:182`, on a function that has a body |
| `invalid`, `ill-formed` | the translation of an invalid module, and an operation of it without the operands it takes |
| `abort`, `division`, `stack` | in the compiled program: a failed assertion, an undefined division, a call too deep |

A build without asserts goes on where one with asserts stops; `GenFn` has both.

**IRVerifier** is external: what MLIR's verifier demands of the operations that the
generator creates (unique symbols, one terminator, at the end, dominance, operand
types). No code of the repository calls the verifier; `IRValid` is the measure of what the
front end lets pass. Lowering and translation may do anything to a module that is not
valid (`Lower`, `RunInvalid`), and that includes to make the program of it (`Invoke`).

**Execution** is `forge::execute`: the steps of the JIT that may report and fail, and
then `__main`, one action per kind of operation, on a stack of activations. An
activation holds the arguments of its function and the results of the operations that
ran. Nothing guards an operation: one that is not `Executable`, because it lacks an operand
or has one of the wrong type, or because its function has run off its end, does anything
(`RunIllFormed`). Arithmetic (in **Arithmetic**) wraps around at the width of the type;
`arith.divsi` by zero, or where the quotient overflows, traps or has any result; a failed
`cf.assert` aborts the process; a call when the stack is full crashes. Widths and stack are constants (`Half`,
`StackLimit`): nothing in the code depends on how large they are.

**Forge** is `main()`: it parses the command line and composes the passes.

**Scoping** states the scoping rule on the tree, for no pass in particular.
**LexicalScoping** is the abstract specification of name resolution: a source is read
and then, in one step, accepted if and only if it is well scoped.

What a program promises is stated twice. **SourceMachine** is a machine that walks the
tree: a call of it knows its declaration, its arguments, the step it stands at and the
value of every node before that; `SourceSteps` says what the steps of a body are, in the
order in which they stand. A name has the value of its last `let` or parameter
(`Variable`), a call begins the body of the declaration of that name, a `return` gives
its value to the call below, and after the module's code the tests run, one after the
other. **Semantics** is a recursive evaluation of the tree in environments, which only
says how the whole program ends. Both share the definitions of arithmetic with
`Execution` (there is one meaning of `+`) and nothing else: neither has operations,
symbols, blocks, `value_map` or activations.

`CompilationInvariant` holds the refinement mapping to `SourceMachine`
(`ImplementsSource`). `Machine` is "idle" until `__main` is entered, "running" while the
program runs, and then how it ended. `CallIn` reads an activation as a call: having run k
operations, it stands at the step of its body that comes after k others, and the value of
a node is what the activation has for the `mlir::Value` generated for it. `TestsRun` is
how far `__main` is in its calls of the tests. The machine stays idle on a source with a
`Gap` and on a program that the JIT does not run, and nothing is said of it then.

**Emitter** is `make_span`, `error` and the positions of LLVM's SourceMgr. **Grammar**
is `kGrammar` and `convert()` on characters, for expressions, `let`, `return` and
expression statements: a chart of what each rule reads at each position, as a packrat
parser has it, with the nodes and the ranges that `convert()` makes of it. **Precedence**
says the same without a parser: the text is cut into its longest lexemes, and the root of
an expression is the last of its loosest operators outside parentheses. **SourceText**
writes a file, parses it, logs a syntax error or reports diagnostics at nodes.

**ForgeProperties** states the properties of the compiler. **ScopingInvariant**,
**TypeInvariant**, **GeneratorInvariant**, **SoundnessInvariant**, **ExecutionInvariant**
and **CompilationInvariant** are the inductive invariants, **ForgeClaims** what the
repository says and the code does not do, **MCForge** and **MCSourceText** the values of
the constants.

An operator commented "Mutant of X" is X with a plausible bug. No specification uses
it; put in the place of X, it must make one property fail.

## 3. What is checked

| Run | Menu | Bounds | Properties |
|---|---|---|---|
| `scoping` | variables `x`, `y`, function `f(x)`, `let`, `test` | 6 nodes, nesting 2 | `TypeOK`, `IInv`, `LookupsSucceed`, `GeneratorInv`, `ImplementsLexicalScoping` |
| `typing` | `i64` literals, `+`, `==`, `@assert`, parameters of two types, annotations | 7 nodes, nesting 1 | `ReturnTypesMirrorNesting`, `AcceptedIsSound`, `TypesAgree`, `ValueIsLexical` |
| `calls` | calls with right and wrong arguments, of functions that may be defined twice | 9 nodes, nesting 1 | `AcceptedIsSound`, `TypesAgree`, `SoundnessInv` |
| `tests` | tests, asserts, calls, calls of a value, seven command lines | 6 nodes, nesting 1, stack 3 | `TestsRunInOrder`, `CompilationInv`, `ImplementsSource`, `DiagnosticsAreFatal`, `LastTestRuns` |
| `execution` | `x + 1`, `f(1)`, `1 / 0`, `@assert(1 < 1)`, `@assert(f(1) < 1)`, `let`, `f(x)`, tests | `forge test`, 11 nodes, nesting 1, stack 3, values -2..1 | `CompilationInv`, `OperandsAreTyped`, `ExecutionMatchesSource`, `ImplementsSource` |
| `source_text` | numbers, names, four operators, calls, `@a(`, parentheses, `let`, `return`, blanks, comments, line ends | 6 characters and `;`, 4 with a blank or a misplaced lexeme | `SpansAreRenderable`, `TreeFollowsPrecedence`, `TreesAreWellFormed`, `RangesNest`, `DiagnosticsUnderlineNodes`, `SyntaxErrorsAreReported`, `UsesEmitter` |

- `scoping` shows that resolver and generator implement lexical scoping for every
  source within the bounds: the resolver's verdict is that of `LexicalScoping`, and no
  lookup fails; and, node by node, that `value_map` has the value of each name's binder.
  Six nodes are enough for a `let` around, inside and after a body and for
  a body in a body. Two names tell "this one" from "another".
- `typing` and `calls` show that what the checker accepts becomes a module MLIR
  accepts, and that the two computations of a type agree, *but for the sources that*
  `Gap` *names*: an `@assert` used as a value, arithmetic on two widths, a name shared by
  the module and a body, duplicate functions, an early `return`. Each disjunct of `Gap`
  is a way in which the checker is incomplete; without any one of them the runs fail.
  Nine nodes hold two functions with bodies that return, or one and calls of it before,
  after and inside it. With nesting 1 no function stands in a body: the checker aborts
  on those (`nested_fn`). `typing` also shows that each variable has the value of its
  binder: one name is enough, bound in several places, and seven nodes hold a `let`, a
  function whose parameter has the same name and that returns it, and a use after it,
  which are the ways in which save, clear and restore can fail.
- `tests` shows that `forge test` calls each test once, in source order, after the
  top-level code, and `forge build` none, in the module as in the running program; that a
  diagnostic is final; and that `forge test` of a source that the front end accepts comes
  to its last test, unless the JIT, an assertion, a division or a call fails before.
  Six nodes hold three tests, or two with a statement each.
- `execution` shows that the compiled program takes the steps of the source, one
  operation for each, with the source's values (`ImplementsSource`), and that it ends as
  a separate evaluation of the tree says (`ExecutionMatchesSource`): it returns, or
  ends at the first assertion, division or call that fails in the order of the source,
  and what is after that, a later test too, does not run. The menu has values that wrap
  around, a function that may call itself, a division that is undefined and assertions
  that hold or fail; eleven nodes hold a function that computes and an assertion about its
  result, or a recursive function and a test that calls it. A stack of three holds
  `__main`, a test and one call, so that a call of the function in itself is one too deep. After an undefined division `Semantics` promises nothing;
  `SourceMachine` goes on with any value, or ends. The command is always `forge test`, as
  without the tests a program is the first part of one with them; `tests` has the others.
  `OperandsAreTyped` is about what nothing checks, neither before the program runs nor
  while it does: in a source without a `Gap`, each operation that the program comes to has
  the operands it takes. It fails if the checker lets pass a `return` without a value.
- `source_text` shows that every short text is accepted and grouped as `Precedence`
  says, and that what is reported is underlined where it stands. Texts are built from
  lexemes that may follow each other, and ended by a lexeme more; so the accepted ones
  and the nearly accepted ones occur. Six characters hold two operators of different
  levels with a parenthesis around one, or a call with two arguments. Keywords are one
  letter long (`l`, `r`) and an `int` goes up to `IntMax`, so that what needs
  a long text needs a short one. Two kinds of texts are excepted by name:
  `KeywordPrefix`, a statement that starts with a word that starts with a keyword
  (`returned;` is read as `return ed;`, since a literal of the grammar does not end at a
  word), and `LoneReturn`, a carriage return inside a line, at which LLVM starts to
  count columns anew and peglib does not.

`IInv`, `GeneratorInv`, `SoundnessInv` and `CompilationInv` are checked, as well as proved,
so that their parts are known to hold on the states that TLC reaches before anyone tries to
prove them. `TypeInv` and `ExecutionInv` add to the properties of the runs only what makes
them inductive, and are left to the proofs.

**Fairness.** `LastTestRuns` assumes `WF_vars(Next)`: a process that can take a step takes
one. The compiler is one thread that waits for nobody, so this is what the operating
system gives it. The choice between what the JIT may do is free: it may fail each time,
which the property excepts.

**Bounds.** `MaxNodes` and `MaxNesting` limit `Put` and `ParseFn` and nothing else,
`Half` the numbers (an `i1` has the two values it has, the other types four),
`StackLimit` the activations; the proofs hold for every value of them. `MaxLength`,
`MaxSpaced` and `MaxReports` limit the texts and the diagnostics at their nodes. The
menus of expressions are bounds too: each lists the expressions that the properties of
its run can tell apart. `CHECK_DEADLOCK FALSE` in the two runs of `SourceText`: a file
that was parsed and reported has nothing more to do.

### What the repository says and the code does not do

Each of these runs checks one statement of a comment or a test, and finds it false.

| Run | Statement | What the run finds |
|---|---|---|
| `nested_fn` | `Parser.h:13`: `fn` "can also appear inside a body" | a function in a body: `functions.at` throws (`TypeChecker.cpp:224`) |
| `module_return` | `return_type_mismatch.fg:18`: a return "must not read an empty return-type stack" | `return 1;` at module scope reads it (`TypeChecker.cpp:212`) |
| `assert_value` | `TypeChecker.cpp:172`: "@assert is statement-position" | a `let` of an `@assert` is accepted |
| `shadowing` | `SymbolResolver.cpp:76`: "Each body gets a fresh variable scope" | a parameter of `f` changes the checker's type of the module's variable (`TypeChecker.cpp:222`) |
| `homonyms` | `function_calls.fg:3`: "A call resolves to the named function" | of two functions of a name, the checker takes the last and the generator the first |
| `assert_text` | `assert_mlir.fg:3-4`: a message "synthesized from the predicate's source text" | the text of `@assert((1)-1)` is cut as `1)-1`: the range of an operator starts inside its operand's parentheses |

Two comments are stale and change nothing: `Parser.h:31-32` says that a call is
parsed but its callee not resolved yet, and `AST.h:17` speaks of classes by older names.

## 4. What is proved

For every menu, every bound, every width of the integers and every command line that
satisfy the assumptions of `ForgeAST`, `Arithmetic` and `Execution` (an expression is a nonempty
sequence of expression nodes whose children precede them, names are strings, a stack
holds at least one activation):

| Module | Theorem | |
|---|---|---|
| `ForgeProofs` | `Invariance` | `Spec => []IInv` |
| | `GeneratorLookups` | `Spec => []LookupsSucceed`: the generator never meets an unbound variable, an undeclared callee or an intrinsic it does not know |
| | `NameResolution` | `Spec => ImplementsLexicalScoping`: the compiler implements the abstract specification of name resolution |
| | `Diagnostics` | `Spec => DiagnosticsAreFatal` |
| `TypeProofs` | `Typing` | `Spec => []TypeInv` |
| | `TypeCorrectness` | `Spec => []TypeOK` |
| | `ReturnTypes` | `Spec => []ReturnTypesMirrorNesting` |
| `GeneratorProofs` | `Generation` | `Spec => []GeneratorInv` |
| | `Lexicality` | `Spec => []ValueIsLexical`: a variable reads the value its binder gave it |
| | `TestOrder` | `Spec => []TestsRunInOrder` |
| `SoundnessProofs` | `Soundness` | `Spec => []SoundnessInv` |
| | `CheckerAndGeneratorAgree` | `Spec => []TypesAgree` |
| | `AcceptedSourcesAreSound` | `Spec => []AcceptedIsSound`: what the front end accepts becomes valid IR, but for the sources that `Gap` names |
| `ExecutionProofs` | `Activations` | `Spec => []ExecutionInv` |
| | `OperandTypes` | `Spec => []OperandsAreTyped`: the program of a source without a `Gap` reads only values that exist, each of its type |
| `CompilationProofs` | `Compilation` | `Spec => []CompilationInv` |
| `RefinementProofs` | `CompilerIsCorrect` | `Spec => ImplementsSource`: the compiled program does, step by step, what its source says |
| `EmitterProofs` | `Rendering` | `EmitterSpec => []SpansAreRenderable`, for every file and all ranges of it |

`LookupsSucceed` alone is not inductive: that `value_map` has an entry for a variable
rests on what the resolver saw at the same node, one pass earlier. `IInv` says why it
does:

1. `TreeInv`: `path` is well nested. An "end" closes the innermost declaration, and
   between a declaration and its end every node is inside it.
2. `ResolveInv`: at node `n` the resolver's `variables` is `Scope(n)`, the parameters
   and preceding `let`s of the body around `n`, and `saved` holds the scopes of the bodies
   around that one, so that a restore at an "end" gives the scope after it. If
   nothing was reported yet, every node before `n` is well scoped.
3. `AcceptInv`: so a tree that passes the resolver is well scoped.
4. `CheckInv`: a tree that passes the checker has direct calls and one-argument
   `@assert`s only.
5. `GenerateInv`: at node `n`, `value_map` has exactly the names in `Scope(n)`, `frames`
   those of the bodies around, and each top-level function is declared under its name.
   With 3, a lookup at `n` succeeds.

The heart of it is `ScopeStep`: how `Scope` and the scopes around change from a node to
the next, by kind of node. The resolver and the generator are then each shown to do the
same to their tables. One lemma per component shows that its steps preserve `IInv`;
`PutKeepsTree` does it for all productions of the parser.

`NameResolution` needs the converse of 2, `RejectInv`: where something was reported, a
node before the cursor breaks the rule. Then the step in which the resolver returns is
the step `Decide` of `LexicalScoping`, the parser's steps are steps `Read`, and every
other step leaves the tree and the verdict alone (`StepRefines`, one lemma per pass).

`TypeInv` is `TypeOK` and what makes it inductive: children and bound values precede
their node (so the tables `ty` and `vals` have them when the walk gets there), the
checker's stack of return types is that of the declarations around the cursor (so it is
not empty at a `return` in a body), and the insertion point and those to be restored are
in functions of the module. It rests on `IInv`, which says that an "end" has a body to
restore and a function to find is declared. Its last part, `ModuleTyped`, is the shape
of the module that the program is made of.

`GeneratorInv` says what is in the generator's tables, where `IInv` says which names
are. `LexicalValue(v, x, p, n)` is: `v` is what the node that binds `x` at node `n` of body
`p` evaluated to. `value_map` has the lexical value of each of its names, and so has each
saved map for the declaration before whose body it was saved; that second part is what
makes a restore at an "end" right (`WalkKeepsValues`), and `BinderStep`, how the binder of
a name changes from a node to the next, is to it what `ScopeStep` is to `IInv`. Values
stay what they are because functions only grow (`Grows`). For the tests the invariant
orders `test_symbols` by the declarations they were made for and says that all calls so
far are of top-level functions, in `__main` and elsewhere; then the calls that
`FinishRunsTests` adds are the only ones of tests, and in order.

`SoundnessInv` is the longest argument. It follows the source through three passes, and
but for the shape of the tree claims nothing of a source with a `Gap`:

1. `Shaped`, from the parser: an operand, and what is bound or returned, is an expression
   of the same body, and the body of a function ends with a `return`
   (`ParserKeepsShape`).
2. `CheckedInv`, from the checker: every value before the cursor has a scalar type and the
   types of a node's operands fit (`CheckedNode`), and `symbol_types`, one table for all
   bodies, is right for the module's names and for those of the body at hand
   (`SymbolsMirrorScope`). That needs `~SharedName`: without it the invariant is false, as
   the run `shadowing` shows.
3. `GeneratedInv`, from the generator: the insertion point is in the one block of the
   function of the body at hand; the value of each node has the checker's type and
   dominates what is generated next in its body; every operation obeys the verifier's
   rules; a function has its `return` exactly if its body is complete. A value for an
   identifier is that of its binder by `GeneratorInv`, and has its type because
   `CheckedNode` says the same of the binder; a call finds the function whose signature
   was checked because without duplicates symbols are unique (`FunctionsUnique`).
4. So when the last node is generated, and `__main` has its calls of the tests and its
   `return`, the module is valid (`GenFinishKeeps`), and stays so until it runs.

One lemma per action of the generator (`GenLetKeeps`, `GenEndKeeps` ...) shows that it
neither fails nor breaks `GeneratedInv` at a node of a source without a gap. A source
may come to have a gap while the checker gives its nodes types, but never loses one
(`GapStays`): what is claimed outside `Gap` has to be kept only from states outside it.

`ExecutionInv` is about the running program of a source without a `Gap`: the module is
valid, each activation has arguments and results of the types that the module says, and
each but the last stands at the call of the function of the next (`RunInv`). `CallKeeps`
and `ReturnKeeps` are its heart: arguments have the types of the callee's parameters because the symbol of a call is that of one function only, and what
a function returns has the type of the result of the call that waits for it. Nothing in
the code makes sure that the module is valid when it is invoked; `AcceptedIsSound` does,
so that `OperandTypes` is a statement about checker and generator. With a `Gap` it is
false: the program may run, and read what does not exist.

`CompilationInv` is about what `SoundnessInv` leaves open: that the module is not just
valid but the right one. Again it claims nothing of a source with a `Gap`. The k-th step
of a body before the cursor is operation k of its function (`Index`), does what its node
says to the values of the node's operands (`Renders`), and there are no other operations
(`Accounted`), so that the number of operations that have run is the place in the source.
The value of a node is a parameter, or the result of an operation that comes before it
(`ValueInPlace`). In `__main` the steps are followed by a call of each test, by its
number, and a `return` (`TestsCalled`). One lemma per action of the generator shows that
it adds the operation of its node, if that is a step, and no other; the rest is counting:
`Before` grows by one at a step and stays at another node. What the
checker knows of each node (`CheckedNode`) is kept to the end of the compilation, as the
program needs the types then.

`CompilerIsCorrect` is the refinement, for the mapping described in section 2. A function
of a complete module has exactly the operations of its steps, so an activation that has
run k operations and is about to run the next stands, as a call, at the node that this
operation renders. Three facts carry every case:

1. the activation has a value for each node before the place where it stands, and gives
   an identifier the value of its variable: that is `GeneratorInv`, read off `value_map`
   long after the map is gone (`NamesHaveValues`, `CallsAreEvaluated`);
2. an operation's operands are the values of the node's children, so that `ValueOf` is
   the machine's `Arg` (`OperandIs`);
3. after an operation the call stands at the next step, with the old values and, at the
   node of the operation, its result (`CallAdvances`).

Then each action of `Execution` is the step of the machine for the kind of node, one lemma
for each (`ConstantIsLiteral`, `CallIsCall`, `ReturnIsReturn` ...). A call
finds by its symbol the one declaration of its name (no duplicates, by `~Gap`), its
arguments are those the parameters get, and the new activation stands at the first step
of the callee's body with nothing evaluated but its parameters. A `return` gives the call
below the value of its operand, or ends a test. When `__main` has run its steps, each call
of a test is `RunTest` on the first test that has not run, because `TestSym` numbers them
as they stand (`TestInTurn`), and its `return` is `Finish`. A step of a pass leaves the machine idle,
except that `Invoke` is `Start`.

`Diagnostics` is about steps; it needs the invariant `FatalInv`: once a diagnostic was
reported the phase is "resolve", "check" or "done", and no status is set before the
process ends. Without it a step of the generator, or an `--emit-mlir` that succeeds,
could follow a diagnostic. One lemma per component.

`Rendering` counts: lines and columns are at least 1 (`LinesAreCounted`,
`ColumnsAreCounted`, from the cardinality of finite sets), so the 0-based ones do not
underflow. It is about `Emitter` alone; that the parser uses the emitter as `EmitterSpec`
says is the property `UsesEmitter` of the run `source_text`.

Only model-checked:

- `LastTestRuns`: liveness, which the prover cannot treat;
- `ExecutionMatchesSource`: `Semantics` evaluates the tree by a recursive operator, and
  what a recursive definition computes for every input is out of the prover's reach.
  `CompilerIsCorrect` says the same and more of the same programs, against a machine in
  place of an evaluation: every step and every value, not only the end;
- the properties of `SourceText` but `SpansAreRenderable` (`TreeFollowsPrecedence`,
  `TreesAreWellFormed`, `RangesNest`, `DiagnosticsUnderlineNodes`,
  `SyntaxErrorsAreReported`, `UsesEmitter`): `Grammar` and `Precedence` are recursive too.

Neither refinement says that the program gets anywhere: both are safety properties. That
`forge test` gets to its last test is `LastTestRuns`.

## 5. What is not modelled

- The *Forge dialect* and `forge-opt`: types and attributes of compile-time numbers that
  no pass creates. Their code parses and prints through MLIR, and keeps no state.
- *Functions and tests as characters*: `Grammar` reads statements of the module only. Their
  headers, bodies and tails are productions of `Parser`, where they build trees; their
  nodes get no range, so there is none to check.
- *Lowering and translation* beyond their outcome: the conversion patterns are MLIR's, the
  code generation LLVM's. What the operations do after them is `Execution`.
- *CompiledModule*: `funcs` stands for its `module_op`; who owns the context and when it
  is freed is not modelled.
- *The rendering* of a diagnostic, the text of messages and of IR, and the cache of
  sources: one file is compiled, so there is one buffer.
- *Characters beyond ASCII*: peglib counts the code points of a line and LLVM its bytes, so
  after one of these the two disagree on a column. The texts of `SourceText` have none.
- *The locations of operations*: the generator gives them none.
- A grammar that peglib rejects (`Parser.cpp:240`) cannot happen with the constant
  grammar. `infer(Call)` and `infer(IntrinsicCall)` skip the operands of a call they have
  just reported; the model visits operands first, always, which can only add diagnostics
  to a run that has failed.

## 6. Plan

Done: the modules above, and a proof of every invariant and action property of `Forge`
that is in reach of the prover. Left:

1. `fn` and `test` in `Grammar`, for the choice between a statement and the expression at
   the end of a block.
2. `Grammar` and `Precedence` without recursive operators (as recursive functions on
   positions), which would let their lemmas be stated for every text, if not proved by
   induction.
3. A proof that each disjunct of `Gap` is needed is not to be had, as it is about
   reachability; the runs that expect a violation show it for three of them.
