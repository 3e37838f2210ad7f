# Models and proofs of the CiviCC compiler

This directory holds TLA+ models of the CiviCC compiler in `src/`, the TLC
configurations that check them on small instances, and proofs for the TLA+
proof system.  `PROJECT.json` lists the runs, the mutants that show that each
property can fail, and, definition by definition, the lines of code behind
every model.

The compiler is a sequential program.  What makes it hard is not concurrency
but order: about twenty traversals change one tree and one set of symbol
tables, each relying on what the ones before it left; two of them are analyses
that recurse over the recursion of the *compiled* program; five of them repeat
until nothing changes; and the result is code for a stack machine, whose
behaviour has to be that of the source.

## Inventory

The pipeline (`src/src/main.ccn`) is: parse; `SemanticAnalysis` {EFI, FH, DC,
TC}; `CodeGenPreparation` {IF, AA, HA, TT, PP, DR}; `Optimization`, a cycle
over {AS, AR, CF, BE, DCE}; `CodeGen`; `FreeSymbols`.  The components talk
through the tree (nodes rewritten in place), through the symbol tables hung
into it (`Program`, `FunDef`), and through file-local variables that live for
one traversal.

| Component | State it keeps | Operations | What is hard | What makes it correct |
|---|---|---|---|---|
| Name resolution: FunctionHeader, DeclarationCheck (`function_header.c`, `declaration_check.c`, `deep_lookup` of `utils.h`) | `current` table, `level`, the tables, the names in the tree | enter a function or a variable, rename a use, leave a scope and re-key its table | globals, functions and bodies are visited in three different orders; names are changed while they serve as keys | every use is bound to the declaration the language means; the new names lead later passes to it; exactly the forbidden programs are refused |
| Side-effect analysis (`check_*_sideeffect` of `utils.h`) | a table of verdicts per pass, processing marks | ask about a function, statement or expression | follows recursive programs; verdicts found while others are open | ends; answers are definite; NO only for functions without effects |
| Expression rewriting: AlgebraicSimplification, AlgebraicReordering, ConstantFolding | the tree, `sideeffected_expr`, the notification of the cycle | local rewrites, extraction of calls | limits of `int`; operators that are not associative; calls that must survive; passes that may undo each other | value and calls are kept; constants come together; the cycle settles |
| Branch evaluation | the tree, a table of last assigned expressions | replace conditions, drop branches and loops | values that loops or calls have changed | a branch is dropped only if it cannot run |
| Dead code elimination | usage states per variable, copied and merged at branches | remove statements, variables and functions | a backward analysis over loops; asserts about merged states | only what cannot be observed is removed |
| For iterators (ExtractForIterator) | a counter, a table of renamed iterators | rename an iterator and its uses, declare it | nested loops over the same name, a block that is visited twice | a use means the iterator of the innermost loop |
| Type checking | type of the expression, of the function | compute types, check returns and arguments | return paths | accepts exactly typed programs |
| Initialisation and hoisting: InitFunction, HeterogeneousAssignments, HomogeneousAssignments (`unpack_arrayinit.h`) | `__init`, the statement or declaration that is being handled | move initialisers and index expressions, make temporaries | where a statement is inserted relative to others | evaluation order |
| Short-circuit operators: ToTernary | none | replace `&&`, `||` and casts | - | evaluation order |
| Arrays: ParameterPassing, DimensionReduction | the dimensions of the current function | add dimensions to calls and headers, flatten indices | two sides that must agree | dimensions arrive in order, indices in row-major order |
| Code generation (`code_gen.c`) | index tables, constant, import and export tables, label counters | emit code | static levels, indices, the balance of the operand stack, loop code | the code does what the source says |
| Phase driver (CoCoNut, patched by `cmake/coconut.patch`) | cycle counter, `fixed_point`, `phase_error` | run phases and cycles | an error stops a phase only at its end | - |
| Scanner, parser, preprocessor; printing; `FreeSymbols` | - | I/O and memory | - | - |

The hazards, each at its line, are in `PROJECT.json`.

## Modules

```
ScopeProgram ── LexicalScope (abstract)
      └──────── Scoping ─── MCScoping, ScopingProofs
SideEffects ─── MCSideEffects, SideEffectsProofs
LoopHeader ──── ForLoop (abstract)
      └──────── ForLoopCode ─── MCForLoopCode, ForLoopProofs
ConstantFolding ─── ConstantFoldingProofs
      └──────────── ExprRewrite ─── MCExprRewrite
DeadCode ────── MCDeadCode
TypeCheck ─┬─── TypeRules ─── MCTypeCheck
           └─── TypeCheckProofs
ForIterator ─── MCForIterator, ForIteratorProofs
Initialisation ─ MCInitialisation
Operators ─┬─── SourceProgram ─┬─ SourceMeaning ─┬─ Preparation ─── MCPreparation
           │                   └─ CodeGen ───────┤
           └─── StackMachine ─┬─── CodeGen       └─ SourceRun ───── MCCodeGen
                              └─── StackMachineProofs
```

`CodeGen` extends both `SourceProgram` and `StackMachine`; `SourceRun` composes
the meaning of the source, the generator and the machine; `CodeGenProofs` is
about `CodeGen`.

### Names: `ScopeProgram`, `LexicalScope`, `Scoping`

`ScopeProgram` is the part of a program that name resolution reads: a tree of
scopes and, per scope, its items in source order (variables with the names in
their initialisers and dimensions, statements with the names in them, function
definitions and extern functions).  `WellFormed` says what the grammar and
ExtractForIterator guarantee, among it that the scopes are a tree: each but the
outermost is the body of a function definition in its parent.  `Meaning` is the rule of the language: the first
declaration that can be seen, in the innermost scope that has one.

`Scoping` is the two traversals.  The recursion of the generated traversal code
is kept as the set of items `done` per scope; `current`, `level`, `table` are
the variables of the code, `saved` is the local `parent_level` of
`CA_DCfundef`, `sub` is how far the names of the current item have been
visited.  Each handler is an action: `FHfundec`, `FHfundef`, `FHleave`,
`FHprogram`; `DCuse` (both `CA_DCvar` and `CA_DCproccall`), `DCvar` (all four
handlers that end in `add_var_symbol`), `DCstmt`, `DCfundec`, `DCfundef`,
`DCleave`, `DCprogram`.  The last two include `sync_symbol_keys`.  An error of
FunctionHeader does not prevent DeclarationCheck: the driver stops only at the
end of a phase.

`LexicalScope` is what they promise: each use gets, once, its `Meaning`, in any
order, and none is left out.

### Calls that may be dropped: `SideEffects`

The three mutually recursive functions as one explicit stack of open checks.
A statement is reduced to the calls that are looked at in order, the calls that
are never looked at (`unseen`: arguments of calls, `utils.h:402-450`, and the
indices of an assigned element), and what it writes.  `memo` is
`sideeffect_table`.  `CallExtern`, `CallSelf`, `CallKnown` and `CallNew` are
the branches for a call; `Return` is the end of a function's check together
with what the caller makes of it, so the verdict that is forgotten
(`utils.h:422`) is one step.  Once an effect is found, the loops over blocks
end early; how much of what follows is skipped depends on the nesting, which is
flattened here, so `StmtEnd` allows every remainder.

Abstractions: the compiler's own `@alloc` is left out; the expression of a
`POP` node is checked twice in place of its replacement (`utils.h:494-498`),
which makes no difference where replacements are constants; the program does
not change while the table lives (the passes do remove calls while they ask,
which can make a YES out of date, never a NO wrong).

### For loops: `LoopHeader`, `ForLoop`, `ForLoopCode`

`ForLoop` is the meaning of a loop: the body runs with start, start + step, ...
while stop is not reached.  `ForLoopCode` goes from the prepared tree to the
run: `DropsBlock` is the test of `OPT_BEforloop`, `Code` the four shapes
`CG_CGforloop` emits (no step, step 1 or -1, another number, a variable), and
the actions are the instructions of the machine, with the division of the VM.
The body is one instruction that notes the loop variable.  The machine is
external; it is modelled from how `code_gen.c` uses it.

### Expressions: `ConstantFolding`, `ExprRewrite`

`ConstantFolding` is the arithmetic of `OPT_CFbinop`, with its tests against
the limits of `int`; `IntMax` is a parameter.  `ExprRewrite` is the three
passes on trees of integers, variables, calls without arguments, operators,
conditions and ternaries, and the cycle.  `Extract` is the traversal with
`check_sideeffects` set, `IsChain` is `is_sideffect_chain`; `SimplifyBin`,
`SimplifyNeg`, `Regroups`/`Regrouped`/`Swapped`, `FoldBin` and `FoldCond` are
the rules of the handlers; `Pass` is the bottom-up traversal.  The variables
are the expression, the next pass, the notification, the count of cycles and
whether ConstantFolding has given one of its warnings (`Warns`).
What an expression means is evaluated on a machine whose ints wrap around, as
the 32-bit ints of the virtual machine (which is external) do: `x + (y + z)`
becomes `(x + y) + z`, which may overflow where the program's expression does
not, and has the same value because the ints wrap.  Constants that overflow are
not wrapped but replaced by a limit, with a warning; `ValueKept` is about
expressions without a warning, and `NoUnexpectedOverflow` says that there should
be none where the program does not overflow itself, which is not so (see
"Divergences").
The two passes of the cycle that do not touch expressions, BranchEvaluation
and DeadCodeElimination, are not part of it.

Abstractions: floats, boolean arithmetic, the `POP` nodes for calls of another
type and calls with arguments are left out.

### Dead code: `DeadCode`

The backward pass of DeadCodeElimination over a function `main` and a function
`g` within it that uses the variables of `main`.  An expression is the
variables it reads and the calls with effects in it; a statement is an
assignment, a call, a return, an if or one of the loops, nested freely.  The
record `st` that is handed from statement to statement is the static variables
of the file: `use` is `usage_table`, `ifs` and `elses` are `if_usage_stmts` and
`else_usage_stmts` with the usages before the branch, `collect` is the two
`collect_*_usages` flags, `check` and `return` are `check_return` and
`has_return`.  `Traverse` and `Handle` are `OPT_DCEstatements`; `HandleIf`,
`HandleLoop` and `HandleDoWhile` the handlers of the compound statements, each
with `Restore` (`UCrestore`) where the code calls it; `Tagged` is a traversal
with `tag_usages`, `HasConsume` one with `check_consumtion`, `Extracted` one
with `collect_sideeffects`.  `ok` says whether the asserts of `UCrestore` have
held.  `Eliminate` is one cycle: the pass, after what BranchEvaluation does to
a loop `do { } while (false)` (`Spliced`), since DeadCodeElimination makes such
loops and leaves them to it.

What a program does is defined next to it: `Exec` runs it, with oracles that
decide how each condition turns out, and every value carries the assignments it
came from, so that two runs that print the same have also computed it the same
way.  Abstractions: arrays, ternaries, globals and `__init`, the removal of
variable declarations and of symbol table entries are left out, and so is the
variable of a for loop; a call of `g` is a statement; `HTinsert` of a key that
is already in the table (external) replaces its value.

### Types: `TypeCheck`, `TypeRules`

`TypeCheck` is the one traversal of `type_checking.c`, with its four static
variables in `st`: `type`, `any` (`anytype`), `ret` (`rettype`) and `returned`
(`has_return`).  `Nodes` are the nodes of the programs, `WellFormed` says what
their children are.  The recursion of the handlers is a sequence `todo` of nodes
and of what a handler still does when its children have been visited, so that a
handler that visits a child between two assignments is two actions (`CA_TCcast`,
`CastEnd`), and the loop over the arguments of a call is an item of `todo` for
each of them (`ArrayArg`, `ScalarArg`); the values that handlers keep in locals
travel in `todo`.  Names without a declaration, which name resolution has
reported, are skipped as the code does (`Skip`).  `notes` are the types written
into the tree for the code generator.

`TypeRules` states which programs are well typed, by recursion on the program
and without state: the type of an expression, the statements of a function, and
the ways a block can end (`Ways`); and that `TypeCheck` finds out just that.

### Loop variables: `ForIterator`

ExtractForIterator renames each loop variable to a name of its own and moves it
to the variables of the function.  `ForloopFirst` makes the name and visits the
block; because loops within it clear the two names the visitor compares with,
the block is visited a second time (`ForloopSecond`), in which loops that have
been renamed only visit their blocks (`ForloopAgain`).  An item of the program
is known by its place, `name` says what is written there.  A program is a table
of its nodes, each with the function it is in and the loops around it
(`WellFormed` says what makes that a tree), and `todo` is the rest of the
traversal, with what the handlers keep in locals until their children have been
visited: the name and counter of the function around in `Back`, the two names of
a loop in `Again`.

### In front of code generation: `Initialisation`, `Preparation`

`Initialisation` is about declarations: what InitFunction,
HeterogeneousAssignments and HomogeneousAssignments put into `__init` (or, for
a function, in front of its statements) and behind which statement, with the
pointers the code uses to find the place (`last_stmts`, `last_decls`,
`init_stmts`, `last_init_decls`) and `Search` for `search_last_init_stmts`.  A
declaration is its kind, dimensions, number of computed indices and kind of
initialiser; a statement says what it initialises.

`Preparation` is about statements, on whole programs: one action for each of
HeterogeneousAssignments, HomogeneousAssignments, ToTernary, ParameterPassing
and DimensionReduction, as a function from tree to tree.

### Code: `SourceProgram`, `SourceMeaning`, `CodeGen`, `StackMachine`, `SourceRun`

`SourceProgram` is prepared programs with their scopes; `SourceMeaning` runs a
program as the language says, on activations with static links, and gives the
calls of imported functions with their arguments, and the result of `main`.

`CodeGen` is `code_gen.c`: one action per handler, on the rest of the traversal
`todo`, with the counters of labels, the constant table and the names that
local functions get.  `todo` holds nodes together with the type that is wanted
of them (the static `type`), and instructions that are emitted in between.
`owner` says which function an instruction belongs to.  `failed` says that an
assertion has failed.  `Sources` are the programs, `NodesOf` the nodes in the
body of a function; `SourcesAssumption` says what the passes before leave, as
far as code generation relies on it: a child of a node is a node of the same
function, an array has an index, each function is declared once, in the function
around it (`FunsFit`), and a call leads to a function that the caller can see
(`Visible`), which DeclarationCheck ensures.  TLC checks it for the programs of
the runs.  `GenSpec` is the traversal, and that the code is taken away at its
end (`HandOver`, part of `Assemble`).

`StackMachine` is the virtual machine (external): frames with local variables,
operand stack, the calls that are opened and not made, and the chain of frames
reached by static links.  `Links` gives the chain for `isrl`, `isr`, `isrn` and
`isrg`.  An instruction whose operand, variable, array element or mark is
missing is not enabled, so that wrong code gets stuck.  `Verified` is what one
look at the code can establish: at every place a number of operands and a list
of opened calls that agree with all that jumps there, static links that fit the
place of the function called, returns with nothing left.

`SourceRun` composes them: a program is generated, assembled (`Assemble`:
labels become places, and the stack map is computed) and run.

Abstractions: floats, casts, division and modulo (one more case of the same
handler, `code_gen.c:902-970`), imported and exported variables and the text of
the assembly are left out; ints are unbounded; labels are tuples.  An element in
the index of an assigned element is always loaded: the code would emit a store
(`is_arrayexpr_store` stays set, `code_gen.c:1714`), but
HeterogeneousAssignments leaves no such index.

## Runs

| Run | Instance | Shows |
|---|---|---|
| `scoping` | 7,980 programs with two functions, nested or side by side, named alike or not, globals before and after, shadowing, double declarations, undeclared names, one iterator | `TypeOK`; `NamesQualified`: names carry the depth of their scope; `FinalNamesResolve`: after the re-keying, the new name found from the scope of a use leads to its declaration; `ErrorsExact`: exactly the forbidden programs are refused, with exactly the right messages; `EntriesStable`: no table entry is lost or redirected; `ImplementsLexicalScope` (refinement, with liveness) |
| `side_effects` | three functions with any of 14 bodies each, of up to two statements: all calls, writes to outer variables; in one of the functions also several calls in a statement and calls in arguments; any sequence of questions | `TypeOK`; `AnswersDefinite`: the asserts of the passes; `MarksMatchStack`; `YesMeansEffect`; `NoMeansNoneInShortCycles`; `VerdictsFinal`, `ChecksEnd` |
| `side_effects_cycle` | as `side_effects` | violation of `NoMeansNone`, see below |
| `for_loop` | bounds and steps -3..3, all forms of stop and step; steps in variables only 1 and -1; judged blocks only those kept or never run | `ImplementsForLoop` (refinement, with termination), `StackBalanced`: what a loop leaves on the stack |
| `for_loop_counted` | all loops with a variable as step | violation of `ImplementsForLoop` |
| `expr_rewrite` | 31,818 expressions of up to three levels: sums and products, differences, divisions, negations, ternaries, all pairs of constants at the limits of `int`, and sums, products and differences of three large constants and variables | `ValueKept`: no constant is out of range, and unless there was a warning the value is kept; `CallsKept`; `ConstantsLast`: the normal form the passes work towards; `Settles`: the cycle ends because nothing is left to do |
| `dead_code` | 24,948 programs over two variables, six kinds of statements in three to five places around an if, a loop, one within the other, a nested function, or returns; a print at the end | `EffectsKept`: for all 16 ways the conditions can turn out, calls with effects, returned values and the conditions that are left see the values they saw in the source; `AssertsHold`; `NothingUnread`: at rest no assignment stays that nobody reads; `Settles` |
| `type_check` | 3,817 functions: expressions over variables of every type, arrays, calls, casts and an undeclared name, in every place that expects a type; initialisers of arrays; blocks with returns around ifs and loops; functions within functions | `ErrorsExact`: an error exactly if `TypeRules` says so; `AnnotatedRight`: what is noted for the code generator is the operand's type; `StaticsSound`: the asserts about `type` and `anytype` |
| `for_iterator` | 64 programs: loops over two names up to three deep, with uses in headers, in front of, between and behind inner loops, and in a function within | `ShadowingKept`: a use means what it meant; `LoopVarsOwn`: a loop has a variable of its own, in its own function |
| `initialisation` | 5,104 modules and functions: up to three declarations of every kind in every order, and four of some | `InitInOrder`: everything is initialised once, in the order of the declarations, what is needed first; `LinkageDims`: an exported array has its own dimension variables in front of it |
| `preparation` | 158 programs: eleven expressions in nine statements, in a function with arrays of its own and in one that gets them as parameters | `MeaningKept`: the prepared program makes the same calls with the same values; `FitsCodeGen`: the asserts of `code_gen.c` about its input |
| `code_gen` | 685 programs: functions up to three deep that call one another at all levels and recursively, locals, parameters, arrays and globals, every statement of one function with every one of another | `CallsAsInSource`: the code does what the source says; `CodeVerified`: it passes the checks of one look; `Halts`; `LabelsOnce`: no label is emitted twice; `JumpsLand`: what is jumped to or called is in the code; `TypeOK`, `FramesLinked`, `StackBalanced`: the machine's invariants; deadlock: no instruction gets stuck |

Why the bounds are enough.  *Scoping*: two functions give depth 0, 1 and 2, a
sibling and a child; two names are needed for shadowing, and one for the
initialiser that mentions the name it declares.  *Side effects*: three
functions are the least with a cycle that has an outside entry, and the least
in which a function is open, another judged and a third forgotten; two
statements are needed for an effect after the recursive call.  *Loops*: with
bounds from -3 to 3 a loop runs from never to six times and steps both divide
the distance and do not.  *Expressions*: a rule looks at most two levels deep;
three levels let the result of one rule meet another, and 8 cycles are more
than any of them needs (this is what `Settles` checks; the real limit is the
driver's).  `IntMax` is 1000 there; the tests in front of the arithmetic do not
depend on its value, and the proofs are for any.  *Dead code*: the states of a
variable are merged at one compound statement at a time, so one within another
shows what the outer one makes of the inner one's result; an assignment in
front, one in each block and a reader behind are the least for a wrong merge to
be seen.  An if goes either way or alternates, a loop runs up to twice, which is
what a value needs to travel from one iteration to the next.  *Types*: a static
variable goes wrong between a node and its neighbour, so every kind of
expression stands in every kind of place and nesting deeper than two adds
nothing.  *Loop variables*: three loops within one another and one behind are
the least in which the names are cleared between two uses of the outermost
variable.  *Initialisation*: the place of a statement depends on the
declarations next to it and on those that have been handled; the third follows
one that was inserted behind another.  *Preparation*: two dimensions tell
row-major from column-major order, two arrays in a call their order, and the
number of elements differs in each dimension.  *Code*: a function two levels in
calls, and uses variables of, its own, the next and the outermost level and a
sibling of the function around it, so that each form of `isr`, `iload` and
`istore` is emitted and run; recursion makes the number of frames differ from
the level.

Fairness.  The traversals, the check and the machine are sequential code that
runs until it returns, which is weak fairness of the next step: `FairSpec` of
`Scoping`, `WF_vars(Check)` of `SideEffects` (a pass need not ask anything, but
a question asked is worked on), `Spec` of `ForLoopCode`, and `WF_vars(Next)` of the
machine in `SourceRun`: it executes one instruction after the other.
`ExprRewrite` and `DeadCode` need none, because the limit on cycles turns
settling into an invariant; `TypeCheck`, `ForIterator`, `Initialisation` and
`Preparation` are traversals of finite trees.  `ForLoop` and
`LexicalScope` have fairness of their own, which the detailed
specifications are shown to implement.

Deadlock is checked, except in the four configurations of `TypeCheck`,
`ForIterator`, `Initialisation` and `Preparation`, which end with the traversal.

### Divergences

Two runs of the list end in a counterexample:

* `side_effects_cycle`: with f1 -> f2 -> f3 -> f1 and an effect in a later
  statement of f1, the check of f3 is forgotten, and f2 is remembered as free
  of effects while f1 is still open (`utils.h:422-432`).
* `for_loop_counted`: the number of iterations of a loop whose step is a
  variable is computed from the remainder of the quotient
  (`code_gen.c:1426-1433`).

The following configurations belong to no run; each gives its module programs
that the passing run leaves out, or checks a property that it does not
(`NoUnexpectedOverflow`), and TLC ends in a counterexample
(`tlc -config <file>.cfg <module>`).  Where a value is named, the configuration
is that of the run with this value for the constant.

| Configuration | Module | Violates | What happens |
|---|---|---|---|
| `MCSideEffectsArray.cfg` | `MCSideEffects` | `NoMeansNone` | filling an array parameter or a global array is no effect for the analysis (`utils.h:624`) |
| `MCForLoopCode.cfg`, `Loops <- KnownLoops` | `MCForLoopCode` | `ImplementsForLoop` | the optimiser drops the block of a loop that runs exactly once (`branch_evaluation.c:246`) |
| `MCExprRewriteSub.cfg` | `MCExprRewrite` | `ValueKept` | `x - (y - z)` becomes `(x - y) - z` (`algebraic_reordering.c:132`) |
| `MCExprRewriteOverflow.cfg` | `MCExprRewrite` | `NoUnexpectedOverflow` | `900 + (200 + -300)` with `IntMax` = 1000 (in C, `2147483600 + (100 + -200)`) overflows nowhere, but becomes `(900 + 200) + -300` (`algebraic_reordering.c:129-141`) and then 700 instead of 800, with a warning (`constant_folding.c:64-71`); the comment at `algebraic_reordering.c:64-65` is about just such overflows |
| `MCDeadCode.cfg`, `Sources <- ReadInElse` | `MCDeadCode` | `AssertsHold` | `if (b) { a = 1; } else { a = a + f(b); }` with `a` read later fails the assert at `deadcode_elimination.c:114` |
| `MCDeadCode.cfg`, `Sources <- ReturnInDoWhile` | `MCDeadCode` | `EffectsKept` | a return in a branch within a do-while loop makes the condition false (`deadcode_elimination.c:1007`) |
| `MCCodeGenSub.cfg` | `MCCodeGen` | `CallsAsInSource` | `x = 5 - x` is emitted as `x = x - 5` (`code_gen.c:688-699`) |
| `MCCodeGenNegative.cfg` | `MCCodeGen` | `AssertsHold` | `x = x - c` with a constant c below -1 fails `release_assert(val > 1)` (`code_gen.c:738`) |
| `MCInitialisationIndex.cfg` | `MCInitialisation` | `InitInOrder` | the temporary for a computed index in the initialiser of a global scalar is assigned out of order (`utils.h:332`) |
| `MCForIteratorCalls.cfg` | `MCForIterator` | `CallsKept` | the call of a function named like the variable of a loop around it is renamed (`extract_for_iterator.c:114`) |
| `MCPreparation.cfg`, `Sources <- Captured` | `MCPreparation` | `MeaningKept` | the dimension of an array is a temporary of the outer function, and a nested function that uses the array has a temporary of the same name (`heterogeneous_assignments.c:255`) |

Left out of the instances without a configuration of their own: `0 - x`
becomes `x`; `x % 1` and `x % -1` become `x` and `-x`; a ternary that holds a call with effects, times zero, is rewritten into itself
in every cycle.  What the instances contain but the properties allow: a product
with a negative constant on the right is folded to a limit of `int`, with a
warning (proved, `NegativeProducts`), and an explicit step of 1 or -1 leaves an
operand on the stack in every iteration (`StackBalanced` of `ForLoopCode` says
exactly how many).  Of dead code
elimination (`Apart`, `WithG` in `MCDeadCode`): an if within another compound
statement whose branches assign to the same variable loses assignments in front
of the outer statement, because what the inner if consumes is not noted for the
outer one; likewise an if whose first branch reads a variable that both assign
to; a nested function that is called twice, or in a loop, has its reads taken
into account only at the last call; and if it assigns to a variable it has read,
the read is forgotten when it is called in a branch.  Of hoisting: a computed
index in the condition of a while or do-while loop is computed in front of the
loop only; one behind `&&`, `||` or in a branch of a ternary is always computed;
one to the right of a call with effects is computed before the call; and a
variable that is the dimension of an array is read at every access, so an
assignment to it moves the elements.  Of labels: a global function may be called
what a local one is labelled (`lf0_g`, `code_gen.c:581`).

## Proofs

`tlapm` proves the following for every value of the constants.

* `ScopingProofs`, from `ScopeAssumption` and `ProgramsAssumption`.
  `LevelsInNames`: `Spec => []NamesQualified`.  It is not inductive alone: a
  name is made from `level`, and `level` is restored from `saved`.  The
  invariant `LevelInv` adds that `level` is the depth of the current scope
  (`Levels`), that `saved` holds, for each scope on the way from the root, the
  depth of its parent, and the types of the control variables (`Control`).
  The step that matters is `DCleave`.  `ScopingTypes`: `Spec => []TypeOK`;
  its invariant `TypeInv` further says that every table entry has a name
  (`EntriesNamed`), which the re-keying needs.  `ResolvesLexically`: every step
  of `Scoping` is a step of `LexicalScope` or a stutter, so that each use gets
  its `Meaning`, once, and at the end none is left out (`LexSafety`, the safety
  part of `ImplementsLexicalScope`).  `NewNamesResolve`
  (`FinalNamesResolve`), `AllErrorsReported` (`ErrorsExact`) and `EntriesKept`
  (`EntriesStable`, an action property).  All four come from one invariant,
  `ResolutionInv`, which says how far the traversals have come (`Order`: the
  items of a scope are done in order, a scope that was left is done, one that
  was not reached is untouched, everything around the current scope is
  declared), what the tables hold because of it (`Entries`: exactly the first
  declaration of each name that has been entered, under its source name while
  DeclarationCheck is in the scope and under its new name afterwards), and that
  the uses bound and the errors reported so far are exactly those that are due.
  None of it is inductive without the rest: a lookup finds the right entry only
  because the order guarantees that it was entered, and re-keying is harmless
  only because no use in the scope comes after it.  The lookup goes through a
  chain of scopes of any length; instead of an induction, the argument takes the
  deepest scope around the use that has an entry (`Innermost`), and facts about
  all scopes of a tree come from a counterexample of least depth (`Shallowest`);
  both rest on `LeastNat`, the well-foundedness of the naturals.
* `SideEffectsProofs`, from `FunAssumption`.  `SideEffectTypes`,
  `DefiniteAnswers` (`AnswersDefinite`), `MarksSound` (`MarksMatchStack`),
  `YesSound` (`YesMeansEffect`) and `VerdictsStay` (`VerdictsFinal`, an action
  property: every write to the table is of a function that has no verdict).
  The first invariant, `Inv`, adds what keeps an intermediate `PROCESSING` from
  reaching an answer: an effect of an open check can be `PROCESSING` only above
  the bottom of the stack (`Definite`), and only the bottom frame may be a check
  of a single statement (`Shape`).  `YesInv` adds to it that a frame with the
  effect YES, or that stands at a call, belongs to a body that contains what was
  found (`FrameOK`), and that each frame was called by the one below
  (`CalledFrom`), so that an effect found deep in the stack is one of every
  function below.
  There too `NoSound`:
  `Spec => []NoMeansNoneInShortCycles`, for any number of functions: if no cycle
  of calls goes through more than two functions, and no statement has only
  effects that the code does not look for (`Overlooks`), then NO is only said of
  what has no effect.  Both conditions are needed: the counterexamples without
  them are `side_effects_cycle` and `MCSideEffectsArray.cfg`.  `Quiet(b, A)` is
  the largest set of functions of which none has an effect unless one of `A`
  has.  The invariant `NoInv` says that what a frame that has found no effect
  has behind it calls only functions quiet under what it assumed: that its own
  function has no effect and, if its effect is `PROCESSING`, that of the frame
  below has none either (`FrameNone`).  When it returns, the first assumption is
  discharged by the function itself (`QuietCloses`), the second by the frame
  below, which makes the same one.  That nothing else is ever assumed is
  `OnlyCaller`: any other open function that is called would close a cycle of
  the frames between, which are at least three.
* `ForLoopProofs`, about all loops, whatever their bounds.  `BalancedStack`
  (`StackBalanced`): the code leaves nothing on the stack, but for an explicit
  step of 1 or -1, where it leaves one operand for every iteration.  `RunsAsMeant`: the code of every loop for which `AsMeant` holds
  implements `LoopSafety` of `ForLoop`.  `AsMeant` is what the run `for_loop`
  restricts its instance to: the block is dropped only if the loop never runs,
  and a step in a variable is 1 or -1 (see the divergences for the others).  The
  invariant `LoopInv` says for each instruction what is on the stack and in the
  variables (`TestedState` for the shapes that compare, `Calculation` and
  `CountedState` for the one that counts), and that the body has run with start,
  start + step, ... (`InSteps`).  It does not say that the loop goes on as long
  as it should; where the code counts, this is `UnitsCount`: for a step of 1 or
  -1 the quotient is the number of iterations.
* `StackMachineProofs`, for every program with
  `IsProgram(prog) /\ Verified(prog)`: `CodeStaysTyped` (`TypeOK`), `LinksSound`
  (`FramesLinked`) and `ReturnsSound` (`StackBalanced`) are invariants of the
  machine, however deep the calls nest and whatever the values are.  What
  `Verified` says is about places in the code; what the invariants say is about
  frames, of which a run has any number.  The invariant in between, `Inv`, says
  of each frame where it is: the current one stands at `pc`, each other one
  behind the call it waits for (`Place`), its stack has the height of that place
  less what the call owes it (`Owed`), its marks are those of the opened calls
  with the chains that the code noted there, and its chain leads to activations
  of exactly the functions around its own.  The steps that matter are the calls
  and the return, where the place of a frame changes from that of the current
  one to that of a waiting one.  The run `code_gen` checks `IsProgram` and
  `Verified` (`CodeVerified`) for the code of every instance, which is the
  hypothesis of these theorems; they are about `StackMachine!Spec`, of which the
  runs in `SourceRun` are the part behind `Assemble`.
* `CodeGenProofs`, from `SourcesAssumption`, about `GenSpec`, of which
  every run of `SourceRun` is an example: for every program, `LabelsAreOnce`
  (`LabelsOnce`, an action property) and `JumpsAlwaysLand` (`JumpsLand`).  A
  handler does not emit its labels, it puts them between the children of its
  node, so neither property says anything about the state in which a label is
  made.  The invariant `Inv` is therefore about the code and what is left of
  the traversal together.  `Unique`: each label is there once, in one of them,
  and has a number that has been counted, so that one with the next number is
  new.  `Order`: functions come after all that is left of the current one; this
  is what a function must know to be the owner of all that is emitted until the
  next begins.  `Landing`: a branch or jump has its label in the code of its
  function, or it is of the current function and its label is yet to come;
  where the current function ends (`FunStep`), nothing is yet to come.
  `Final`: the functions that are in the code or to come are those whose
  surrounding function has been reached (`Settled`), and the label of such a
  function does not change any more.  A call leads to one of them
  (`CalleeSettled`): the functions reached are closed under going outwards, and
  so hold all that the caller can see.  A function is known by its name in all
  this (`KeyOf`), because the labels of local functions change when the function
  around them is reached.  Each handler puts a `Part` in front, items with
  labels and jumps among themselves; parts are put together (`PartJoined`), and
  `Expanded` says that any part with new labels keeps the invariant, so that
  what remains for a handler is to say what its labels are.
* `ForIteratorProofs`, from `ProgramsAssumption` and `NullAssumption`: for every
  program, however deep its functions and loops nest, `LoopsHaveOwnVars`
  (`LoopVarsOwn`) and `ShadowingIsKept` (`ShadowingKept`).  Both come from one
  invariant, `IteratorInv` (`Iterates`), about what is left of the traversal.
  `FunInv`: the functions on the stack are those around the current one, each
  part of the stack belongs to one of them, and a loop that has not been renamed
  is due exactly once.  With `Counters`, that the loops of a function have taken
  the numbers before its counter, wherever that is saved, a new name differs
  from those of all other loops of the function.  `WorkInv` is about the loops
  whose blocks are being visited: they are nested as they lie on the stack, a
  loop is renamed before those in it and done after them, and what is visited
  again is done.  `NameInv` says what the visits have achieved: the first visit
  of a block leads to all loops in it (`FirstVisit`), in the second a use that
  still has its old name is one that is yet to be visited (`SecondVisit`), and
  a loop that is done has left none (`DoneSettled`).  The step that matters is
  the visit of a use, where the two names are those of the innermost loop at
  work (`CurrentNames`) while `Iterated` means the innermost loop over the name:
  the loops between the two are done (`Between`), so that if one of them had the
  same name the use would have been replaced already.  That one visit is not
  enough is why `SecondVisit` and `DoneSettled` are about the second: in the
  first, a loop within leaves the names cleared behind it.
* `TypeCheckProofs`, from `NullAssumption`, `NodesAssumption` (the grammar) and
  `ProgramsAssumption`.  `StaticsAlwaysSound` (`StaticsSound`): for every
  program, with any errors in it, the assertions about `type` and `anytype` hold.
  That they hold at a node depends on what every handler around it has left, so
  the invariant `StaticsInv` is about all of what is left of the traversal
  (`StaticsKept`).  It tells five modes apart in which the two variables can be
  between two items of `todo`: any type is expected; none, with the type of an
  operand just found, or with no type at all because a name was skipped; some
  type is; a statement is; nothing has been visited.  `Step` says which modes an
  item leads from and to (an expression from any to none, or from a type to a
  type; the end of a cast from none to a type), and `Runs` that the items of
  `todo` lead in such steps from a mode that holds now to the one at the
  beginning.  Every handler replaces the item in front by items that lead to the
  mode behind it, or to one that serves as well (`Serves`: a call that is a
  statement keeps the type void, which is also a type).  The facts about `Runs`
  (`RunsBoth`, `RunsFirst`, `RunsServed`) stand in for an induction over the
  tree.
* `ConstantFoldingProofs`, from `IntMaxAssumption`.  `FoldedIsInt`: whatever is
  folded, the result is an int.  `FoldedOrWarned`: unless the compiler
  warns, the program's value is within the limits and folding gives exactly it.
  `WarnedRightly`: it warns only where the program overflows or divides by zero,
  but for products with a negative right operand.  `NegativeProducts`: for these the
  result is always a limit.  They rest on lemmas about truncating division
  (`QuotientBounds`, `QuotientFits`, `ProductMonotonic`).

Only model-checked: liveness (`ChecksEnd`, `Halts`, and termination
in `ImplementsLexicalScope` and `ImplementsForLoop`, whose safety parts are
proved), that generated code is `Verified`, the properties of `TypeRules` (that the
errors are exactly the violated rules, and the types noted for code generation
right), and those of `ExprRewrite`, `DeadCode`, `Initialisation`, `Preparation`
and `SourceRun`.  Except for `Initialisation`, they go through trees with
recursive operators, out of the prover's reach.

## Not modelled

Scanner, parser and preprocessor (generated code and I/O), the phase driver
(generated by CoCoNut; what its patch does to errors and cycles is in `Scoping`,
`ExprRewrite` and `DeadCode`), printing and `to_string` (output), `FreeSymbols`
(memory).  The virtual machine and the assembler are not part of the
repository; what the code generator uses of them is in `StackMachine` and
`ForLoopCode`.

Parts of modelled components that are left out:

* Branch evaluation: the table of last assigned expressions and the rules for
  if, while and ternary that read it.
* Dead code elimination: arrays, ternaries, globals, the removal of
  declarations and of entries of symbol tables.
* Expression rewriting: floats, boolean arithmetic, comparisons other than
  less-than, calls with arguments.
* Code generation: floats, casts, division and modulo, imported and exported
  variables, the assembly text.

Next would be a module on the table of branch evaluation, arrays and globals in
`DeadCode`, and proofs of `InitInOrder` and `LinkageDims` of `Initialisation`.
