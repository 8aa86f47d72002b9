# A TLA+ development of mquickjs-kmp

mquickjs-kmp embeds the MicroQuickJS engine (`native/mquickjs`, vendored C) in Kotlin
Multiplatform. A C shim (`native/shim`) wraps one engine behind a handle based API, two
bindings (`native/jni` for Android, Kotlin/Native cinterop for Apple) carry it to Kotlin, and
`library/` offers `JsEngine`, `JsRef`, `JsProgram` and the coroutine wrapper `JsRuntime`.

This directory models both sides of that shim. Above it: handles and their ownership, the run
state and its interrupts, the close protocols, the coroutine runtime, program loading and function
registration, as state machines of threads, coroutines and re-entrant calls. Below it: the engine,
from the tokens of a script over its one-pass compiler to the interpreter, and the algorithms the
interpreter stands on: software floats, floats and text, regular expressions, strings, property
tables, arrays, and the compacting collector.

## Inventory

| Part | State it keeps | Operations | Talks to |
|---|---|---|---|
| ref table (`mquickjs_kmp.c` 38-332) | slots (count, generation, free link, GC root), free list, root list | slot_new, slot_reserve, slot_free, retain, release, destroy | VM GC list, host calls, Kotlin `JsRef` |
| run state (`mquickjs_kmp.c` 197-201, 398-416) | `state` IDLE / RUNNING / INTERRUPTED | run_begin, run_end, interrupt, interrupt handler | VM poll, other threads |
| evaluation and ref operations (422-860) | out buffers, GC-rooted temporaries | eval, ref_get/set/call/to_json, value conversion, exception_to_out | VM, host callbacks (re-entrant) |
| host calls (`js_kmp_host`, `JsEngine.onHostCall`) | converted arguments, transient refs | convert, call, convert back, release | Kotlin host functions, ref table |
| bytecode (866-1067, `JsProgram`) | loaded block list, ROM atom tables | compile, load, run | VM atom tables, ref table |
| `JsEngine` / `JsRef` (Kotlin) | closed flag, in-flight interrupts, function list; per-ref closed flag | evaluate, registerFunction, interrupt, close, retain | binding, shim |
| `JsRuntime` (Kotlin) | mutex, closed, pendingClose | withEngine, evaluate, shutdown, close | coroutines, watchdog, `JsEngine` |
| conversions (`Wtf8.kt`, numbers, JSON) | none | encode, decode | both bindings |
| bindings (JNI, cinterop) | engine pointer, stable refs | marshalling only | shim, Kotlin |
| engine: compiler (`mquickjs.c` 7160-11790) | one parser state: tokens, code, variables, break stack | next_token, js_parse_*, emit_*, compute_stack_size, resolve_var_refs | interpreter, regexp compiler |
| engine: interpreter (`JS_Call`, 4960-6570) | frames, JSVarRefs, exception, poll counter | one case per opcode, calls, unwinding | heap, properties, host |
| engine: numbers (`softfp_template*.h`, `dtoa.c`, `libm.c`) | none | add, mul, div, sqrt, fma, rem, conversions, js_dtoa, js_atod | interpreter, stdlib |
| engine: regular expressions (15900-18366) | pattern code, lastIndex, saved states | js_compile_regexp, lre_exec, exec, match, replace, split | strings |
| engine: strings (1050-1900, 13400-14100) | WTF-8 bytes, position cache | positions, substring, comparison, String.prototype | heap |
| engine: objects and arrays (2200-3900, 14100-14940) | property array with hash chains, value arrays | find, define, delete, compact, rehash, Array.prototype | heap, ROM tables |
| engine: heap (500-800, 12000-12480) | blocks, mark stack, root lists, weak tables | alloc, free, mark, thread, compact | everything |
| stdlib tables, kmpjsc, command line host, build | none | table layout, file and terminal I/O | engine |

### What is hard in this code, and what makes each part correct

- **Ref table.** A long sequence of takes, releases and failed allocations must keep three
  overlapping structures in agreement: the free list threaded through the slots, the engine's
  intrusive GC root list, and the counts and generations behind handles the host still holds. It
  is correct when the root list is exactly the live slots, the free list exactly the dead ones,
  and a handle resolves to the object it was issued for or to nothing.
- **Run state.** One atomic is shared by nested runs, by interrupts from any thread and by the
  interpreter's poll; script also runs where the shim has not said so (the setter and the error
  report of a registration, the report of a refused load). It is correct when the engine is idle
  exactly between outermost guarded runs, when an interrupt is neither carried over to a later run
  nor dropped by a nested one, and when the run it stops fails whatever the script catches.
- **Host calls and ownership.** Script calls host calls script; each crossing makes and takes
  back references, conversions may fail midway, and the same count is changed from Kotlin
  (`retain`, `close`) and from C (`js_kmp_host`). It is correct when every open `JsRef` has a
  live handle, the counts are exactly the closes still owed, and an argument ends with its call.
- **Interrupt against close.** `interrupt` dereferences, from any thread, what `close` frees. It
  is correct when nothing freed is used, the engine is freed once, and close does not hang.
- **JsRuntime.** Cancellation, timeouts and closing arrive at any point of a call that holds a
  mutex, runs a watchdog and blocks a dispatcher thread in native code. It is correct when access
  is exclusive, no block meets a closed engine, an interrupt hits only the call it was meant for
  and is reported as a cancellation, and calls, closes and shutdowns end.
- **Bytecode.** `JS_LoadBytecode` cannot be undone; everything that can fail must come first, and
  the block must outlive everything that points into it.
- **Registration.** A registration may run a setter, and the report of its failure a toString or a
  getter, either of which may register more, before it takes its function back. It is correct when the number of a native function always leads to
  the function it was made for and nothing is left over or missing.
- **Conversions.** Surrogates, negative zero, the borders of int32, of short integers and floats
  and of exact integers. They are correct when a value that crosses comes back as it went.
- **Compiler and interpreter.** Code is emitted while the text is read, without a syntax tree:
  jumps out of finally blocks and for-in loops must drop what those keep on the stack, variables
  of outer functions are found after the inner function was compiled, and the size of the stack
  is computed by exploring the code. They are correct when a program does what the language says,
  the stack of each frame is as deep at each instruction as the exploration found, a captured
  variable is one cell as long as its frame lives, and an interrupt ends a script whatever it
  catches.
- **Floats and text.** Rounding, ties, subnormals and overflow in hand-written arithmetic;
  printing rounds to fewer and fewer digits in limbs of 32 bits, reading multiplies by powers with
  a bounded number of extra bits. They are correct when every operation is the exact result
  rounded once, and the shortest text of a float reads back as that float.
- **Regular expressions.** Captures are undone by a stack of saved states that lookaheads cut
  short, loops check for empty iterations, and the methods search again with a lastIndex that
  counts other units than the matcher. They are correct when they find the first match in the
  order of the language.
- **Strings.** Positions count UTF-16 units in WTF-8 bytes; a cache keyed by address remembers
  positions. They are correct when a string behaves as its sequence of units whatever was asked
  before.
- **Property tables and arrays.** Deletion leaves free slots, compaction and rehash move them, the
  collector changes the hashes of keys that move, and callbacks change an array while a method
  walks it. They are correct when a table is the list of its properties in order and an array the
  sequence of its values.
- **Heap.** The mark stack is bounded and overflows, weak references are forgotten, and compaction
  threads every pointer through the block it points to. It is correct when exactly what the roots
  reach survives, in order, with every pointer following.

`PROJECT.json` lists these as hazards, each at its line, with the properties that cover it.

### Plan

Modules in the order of their importance. The state machines come first: what they are about
needs several threads, coroutines or nested calls to go wrong. The engine's algorithms follow, each
with a reference definition it is compared with.

| Module | Uses | What it is for | State |
|---|---|---|---|
| `RefTable` | | slots, free list, root list, generations | checked, proved |
| `Refs`, `RefTableRefs` | `RefTable`, INSTANCE `Refs` | the abstract store of references, and the slot table as its implementation | checked, proved |
| `RunState` | | nested runs, interrupts, polls, unwinding | checked, proved (safety) |
| `InterruptClose` | | the lock-free protocol of interrupt and close | checked, proved (safety) |
| `JsRuntime` | | coroutines, mutex, watchdog, shutdown, close | checked, proved (safety) |
| `JsRefs` | INSTANCE `Refs` | host calls and the ownership of references | checked, proved |
| `HostFunctions` | | registerFunction, numbers, rollback, setters that re-enter | checked, proved |
| `Bytecode` | | relocation, loading, one program per engine, atoms, life of the blocks | checked and proved in `EngineSetup` |
| `EngineSetup` | INSTANCE `HostFunctions`, `Bytecode` | registering and loading in any order on one engine | checked, proved |
| `Lexer`, `Emitter`, `Parser`, `Compiler` | each the one before | the one-pass compiler | checked by `machine` and, tokens alone, by `algorithms` |
| `Values`, `Machine` | | the interpreter | checked, proved (captured variables, interrupts, operand stacks, prototype chains) |
| `ControlFlow`, `MCMachine` | `Lexer`; `Machine`, INSTANCE `Compiler` | what statements mean, and the programs | the reference |
| `SoftFloat`, `SoftFloatCvt`, `Numbers` | each the one before | software floats, and how values hold numbers | checked |
| `Dtoa` | `Numbers` | floats to text and back | checked |
| `Regexp`, `RegexpLanguage` | `Lexer` | the pattern compiler and matcher, and what patterns mean | checked |
| `RegexpApi`, `RegexpApiLaw` | `Strings`, `Regexp` | exec, test, search, match, replace, split | checked |
| `Strings`, `StringsLaw`, `Wtf8` | each the one before | strings as units, the position cache, the codecs | checked |
| `PropertyTable` | | property tables and ROM tables | checked |
| `Arrays`, `ArraysLaw` | | arrays and their methods | checked |
| `Heap`, `HeapLaw` | | allocation and collection | checked |

Abstract specifications: `Refs` for the table of references; `ControlFlow` for compiler and
interpreter; `RegexpLanguage` for the matcher; the sequence of units, the list of properties and
the sequence of values for strings, tables and arrays; the graph of objects for the heap; exact
rational numbers for floats. Left of the plan: a lock that is exclusive and hands over, which
`JsRuntime` implements; the shared out buffer under re-entrant conversions; the engine's JSON reader
and writer; typed arrays.

# The modules

A variable or action has the name of what it models where TLA+ allows it; otherwise the comment
above it names the code. `PROJECT.json` maps each definition to its lines.

### RefTable

`slotCount`, `slotCap`, `freeHead` are the fields of `kmpjs_engine`, `refcount`, `gen`,
`nextFree`, `val` those of a `kmp_slot`; `links` counts how often a slot is linked into the VM's
root list, which `JS_AddGCRef` and `JS_DeleteGCRef` change. Slots are numbered from 1, so 0 plays
the part of -1. An action is one native call: `SlotNew` (slot_new, from the free list, by growing
the array, or failing in `realloc` or `calloc`), `SlotReserve`, `LoadRejected` and `LoadNew` (the
three parts of kmpjs_load_bytecode that touch the table; nothing else can run between them),
`Retain`, `Release` with `slot_free`, and `Destroy`. `JS_DeleteGCRef` aborts the process when the
slot is not in the list; the model has a phase for that and shows it is never reached. `issued`
and `wrapped` are history.

### Refs and RefTableRefs

`Refs` is what the host may rely on: `live`, the live handles with their object and number of
owners, and `used`, the handles issued so far. `RefTableRefs` maps the slot table to it: a handle
is live when its slot is in use under its generation. The refinement is that of `SpecUnwrapped`,
whose steps wrap no generation: after 2^32 releases of one slot an old handle is accepted again,
so without that restriction the claim is false.

### RunState

A run is one native call that may execute script. Runs nest: the host function a script calls may
start another one. All of them share `state`. `kmpjs_eval`, `kmpjs_ref_*` and `kmpjs_run_program`
(`Begin`) are *guarded*: they are in run_begin and run_end. `kmpjs_define_function`, whose
`JS_SetPropertyStr` may call a setter (`Define`), and the refused load, which reports its exception
(`RefuseLoad`), execute script without run_begin; outside of any other run the state is IDLE
meanwhile and an interrupt is dropped.

A guarded run goes through script and conversion, a failed one through the report, which has two
parts, toString and then the getter of "stack", also when toString throws (`AfterToString`). Each may
execute script. `Branch` is a branch point of the interpreter, where the counter runs down and the
interrupt is polled; `Throw`, `Catch` and `StageFails` are the unwinding, in which catch clauses are
skipped for the uncatchable interruption; `HostEnds` turns whatever a host function throws into an
ordinary error. `Compare` enters and leaves the comparison of `Array.prototype.sort`, and
`SwallowedBySort` is `js_array_sort_cmp` taking JS_EXCEPTION for an order: whatever was thrown in the
comparison, the interruption included, is gone.

So the properties say what is left of README.md:51, "`engine.interrupt()` [...] stops the running
script". `StateTracksRuns` is about guarded runs. `StoppedRunThrows` is about a run that a poll
outside of a comparison has interrupted. `InnermostStops` says that an interrupted run at the
greatest depth ends unless it comes back to comparisons of a sort for ever, as
`for(;;)[2,1].sort(function(){for(;;);})` does.

### InterruptClose

Each Kotlin atomic operation and each access to the native pointer of
`interrupt`, `close`, `NativeEngine.interrupt` and `NativeEngine.close` is a step of its thread.
Kotlin's atomics are sequentially consistent, and only the thread that won the claim writes the
pointer, so interleaving is enough.

### JsRuntime

Each coroutine has a place `pc` in withEngine, shutdown or close; each caller also has a watchdog.
The run state is that of `RunState` without nesting, and interrupt and close of the engine are
single steps, which `InterruptClose` justifies. kotlinx.coroutines is external: a mutex that is
handed over to a waiter, prompt cancellation of suspended callers, a scope that waits for its
children, a child that never starts once it was cancelled. `Endless` lets scripts run for ever. Where
it is FALSE every script ends by itself, so what is shown of calls and closes does not rest on an
interrupt that a sort might swallow.

### JsRefs

`refs` are the Kotlin JsRef objects (handle, closed flag, and whether they stand for an
argument), `live` and `used` the store of `Refs`, `stack` what is being executed: scripts, and
host calls, each with the handles `js_kmp_host` has made for its arguments. `ConvertArg`,
`ConversionFails`, `CallHost`, `HostReturns`, `ReleaseArg` and `HostCallEnds` are the parts of
`js_kmp_host` and `onHostCall` between which other code runs or a failure is possible. The
operations of a JsRef (`RefGet`, `RefSet`, `RefCall`, `RefToJson`) check what the code checks and
enter script, which may call the host again. Refused operations change nothing and are left out,
and so are arguments that are passed to a call, which are checked and read only. A JsProgram owns
its handle in the same way. `CloseArgs` says whether host functions close the JsRefs of their
arguments.

### HostFunctions

`functions` is the list of JsEngine, `natives` the native functions script can call, each with its
number and, as history, the Kotlin function and the name it was made for, and `exposed` those
whose registration returned normally. `stack` holds evaluations, host calls, and registrations in
which script runs. `Register`, `RegisterOverSetter` and `RegisterFails` are registerFunction up to
the first script: with nothing in its way, with a setter under the name, which `JS_SetPropertyStr`
calls, and without memory. A setter ends with `SetterReturns` or `SetterThrows`. A failure does not
end the registration: `exception_to_out` reports it first, and toString and the getter of "stack" may
call the host, before the JsException makes Kotlin take the function back (`ReportEnds`). The report
of what a setter threw may still lead to the function (`HasFunction`). The same lambda registered
twice counts as two functions. `Reckless` says whether a registration may fail although script kept
its function or another function was registered before its rollback; when FALSE it fails only if
neither happened.

### Bytecode

An atom is the one string object that stands for a name; the VM compares names by its address. `tables`
is `rom_atom_tables`, `ram` the atoms in the heap, `held` what code and objects point to, `heap` and
`blocks` the memory of programs and the list that owns it. `Load` is kmpjs_load_bytecode when all goes
well, `LoadRejected` when anything fails, `Intern` is `JS_MakeUniqueString`, `Collect` the collector. A
file of another word size or commit has `own = FALSE`. The slot a load takes is in `RefTable`. Compiling
(`kmpjs_compile`), the 31-bit packing of offsets and the error message of a rejected load, which converts
an exception to text, are not modelled.

### EngineSetup

The two side by side on one engine: registering a function makes a name in RAM, which forbids
loading; a setter makes one too; a program runs as an evaluation does and may call what was
registered; the host loads from within host calls.

### Lexer, Emitter, Parser, Compiler

The engine compiles while it reads, and so do these modules: `s` is the parser's state, each
operator is a C function from one state to the next, and an error (a longjmp in C) is a state at
the end of the input. The text is split into tokens beforehand, which the code does on demand with
the same outcome: whether a slash begins a regular expression depends on the token before
(`is_regexp_allowed`). Positions in the code are instructions, not bytes, so the short forms of
an opcode are one. `brk` is the stack of what a break, continue or return leaves, `ret` the hidden
variable that holds the value of a program. `Compiler` has the passes over a function's code:
`compute_stack_size`, which explores it, and `resolve_var_refs`, which finds the variables of
outer functions. Line numbers and the wording of errors are left out.

### Values, Machine, ControlFlow, MCMachine

One step of `Machine` runs one instruction of the function on top: the action for an opcode, or a
group of them, is its case in `JS_Call`. `frames` is the stack of calls, each with its `flags`
(constructor call, POP_RET) and `refs`, the cells of its variables; `cells` are the JSVarRefs,
attached to a slot of a frame as long as it lives, each under the address of the closure it was
made for and the variable; `globals` are the cells of global variables. `exc` and `uncatchable` are
the exception on its way, `status` how far the program is. Objects are lists of properties, as
`PropertyTable` shows tables to be, and nothing is collected, as `Heap` keeps what is reached.
Getters, setters and functions called by the code are frames of the same machine. Numbers are small
integers and NaN: `Numbers` and `SoftFloat` are about the others, and `Values` has the bitwise
operators on two's complement. `Interrupt` is the poll of the host's interrupt, at jumps, calls and
accesses that call an accessor (the poll at 5374, reached by the tail call at 5587); it may come on
any of them.

Two variables are there because the code differs from the language. `val` says whether the local
variable of that name in `JS_Call` holds a string of one character: OP_get_length (5938) looks at it
where it means the object, and so does `GetLength`. `flagsLost` is set by a tail call of a C function,
whose caller's flags `JS_Call` drops (5477): from there on the stack is not what was compiled for, and
the model ends (`LoseFlags`). An instruction that calls a setter, or the getter of an element, whose
function is `Function.prototype.call` gets there. The properties about stacks, references and
termination hold up to that call and say so.

The interpreter trusts the code: `JS_Call` looks neither at how deep the stack is nor at what lies
on it, but for `ret`, which wants an integer. What the code must be like for that is `ShapesKept`:
for each instruction there is a shape of the operand stack, a kind for each place (any value, an
object that a literal or a loop made, a catch offset, the return address of the finally block at a
label), such that the operands are there and of the right kinds, the variables and functions an
instruction names exist, and wherever control may go next (`Successors`: on, at the target of a
jump, after each gosub of the finally block that returns, at each handler on the stack) the
instruction leaves a stack of the shape there. Where `compute_stack_size` explored, the shape has
the depth it found. The compiler promises no more than the depths; the rest is how `js_parse_statement`
and `js_parse_postfix_expr` emit code. So it is an assumption of `Machine` about
`CodeOf`, with `ShapeOf` as its witness: `MCMachine` computes the shapes from the compiled code
(`ShapeFrom`, the exploration with kinds for depths) and TLC checks the assumption for each of the
1215 programs before the run begins.

`ControlFlow` gives each statement a text and a meaning, a function from a counter and a log to
completions. `MCMachine` compiles and runs 1183 programs made of them (a statement of every one of
13 kinds in one of every kind in a loop, around 7 ways of leaving), and 32 written by hand about
closures, accessors, prototypes, constructors, arguments, conversions and hoisting, two of
which may be interrupted anywhere. Five of the 32 are `Departing`: they do not do what the language
says, two because of `val` and three because of lost flags. `AsTheLanguageSays` demands of these that
they depart exactly as listed, and of all others that they do not.

### SoftFloat, SoftFloatCvt, Numbers

A float is the number of its bit pattern and the code of `softfp_template.h` depends on nothing but
the widths of mantissa and exponent, so the model takes the same parameters and small formats stand
for double. `BinaryLaw`, `UnaryLaw` and the others compare with exact rationals rounded once.
`Numbers` has the three ways in which a value holds a number (short integer, short float, float in
the heap), the crossing to Kotlin and back, and ToInt32.

### Dtoa

`js_dtoa` and `js_atod` on limbs, with the tables computed as `build_tables` computes them for the
parameters, and the functions of mquickjs.c that call them, from `Number(text)` to `toFixed`.
`TextLaw`: what is written reads back, in every radix and notation, within the length set aside.
`ShortestLaw`: no shorter text reads as the float, except next to a power of two. `CutsLaw`: what
is cut to some digits is rounded half away from zero. `ReadLaw`, `DottedLaw`, `ParseIntLaw`: what
is read is the nearest float of the digits that are kept. `NameLaw`: a name is taken for a number
when it is how that number is written.

### Regexp, RegexpLanguage, RegexpApi, RegexpApiLaw

`Regexp` compiles a pattern's text to code with the stack of the C parser and runs the code with
the stack of saved states. `RegexpLanguage` is the meaning of a pattern as all its outcomes in the
order in which they are tried; both must agree on whether there is a match and on every capture.
`RegexpApi` is RegExp.prototype and the string methods over it, `RegexpApiLaw` the algorithms of
the language for them.

### Strings, StringsLaw, Wtf8

A string is the sequence of its code points, as the bytes of the code are; positions in bytes and
in units are converted as the code does, through the cache of positions of long strings.
`StringsLaw` says what each operation is on the sequence of UTF-16 units. `Wtf8` has both codecs,
Kotlin's and the engine's, on bytes.

### PropertyTable, Arrays, ArraysLaw

`PropertyTable` is the array of cells with its hash chains and free list, `Arrays` an array's
length and room with the methods of Array.prototype, whose callbacks may change the array between
any two calls. Their references are the ordered list of properties and the sequence of values.

### Heap, HeapLaw

Memory is words; a block has a header and values, according to its type, that may be pointers.
`JS_GC` marks with the bounded stack, sweeps, forgets what only weak tables refer to, and compacts
by threading. `GcLaw`: what the roots reach, and nothing else, is there afterwards, in order, with
its contents and every pointer following. `Represents`: a program that allocates, stores, lets go
and collects sees the graph of its objects.

### MCAlgorithms

A state is one sample of one part (`floats`, `texts`, `tokens`, `regexp`, `strings`, `tables`,
`arrays`, `heap`), and the part's law is evaluated in it. Tables, arrays and heaps also take steps,
so that what a long sequence of operations leaves behind is compared as well.

## The runs

| Run | Checks | Instance |
|---|---|---|
| `ref_table` | `HandleNamesItsObject`, `NoResurrection`, `RootsAreLiveSlots`, `CleanTeardown`, `FreeListExact`, `ReservationHolds`, `ImplementsStore` | 2 objects, 3 slots, first capacity 1, so the array grows twice; 3 generations each, none wrapping; counts to 2 |
| `run_state` | `StateTracksRuns`, `NoStaleInterrupt`, `InterruptKept`, `StoppedRunThrows`, `InnermostStops` | runs nested 2 deep, registrations, refused loads and sorts, a poll every 2 branches |
| `run_state_nested` | `InterruptedStops`, violated | guarded runs 2 deep, no sorts, a poll every 4 branches |
| `interrupt_close` | `NoUseAfterFree`, `FreedOnce`, `CloseCompletes` | 3 interrupting, 2 closing threads, 2 calls each |
| `runtime` | `Exclusive`, `NoUseAfterClose`, `OnlyAskedInterrupts`, `InterruptSeenAsCancellation`, `EveryCallReturns`, `CloseCompletes`, `ShutdownCompletes` | 2 callers, 1 shutdown, 1 close, scripts that end |
| `runtime_cancel` | `CancelledCallReturns`, violated | 1 caller, endless scripts |
| `js_refs` | `OpenRefsResolve`, `CountsAreOwed`, `ArgsEndWithTheCall` | 3 handles, 5 JsRefs, script and host calls nested 4 deep, 2 arguments |
| `js_refs_close_arg` | `OpenRefsResolve`, violated | as above, smaller, with `CloseArgs` |
| `engine_setup` | `TypeOK`, `NumbersStay`, `NoneLeftBehind`, `FoundAgain`, `BlocksAreKept` | 3 functions, 2 global names, calls nested 4 deep; 3 names, one of them in the stdlib; 2 programs and a foreign file, 2 blocks; no reckless setter |
| `functions_rollback` | `ExposedIsCalled`, violated | 3 functions, 2 names, 3 deep, reckless setters |
| `machine` | `AsTheLanguageSays`, `StackAsExplored`, `CapturedOnce`, `InterruptUnwinds`, `Terminates` | the 1215 programs of `MCMachine` |
| `algorithms` | `FloatsAgree`, `TokensComeBack`, `RegexpAgrees`, `StringsAgree`, `ObjectsAgree` | the samples of `MCAlgorithms` |

**Bounds of the state machines.** `MaxSlots` stands for INT32_MAX and `GenMod` for 2^32: two slots
suffice for one to be reused while the other is live, three for a free list with a middle and an
array that doubles twice, and the theorems hold for all values. `MaxCount`, `MaxCalls`, `MaxRuns`,
`MaxRefs` and `MaxDepth` cap what the code leaves open, each in one guard. Depth 2 in `RunState`
has a guarded run in another, in a registration and around one; the theorems about its safety
hold for all depths. Depth 4 in `JsRefs` has a host call inside a
host call, in `HostFunctions` a registration inside a host call inside the setter or the report of another. Three
functions are one that fails, one registered meanwhile and one that takes the freed number.
`PollEvery` is JS_INTERRUPT_COUNTER_INIT; what matters is whether a run polls on its first branches
or later. Symmetry is used for safety only, over objects, handles and coroutines that nothing tells
apart. Deadlock is not checked where a destroyed engine, finished threads, a closed runtime or a
sample without steps have nothing left to do.

**Bounds of the algorithms.** A float has 5 bits of exponent and 4 of mantissa for arithmetic, 6
and 4 for the ways of holding a number (Long of 10 bits, int32 of 5), 5 and 5 against 4 and 1 for
conversions: subnormals, ties, overflow and the rotation of short floats are all there. Operands
lie on both sides of each boundary of the format, in all rounding modes. Text uses all floats of
6/4 and 4/3, limbs of 8 bits, 16 and 12 bits of kept digits and an int of 16 bits, so that
mantissas have several limbs, digits are dropped and exponents overflow; the texts read are all
short ones over the characters that matter, and longer ones with dots, exponents and separators.
Patterns are 1000 of ten shapes that put each quantifier around and inside of groups, choices,
lookaheads and back references, on 8 subjects; 12 patterns with 5 sets of flags go through the
methods. An array of matches has at most 9 elements (`MATCHES_MAX`; a full heap in C). Strings have
up to 3 characters over ASCII, both halves of a surrogate pair, the pair and a character above;
the cache has 2 places (`JS_STRING_POS_CACHE_SIZE`) for strings of 7 bytes or more, and a string
at most `JS_STRING_LEN_MAX` bytes. WTF-8 runs over all texts of 3 units drawn from the 12 edges of
its ranges. Tables are set, deleted from and collected (which changes the hashes) any
number of times over three names, from the empty table and from one with room; runs of
4 or 5 steps, accessors, declarations and assignments among them, start from empty, global, ROM
and filled tables. Arrays take any 5 steps from empty, with
`JS_SHORTINT_MAX` 9 and `JS_VALUE_ARRAY_SIZE_MAX` 7, so that both limits are met. Heaps are 1000
graphs of five blocks with a mark stack of 2, 3 or 64 words, and all programs of 5 steps in 12
words, which run out of memory.

**What the laws leave apart.** Where the code is known to differ from the language, the law says
so in a named condition, and holds of everything else: `IsPowerOfTwo` in `ShortestLaw`, `Apart` in
`ReadLaw`, texts of one character in `ParseIntLaw`; `FoundAtEnd` and `SetAgain` in `RegexpApiLaw`;
`Alone` in `HeapLaw`. `SortLaw` does not say whether a sort fails whose comparison throws: it must, and
it does not. It only says of such a sort that every value is still there. "Where the engine differs"
lists them.

Two departures are stated instead. In `RegexpLanguage` a capture that the reset of an iteration sets to
0 is `Emptied`, not unset, just where the code resets it: such a capture comes back as "" where the
language says undefined. The pattern of `tests/test_builtin.js:704-705` is one of the samples; that
test expects undefined, and its comparison by `toString` does not notice. In `MCMachine` the programs
that depart are listed with what they do.

**Fairness.** `RunState`: script that goes on executing keeps reaching branch points and a host
function returns (strong fairness, since other steps of the run come between), unwinding goes on;
nothing obliges script to end. `InterruptClose`: every thread that has begun goes on; nobody is
obliged to call. `JsRuntime`: dispatchers run what is dispatched, and a coroutine that can go on
does; `Enter`, `Cancel` and `Claim` are not fair, and where `Endless` is TRUE nothing ends a
script but an interrupt. `Machine`: the interpreter's loop does not rest once a program is parsed
(weak fairness of `Execute`), and the interrupt is not obliged to come. All of it is what
operating system threads, kotlinx dispatchers and a C loop give.

## What the runs found

- `run_state_nested`: "an interrupt is never lost" (`mquickjs_kmp.c:404`) does not hold of nested
  runs. The interruption of a nested run reaches the outer script as an ordinary error, the shared
  poll counter has been reset, and an outer script that catches the error and calls again can go
  on for ever, although the state stays INTERRUPTED.
- `runtime_cancel`: the watchdog interrupts once. When that comes before the block has entered the
  engine nothing is interrupted, and a script that does not end by itself then holds the call for
  ever. The same holds of a block that makes several engine calls and catches the failure of the
  first, since one interrupt stops one, and of shutdown, which interrupts once as well.
- `js_refs_close_arg`: `close` on the JsRef of a host function's argument releases the count that
  `js_kmp_host` releases again, at the expense of a copy the host had retained.
- `functions_rollback`: a registration that fails removes the last function of the list
  (`JsEngine.kt:69`), which need not be its own: script may run before that, in the setter it has
  defined under the name or in toString and the getter of "stack" while the failure is reported, and
  lead to another registration. The function registered meanwhile is gone, and its number leads to
  the next one registered.

Read, but not shown by a run: `invoke` does not look at the closed flag of its `thisArg`
(`JsRef.kt:46`), where a closed argument is refused.

### Where the engine differs

Translating the engine showed where its code does not do what the language or its own comments
say. No property claims the opposite: where a law would, it leaves the case apart or states what the
code does instead, as the section on the runs says. Lines are those of
`mquickjs.c` unless another file is named.

Compiler and interpreter:

- `compute_stack_size` (11376) does not follow the target of OP_catch, so the size of a stack that
  only grows in a handler is too small, against the comment at 369.
- OP_get_length (5938) tests `val`, left by an earlier instruction, instead of its object: a number has
  the length 1 after a character was read (`GetLength`, `Departing`).
- A tail call from a C function drops its caller's POP_RET and constructor flags (5477, "XXX: handle the
  call flags of the caller ?"), so that a setter that is `call` leaves a value on the stack (`LoseFlags`).
- `x **= y` is a syntax error (10048), a catch variable cannot have the name of another variable of
  the function, and a function statement in a block is compiled as an expression and dropped.
- A regular expression is not recognised after `do` and `case`, and a line feed in a block comment
  is no line terminator.
- `JS_HasProperty` ignores the elements of arrays: `"0" in [1]` is false.

Numbers:

- `js_dtoa` (dtoa.c 1194-1240) misses the shortest text next to some powers of two:
  `Math.pow(2,-44)` prints 5.6843418860808015e-14.
- `js_atod1` (4241-4249) takes a text of one character apart: `Number(" ")` is NaN while two spaces
  are 0, `parseInt("a",16)` is NaN, `parseInt("9",8)` is 9.
- `js_atod` accepts a dot and an exponent after a prefix (`0x1p3` is 8), a sign before it
  (`Number("-0x10")` is -16), takes the dot of `0x10.toString()`, and `parseFloat("1e")` is NaN; the
  JSON reader accepts `-Infinity`.
- Exponents beyond int overflow (dtoa.c 1571-1585): `Number("12345678901e2147483639")` is 0.
- `js_is_numeric_string("-0")` is false. `js_dtoa_max_len` in the fractional format counts neither
  an exponent nor -0, a combination nobody asks for.
- Kotlin's `toJsonPrimitive` turns -0.0 into 0 (`JsValueSerialization.kt:52`).

Regular expressions and strings:

- REOP_save_reset (17348-17362) resets captures to 0, not to undefined, against
  `tests/test_builtin.js:704-705` (`Emptied`).
- `match` with g on an empty match does not advance and fills the memory (18309-18360); `replace`
  with g keeps captures of an earlier match; `split` finds an empty match at the end and does not
  look at its limit while it adds captures.
- `exec` clamps a lastIndex behind the end, a failing search resets lastIndex, `split` changes it,
  and in a template `$10` with one group is literal.
- `js_string_concat_subst` reads a template byte by byte: a character of two bytes right after `$`
  breaks. `js_string_compare` orders a lone left surrogate wrongly against a pair with that lead.

Arrays and heap:

- `js_array_indexOf` (14419) takes a start of -1, the last index, for "none" in `lastIndexOf`, and
  `reduceRight` (14683) ends at the first index the array no longer has.
- `splice` (14502) throws a TypeError when converting its arguments changed the array's length:
  "handling this case has no practical use".
- `js_array_sort_cmp` (14811) returns JS_EXCEPTION, a number, when the comparison function throws, and
  leaves `s->exception` alone, against its comment ("return -1, 0, 1", 14783) and `js_array_sort`,
  which would fail (14922). So `sort` goes on and the interruption of the host is lost as well
  (`SwallowedBySort`; `Compare` in `Arrays`): README.md:51 does not hold of such a script.
- A dead object with a finalizer that lies behind another dead block is merged into it without its
  finalizer being called (12190-12206).

## What is proved

tlapm checks every theorem from nothing, for every value of the constants that satisfies the ASSUME of
the module. Those say that bounds are natural numbers, that the sets of threads are disjoint and that
special values are not ordinary ones; `EvalCapturesGlobals` and `ShapesKept` are the only ones about what
the code does, both about what the compiler hands to the interpreter. A property is seldom inductive.
Each module of proofs starts from an invariant `IInv` that is (TLC has checked it on the instance of the
run), shows that every action keeps it, one lemma an action, and draws its theorems from it.

- `RefTable_proofs`: `Typing`, `RootList`, `Teardown`, `HandlesAreSafe`, `DeadStaysDead`,
  `Reservation`, `NoSlotIsLost`. Whether slot_new takes a live slot depends on the free list. The
  invariant adds that the list is sound (the head and the successor of each free slot are free,
  and no two free slots share a successor), that slots beyond the count were never touched, and
  that each issued handle lies in the past of its slot's generation, strictly so once the slot is
  free. That is enough for safety, but not for the list to be complete. `FreeListExact` says that
  there is an order of all free slots that the list follows to its end; it is inductive on top of
  the invariant, as taking a slot drops the first of that order and freeing one puts it in front.
  `TableIsStore` is the refinement of `Refs`: a slot that is taken has a generation no issued
  handle carries, so its handle is new; a step on one slot leaves every other handle's slot, count
  and object alone; growing, reserving and failing allocations are stuttering.
- `JsRefs_proofs`: `Typing`, `EveryCountIsOwed`, `OpenRefsAreLive`, `ArgumentsExpire`, and
  `HostUsesStore`: all that host and script do to the store are operations of `Refs`. The
  properties look at the moments when the host runs; in between, the count of a handle is one more
  than its open JsRefs while `js_kmp_host` holds it for a call that is prepared or wound up, and
  the invariant counts that hold (`Counted`). While a callback runs the hold stands for the JsRef
  of the argument, so the handles of a host call and its arguments are one to one (`ArgsAreIds`,
  `IdsDiffer`), calls share no argument (`ArgsDiffer`), and only the innermost call is pending
  (`OnlyTopIsPending`). The hypothesis is `CloseArgs = FALSE`; without it the run
  `js_refs_close_arg` refutes the same claims.
- `RunState_proofs`: `Typing`, `IdleBetweenRuns`, `InterruptsAreFresh`, `InterruptSurvives`,
  `StoppedIsReported`. The invariant adds that no run is left above the depth, that the engine is
  INTERRUPTED only if the runs in progress were hit, that all runs but the deepest are in a host
  function and nothing unwinds there, and that a stopped run is unwinding, outside of any sort, or
  reporting. Registrations, refused loads and sorts are among what is proved about.
- `InterruptClose_proofs`: `InterruptIsSafe`, `EngineFreedOnce`. The invariant ties the counter to
  the number of threads between increment and decrement, and says that once the winner of the
  claim has seen zero, whoever announces itself afterwards finds closed set.
- `JsRuntime_proofs`: `Typing`, `ExclusiveAccess`, `NeverUsedClosed`, `InterruptsAreAsked`,
  `CancellationReported`. The invariant says who holds the mutex at each place, that pendingClose
  and engineClosed follow closed, and that a watchdog that still can interrupt belongs to a caller
  that is still inside and was cancelled or has set done.
- `HostFunctions_proofs`: `Typing`, `NumbersNeverChange`, `NothingIsLeftBehind`, under the
  hypothesis that `Reckless` is FALSE: a registration fails only if by the time of its rollback
  script has neither kept its function nor registered another. The invariant adds that a function belongs to one native
  function, that a registration in progress is not yet exposed, and that no two frames of the
  stack stand for the same one; so what a rollback takes away is referred to by nobody else.
- `EngineSetup_proofs`: the same theorems for an engine that loads programs as well (each step of
  `EngineSetup` is one of `HostFunctions` or leaves its variables alone), and, whatever setters do,
  `NamesAreFoundAgain` and `BytecodeStays`. A name is found by looking through the ROM tables,
  then RAM. The invariant says that the stdlib's table comes first, that a program's table, if
  there is one, is the second and was made by looking each name up in the first (`ProgramTable`),
  so that no text is in both, that RAM holds no text of a table (`RamOutside`), and that whatever
  is held is what a lookup of its text gives (`HeldFound`). `Load` keeps it because nothing may be
  in RAM, and blocks are listed once each (`BlocksListed`) until the engine goes.
- `Machine_proofs`: `VariablesAreShared` (`CapturedOnce`) and `NothingCatches`
  (`InterruptUnwinds`), for every program and whatever the compiler makes of it: these two do not
  use `ShapesKept`, so an instruction may name slots and cells that do not exist. The invariant has the
  shapes of frames and cells, and the phases of a run: nothing is uncatchable before the first
  instruction, and an uncatchable exception is on its way or the program has ended with it. The
  instructions are of four kinds, each with one lemma: most leave every frame its list of cells
  (`Computes`), calls put a frame without cells on top (`Calls`), fclosure adds cells for slots of
  the top frame that have none, and returning or unwinding detaches the cells of the frame it
  removes. Only the evaluated function is closed over with no frame below it. That it captures
  globals alone is `EvalCapturesGlobals`: `js_closure` has no frame to take other variables from
  then (4932-4936), and captures globals "only for eval code" (4960-4962). TLC evaluates the
  assumption for the programs of the run `machine`.

  `StacksAreAsExplored` (`StackAsExplored`), `NothingDangles` and `PrototypeChainsEnd` use
  `ShapesKept` as well, and all three are about what happens up to a call that loses its flags, where
  the model ends. `StackAsExplored` is silent about catch handlers, which `compute_stack_size` does not
  explore; `NothingDangles` is not. The depth of a stack is not inductive: to know where `ret` goes one has to
  know that the number on top is a return address of this finally block, and to know what is left
  when an exception is caught, where on the stack the handler lies. The invariant `TInv` says that
  each place of each operand stack holds what the shape at the frame's instruction says (`StackOK`;
  a caller's stack lacks the value of its call, unless POP_RET drops it: `DepthOK`), that
  arguments and variables are as many as the function declares (`FrameOK`), that cells belong to
  slots that exist (`CellOK`), and that every object a value names is in the heap, which only grows
  (`HeapOK`, `GrewTo`). With `IInv` that is all an instruction relies on. There is one lemma for
  each action; those of most instructions come down to `Ordinary`, which says that an instruction
  that takes p operands and leaves m values in their place keeps the invariant. `FramePushed`,
  `LeaveOK` and `CaughtOK` are calls, returns and handlers. A return address is that after a gosub of
  the finally block it lies in (`Holds`), so `ret` comes to a successor; a catch offset on the stack
  is the one the shape has there, so a handler finds what lay below it.

  A property is looked up along a chain of prototypes, by a function defined recursively on the
  heap. Induction being out of reach, `Grounded` says that no set of objects is closed under taking the
  prototype, and `ChainEnds` draws from it that the lookup comes to an end that it describes: the
  set of objects where it does not is such a set. `Grounded` holds because a new object is nobody's
  prototype yet and `js_set_prototype_internal` refuses a circle: the objects above the new
  prototype do not have the object among them. Min and Max of a set of numbers come from
  the well-foundedness of < on the naturals in the same way (`Least`).

Only model-checked:

- Liveness: `InnermostStops`, the `CloseCompletes` of `InterruptClose` and of `JsRuntime`,
  `EveryCallReturns`, `ShutdownCompletes`, `Terminates`. Fairness and ENABLED are out of the
  prover's reach.
- `ShapesKept`, and with it `AsTheLanguageSays`: what the code is that the parser emits needs
  induction over programs, and the parser is recursive.
- `FloatsAgree`, `TokensComeBack`, `RegexpAgrees`, `StringsAgree`, `ObjectsAgree`: what a
  recursive definition computes for every input is an induction over data, which the installed
  provers cannot do.

## What is not modelled

Components with status `not_modelled` or `partly` in `PROJECT.json` say why. In short:

- the engine's JSON reader and writer, typed arrays, Date, the reflection functions of Object and
  the globals, which are walks over parts that are modelled;
- the transcendental functions of libm: polynomials over doubles, whose error bounds enumeration
  does not show;
- error messages, line number tables, the byte encoding of short opcodes and of bytecode offsets;
- the one out buffer of an engine, which a nested operation writes again, and several engines that
  exchange references (`checkOwned`);
- marshalling in JNI and cinterop, build scripts, kmpjsc and the stand-alone command line.

Closing an engine from one of its own host functions is outside of `JsRefs` and `JsRuntime`:
nothing in the code guards against it. A failed release of a `JsRef` result that a cancelled
caller never receives only costs a slot until the engine closes.
