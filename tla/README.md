# TLA+ models of the HPU FHE graph compiler

This directory holds TLA+ models of the compiler in `src/` that turns graphs of
homomorphic operations (BFV, BGV, CKKS over SEAL) into instruction packages for
the HPU, an accelerator with 64 object slots (`p0`..`p63`), five regular banks
of 1024 lines and a small bank of 32 lines, one of whose ends is reserved for
the modulus table. All paths below are relative to `src/` unless they name a
module.

## 1. The system

The pipeline, as `doc/architecture/HPU_ARCHITECTURE.md` and the code have it:

    ApplicationBuilder / Evaluator (hpu/seal/evaluator.cpp)
      -> scheme plans and memory images (operation_plan, *_application_image, memory_image)
      -> OperatorProgram in SSA form (compiler/operator_resources.cpp, a thread-local Recording)
      -> SSA optimisation (compiler/ssa_optimization.cpp)
      -> VirtualProgram: objects and DDR ranges (compiler/resource_ir.cpp, import_*)
      -> Scheduler: slots, banks, spills (resource_ir.cpp, over runtime/bank_allocator.cpp)
      -> DDR placement and relocation (resource_ir.cpp, place_buffers, bind_program)
      -> choice of the cheapest candidate schedule (delivery/resource_compiler.cpp)
      -> application package, validated and published (delivery/*, tools/generate_application_package.py)

Components, their state and what makes them correct:

| Component | State | Operations | Correct when |
|---|---|---|---|
| Bank allocator (`runtime/bank_allocator.cpp`) | one optional region per slot; current and peak usage | load, arithmetic, ntt, online_multiply, release | regions respect bank geometry and never overlap; a refused call changes nothing and is only refused for lack of room; peaks count the moments two versions coexist |
| Scheduler (`compiler/resource_ir.cpp` 309-737) | per object: slot, home, dirty, initialized; the modulus table; the allocator; the emitted program | one handler per instruction, around ensure, evict, allocate_slot, allocate_physical | the emitted program computes what the virtual one does; it ends; it fails only when it must |
| Import (`resource_ir.cpp` 153-235, 816-1135) | slot-to-object map, pending reloads, object last uses | import_resolved_program, import_operator_program | deferring a scratch store or reusing an object never changes a value someone reads |
| DDR placement (`resource_ir.cpp` 739-812) | free intervals of the scratch arena | place_buffers | buffers that are in use at the same time never share lines |
| SSA optimiser (`compiler/ssa_optimization.cpp`) | value table, memory versions | normalize, eliminate_io, schedule | outputs keep their contents; order of conflicting DMA is kept |
| Recording (`compiler/operator_resources.cpp`) | thread-local stack of programs, slot-to-value map | emit, bind_port, append | every operand has one definition, ports are bound once |
| Candidate selection (`delivery/resource_compiler.cpp`) | the best candidate so far | compile each schedule, check equivalence, compare cost | the chosen program is equivalent and not dearer than the original |
| Package publication (`delivery/io.cpp`, `tools/generate_application_package.py`) | files and directories | write_file_atomic, publish_directory_noreplace, replace by two renames | a reader sees the old or the new package, whole |
| Package writer and validator (`delivery/application_package.cpp`) | manifest, checksums, staging directory | write, validate | what validates is what was written |
| Application runtime (`runtime/application.cpp`) | registered objects, resident slots and representations, modulus table | load, run, set_representation, store, release, finish | kernels see operands in the expected representation; nothing is left resident |
| Memory image (`runtime/memory_image.cpp`) | allocations, aliases, words | append, add_alias, trim | allocations are disjoint, names unique |
| Instruction executor (`hpu/model/instruction_executor.cpp`), encoder (`encode/`) | slots, DDR, modulus context | execute, validate, compare | objects are used only between definition and release |
| SEAL frontend (`hpu/seal/evaluator.cpp`) | graph of values with level, size and scale; captured inputs, plaintexts and keys; marked outputs | import, the evaluator's calls, set_scale, mark_output, compile | what a call accepts compiles, and means what SEAL's call of that name means |
| Plans and images (`hpu/seal/*operation_plan.cpp`, `*application_image.cpp`) | memory objects found again by level, element and identity; the steps | append one operation with its resources | every resource is there and large enough for each user |
| Relocation and code generation (`hpu/seal/*relocation.cpp`, `*codegen.cpp`) | bindings of a program's ports to limbs | one recipe an operation | every DMA port is bound once, to the limb it means |
| Software executors (`hpu/seal/*software_executor.cpp`) | words of each output | one algorithm an operation | the words that SEAL has, which the package expects of the HPU |
| NTT model (`hpu/model/hardware_ntt.cpp`), bridge (`hpu/seal/ntt_bridge.cpp`) | registers of the array; packed tables | forward, inverse, automorphism; conversions of order | transforms of the ring, in the array's order |
| Scheme kernels (`scheme/`, `operator/`, `poly/`, `util/`) | none | the tasks of each operation under each modulus | they compute the operation, and never read what an earlier use of a workspace left |

Interaction is by calls on values: the compiler is sequential. What is hard is
not concurrency but long sequences: an object's value may be on chip, in its
original memory, in a scratch buffer that another store overwrites, or in a
spill buffer, and every instruction moves some objects between these. The one
place with real concurrency and crashes is the publication of packages. In the
SEAL part the difficulty is shared memory: operations use the same workspaces,
tables, keys and constants, and what an operation finds there depends on all before it; two
independent implementations (programs for the HPU and the software executor)
must agree word by word, over moduli whose positions differ from level to level.
`PROJECT.json` lists the hazards with their lines.

## 2. Modules

| Module | Models |
|---|---|
| `BankLayout` | the placement rules of `bank_allocator.cpp`, as operators on a layout: `Find` (bank preference, read cost, first fit), and the request each public operation makes |
| `BankAllocator`, `_proofs` | the allocator object: `objects_` and the peaks of `stats_`; one action per public operation |
| `VirtualProgram` | the virtual instructions of `resource_ir.hpp`, `UseIndex`, and symbolic contents |
| `VirtualMachine` | abstract specification: the virtual program executed with unlimited slots and banks |
| `Scheduler`, `_proofs` | the `Scheduler` class together with the machine that executes what it emits; implements `VirtualMachine` |
| `DeferredStores` | `deferred_store_pairs()`, which both importers use |
| `EncodedImport`, `_proofs` | `validate_executable_program()` and `import_resolved_program()`, beside the machine on the encoded program and the virtual program that comes out |
| `OperatorProgram` | the SSA form of `operator_resources.hpp`: what is well formed, and what it means |
| `OperatorImport`, `_proofs` | `import_operator_program()`, and what `compile_resources()` makes of deferred stores, beside the source program and the virtual program that comes out |
| `SsaOptimization`, `_proofs` | `normalize()`, `eliminate_io()`, `schedule()` and `materialize()`, beside the machine on the source program and the machine on the result |
| `DdrPlacement`, `_proofs` | lifetimes of buffers from the importer through the scheduler to `place_buffers()`, then the run of the placed program beside one in which every buffer has memory of its own |
| `PackageStore` | abstract specification of publication: a shelf that shows one whole package |
| `PackagePublication`, `_proofs` | writers (`io.cpp`, `application_package.cpp`) and the generator script on one file system, with errors, interrupts and crashes; implements `PackageStore` |
| `RuntimeApplication`, `Execution_proofs` | the public operations of `Application`, beside the slots and memory a backend leaves |
| `SealLevels` | the table of moduli and the MOD_IDs of each level of CKKS and BFV, digits of keys, the base and m_sk of a BFV product |
| `NttSchedule` | how the array walks through a polynomial: batches, shuffles, and the order they leave words in |
| `RnsRing` | polynomials modulo X^N + 1 under each modulus, arithmetic on words, transforms and automorphisms as they are meant |
| `HardwareNtt` | the transforms as the HPU executes them: twist, stages, factors made online from packed tables, refusal of tables that cannot be packed |
| `RnsKernels` | the tasks of the shared kernels (base conversion, ModUp, ModDown, rounding, key switching, plaintext products) and what each task computes |
| `SealImage` | memory objects and their limbs: what each allocates, what constants and tables contain |
| `SealFrontend` | `ApplicationBuilder` and the evaluators: every call with its refusals, the caches of captured data, default and marked outputs |
| `SealContents` | conversion of ciphertexts, plaintexts and keys between SEAL's order and the HPU's (the NTT bridge), and with it the read-only limbs of an application |
| `SealPlan` | `append_*` of the operation plans: resources found or added, and the checks before an operation is committed |
| `Relocation`, `SealPrograms` | for each operation the program with its ports and the recipe that binds them to limbs |
| `CkksReference`, `BfvReference`, `Execution_proofs` | each operation as the software executors compute it |
| `SealApplication`, `Execution_proofs` | compile(): SEAL's evaluation, plan, software executor, relocation, packaging; then the HPU, task by task |
| `SealIntegers` | what operations mean: integers behind residues, and decryption with the secret key |
| `MC...` | instances for TLC; constants and program sets only |

### The allocator

`BankLayout!Find` is `BankAllocator::find`: the small bank first if the mask
allows it (the table area for a modulus table, even lines after it for ordinary
objects), then the regular banks in the order read cost, distance from the
preferred bank; regions of a regular bank are powers of two of at least 128
lines, aligned to their size. `LoadRequest`, `ArithmeticRequest`, `NttRequest`
and `OnlineMultiplyRequest` are the checks and searches of the operations; each
answers `ok` with a region, `full` (`BankAllocationError`) or `invalid`
(`std::invalid_argument`). `BankAllocator` commits the answer and accounts for
it as `commit` and `account` do; a request that throws changes nothing, so its
refusal is read off the state before it (`RefusalIsJustified`). The scheduler uses the same operators, also on
layouts it only imagines (the probe of `allocate_physical`).

### The scheduler

One step of `Scheduler` is one turn of one of the C++ loops: evicting one set
of victims, taking a slot, filling a placed object (DLOAD), freezing one old
version, or completing the current instruction with the frees at the end of the
loop of `run`. `Target` says which object the current handler must have on chip
next (the `ensure` calls in their order); the actions under `Place` follow
`place_load`, `allocate_slot` and `allocate_physical` for it, those under
`Kernel` the second half of `kernel`. The three kinds of exception end the run
with status `capacity`, `invalid` or `logic_error`. The variable `automatic` is
`automatic_`; a suite of programs comes with the mode it is compiled in.

The emitted program is not kept: each emitted instruction takes effect at once
on `regs`, `ddr` and `context`. Contents are symbolic (an atom for each initial
memory cell, a term for each kernel result that names the instruction, what it
read and the modulus context), so that two contents are equal only if they were
computed alike; a program that reads a stale version shows. A cell stands for a
run of DDR lines that no range divides.

`ImplementsProgram` is refinement: under the mapping of `Scheduler!Reference`
(an object denotes its register, or its home when it is not on chip) every step
is a step of `VirtualMachine` or leaves it unchanged. Objects without further
uses denote nothing on either side, since the scheduler is free to drop them.

Not modelled in the scheduler: reports and statistics, origins and logical
names, and the validation of the emitted program. The order in which objects of
one eviction set are evicted does not matter to the state.

Assumed of the programs (`VirtualInstructions`, `ReferencesAssumption`): a load of
read-only memory that is not the reload of a deferred store defines an object of
its own, as both importers' `new_object` does (a lazy load of an object that is
already on chip would leave the old contents). Transfers are as long as their
object and never store to a read-only allocation; the importers refuse anything
else. Modulus tables are loaded from read-only memory and never an operand of
anything but PFREE: relocation asks the first of every program
(`hpu/seal/operation_relocation.cpp:768`), and the allocator refuses a table as an
operand of a kernel. The scheduler relies on it: a table has no uses that
`UseIndex` knows, so nothing saves it when its memory is written. Programs with
undefined operands are included to reach the error path.

### The importers

Both modules walk the source program one instruction a step and keep two
machines: the source's own (slots and memory for encoded programs, values and
memory for SSA) and that of the virtual program (an object's contents, its
memory). A store that `deferred_store_pairs()` leaves out is left out of the
second machine; the load it is paired with finds the object in `pending`. The
property is that both machines agree on whatever may still be read: a slot and
the object it is mapped to, a value with uses left and the object it lives in,
and all memory outside the cells of stores left out.

`DisciplinedPrograms` of `MCEncodedImport` holds the programs in which a
deferred store gives up its slot; `AllPrograms` those in which it may keep it.
The importer is right about the first and wrong about the second (section 5).

### The SSA optimiser

`SsaOptimization` makes, in one behaviour, one of the four programs that the
delivery compiler asks for (`mode`). One step of `eliminate_io()` is one source
operation: dropped (`Drop`), merged with a known value (`Merge`) or kept; each
kept operation carries what it needs, directly and indirectly (`cone`), which is
what the marking loop of the code computes from the end. `Schedule` computes the
predecessors, `Emit` is the emission of one operation: the list scheduler chooses
any ready operation (`Candidates`), since its score only weighs traffic against
pressure, and puts the loads it waits for before it. The spans of the code are
sets of cells, so `lastWriters` is a function on cells rather than a list of
intervals. What an operation computes is a term that names its place in the
source, its operands and its modulus, so it can be compared after a move. The
programs select a modulus before they compute with one, or never
(`ProgramAssumption`, which TLC evaluates on all of them;
`instruction_executor.cpp:254` refuses anything else).

### Placement in DDR

`DdrPlacement` has four phases: the source program with the lifetimes that
`analyze_buffers()` or the importer gives each buffer; the schedule, in which
each emitted DMA extends the lifetime of its buffer and a spill adds a buffer;
`place_buffers()`, one buffer a step in the order of the code; and the execution
of the trace. The scheduler is represented by `Emittable`, what a schedule may
emit next: a load of a buffer that holds what the load would have found in the
source order, a store in its turn. That is less than what the scheduler does and is
justified by `Scheduler!ImplementsProgram`. Execution runs on two memories, `ddr` as
placed and `apart` with a line for every line of every buffer.

### Publication of packages

One step of `PackagePublication` is one system call that others can see, or one
validation of a directory. `Generators` run the Python script, `Writers` call
`write_application_package()` directly; each may fail at any call, be
interrupted (the script's `finally` runs) or be killed (nothing runs). A file is
written under a private name and renamed, so a directory is as good as the
number of files it holds. The destination may hold nothing, a package of either
case, or a directory of the user's at the start.

### The runtime

`RuntimeApplication` has the state of `objects_`, and the machine a backend has
after it executed the events so far. `RunKernelFails` is the call that throws at
an object that is not resident, after it marked earlier ones as dirty.

### From SEAL to the HPU

The modules build on each other: `SealLevels` and `NttSchedule` make `RnsRing`;
`HardwareNtt` extends it, and from there one line goes to what is in memory
(`SealImage`; `SealFrontend`, `SealContents`,
`SealPlan`) and one to what is done with it (`RnsKernels`,
`Relocation`, `SealPrograms`); the golden model is beside both
(`CkksReference`, `BfvReference`). `SealApplication` composes all of them, and
`SealIntegers` states what must come out without using any.

A behaviour is one application, in phases: `build` (one call of the builder a
step, accepted or refused), `oracle` (SEAL evaluates the graph, a value a step,
and throws rather than give a transparent result, one with nothing but zeros after
its first polynomial, as `sub(a, a)` or a product with a zero plaintext has),
`plan` (an operation a step: its resources, then the checks of the plan),
`software`, `lower` (every port of every program is relocated and checked against
what is allocated), `package` (comparison with SEAL, deliveries) and `hardware`,
one task a step, until `done`; an exception of compile() ends in `rejected`. The
refusal of a call by the builder is not an exception of this kind: the graph
stays as it was.

A polynomial is a sequence of words, one under each modulus it has. A task
selects one modulus, reads the limbs its ports are bound to and writes others;
inside it the bank allocator and the scheduler place words, which is the subject
of their own modules. Coefficients are bit-reversed in memory and transformed
words lie in the order the array leaves them in, so a table, a key or an output
in the wrong order computes something else. Twiddles are kept as they are in
memory, as starts and ratios: `HardwareNtt` makes the factors of each batch from
them as the array does, and a table with other factors cannot be packed. Two
constants, `ModulusTable` and `TransformedOrder`, only name values that are
derived (the registration of moduli, the last layout of the array); assumptions
tie them to their derivations, and TLC evaluates these.

The software executor is modelled with its own algorithms (for instance it
leaves CKKS ciphertexts transformed where the programs go to coefficients and
back, and puts the half of a rounded division elsewhere), so that `HardwareAgrees`
compares two implementations. SEAL is external. It is taken to compute what the
executor's algorithms do, in its own order of words; that this is right is the
matter of `SealIntegers`, which works on the integers behind the residues, with
the ring's multiplication by definition and a secret key.

## 3. Runs

| Run | Instance | Shows |
|---|---|---|
| `allocator` | slots 0 and 5 (same preferred bank) and 1, 2 banks, lengths 2, 1024, 1100, masks {}, {0,5}, table area of 15 lines; 22 thousand states | geometry and alignment, exclusion, double buffering, peaks within the hardware, refusals of every request justified |
| `scheduler_memory` | all 6948 programs of six data instructions on bank-sized objects, 4.5 thousand on half-bank and bank objects with overlapping stores, 6.8 thousand in encoded mode (explicit frees, releases, deferred stores); 2 banks, 3 slots; 294 thousand states | refinement, backings kept, a capacity error only if what is pinned leaves no room |
| `scheduler_kernels` | 1.7 thousand programs of kernels, tables, deferred stores, masked loads, and one for each error; 3 banks, 4 slots; 36 thousand states | refinement, agreement of slots, layout and registers, no version lost, termination |
| `scheduler_overwrite` | encoded programs that store over memory of live objects | **violation**: a live backing is overwritten (section 5) |
| `encoded_import` | programs of up to 8 encoded instructions on two data slots; 473 thousand states | slots and objects agree, memory agrees |
| `encoded_import_retained` | stores that keep their slot | **violation**: an object is changed before its reload (section 5) |
| `operator_import` | SSA programs of up to 9 operations with reuse hints, tied inputs, copies, deferred stores, optimised or not; 744 thousand states | values with uses left are in their objects, required outputs are written |
| `ssa_optimization` | programs of up to 9 operations over overlapping ranges, modulus contexts and independent computations, in four modes, with and without required outputs; 306 thousand states | SSA form kept, values and observable memory agree, a schedule is always found |
| `ddr_placement` | every schedule of 3 DMAs in 3 positions with a spill of 1 or 2 lines over image, output, copy and spill buffers; 517 thousand states | exclusion, loads and outputs as with separate memories, the capacity computed beforehand suffices |
| `packages` | three scripts and a writer, two files a package, every initial directory; 722 thousand states | only whole packages show, none is lost, others' directories stay |
| `seal_application` | eight kinds of applications for each of CKKS and BFV, of up to six calls with any arguments; degree 8, array of 4, two chains, three data moduli and P, t = 5; 142 thousand states, up to 420 steps | programs agree with the software executor, an application whose calls were accepted is refused only where SEAL throws on a transparent result (the runs have `sub(a, a)` and a product with a zero plaintext), divisions round, key switching and BFV products mean what they should, no stale workspace is read, every marked value is delivered |
| `runtime_application` | three objects, two slots, two representations, one kernel result each, objects and slots symmetric; 36 thousand states | no result is lost, every required output is written |

Bounds. The allocator needs two objects for every pairwise interference, and a
third for an instruction whose operand fills one regular bank and another object
the other: only then is the result refused. Of the lengths one is the two lines
of a parameter object, one fills a regular bank and one exceeds it. The sizes
between, and a bank 5 that is filled up by many objects, are left to the theorems
of section 4, which hold for every length, mask and number of slots.
`ModTableLines = 15` is odd on purpose, because of the rounding of the first
ordinary line. In the scheduler two or three banks with bank-sized
objects force an eviction at almost every instruction, which real programs reach
with thousands of instructions; six instructions suffice to load, evict,
overwrite, reload and store. A deferred store, its gap and its reload need three
instructions, and a third value to interfere three more, which is why eight
(encoded) and nine (SSA) are enough for the importers. In `ddr_placement` two
buffers that share lines need two DMAs in between and one to observe. Three
generators are needed in `packages`, because restoring a backup fails only if a
third publisher took the place of the second. `MaxVersion`, `MaxCursor`,
`MaxEmitted` and `MaxSpills` are the only counters bounded by a constant; all
other walks are over finite programs.

In `seal_application` the array is narrower than the polynomial, so stages work on
neighbours and on runs that lie apart; three data moduli give two levels at which
moduli can be dropped, digits and bases that differ from level to level, and a
level at which nothing can be dropped any more. The moduli are primes below 1300
(`17, 97, 113`, P = `193`) so that products of the unreduced BFV tensor stay
within TLC's integers; for the same reason `ProductScaled` is stated at the level
of two moduli. Keys carry no noise and scales are exact, so that `RoundsExactly`
and `KeySwitchKeepsMessage` can be stated with the bound that rounding alone
explains. Scripts fix the kinds of calls; which values, plaintexts, keys and
rotations they take is open, and includes values at two levels, ciphertexts of
three components and two key sets.

The type invariants of six modules are conjuncts of another property
(`RegistersAgree`, `NeverFull`, `NoLitter`, `SlotsConsistent` and the two
`ValuesAgree`).

Fairness. `Scheduler!Spec` has `WF_vars(Next)`: `run()` is sequential code that
does not block, so as long as some step is possible one is taken. `Terminates`
says that no sequence of evictions and placements repeats for ever.
`SsaOptimization!Spec` has it for the same reason; there `Terminates` says that
the scheduler never finds its graph cyclic. Elsewhere there is no fairness:
callers may stop, and publishers may be killed. `CHECK_DEADLOCK FALSE` stands in
the configurations whose system ends (imports, SSA optimiser, placement,
publication).

Each property has a mutant in the module it constrains (marked `Mutant` there):
the same definition with a plausible bug, which the run must find.

## 4. What is proved

**Allocator** (`BankAllocator_proofs`), for every set of slots, bank count, table
size and set of requests: `TypeCorrectness`, `PlacementCorrectness`,
`Exclusion`, and `Buffering` (no step of a transform or an accumulation writes
lines that are in use, nor a transform the bank it reads). All follow from one inductive invariant, `IInv`: types,
soundness of every region, and pairwise exclusion. Exclusion is not inductive
alone, because a new region is compared with old ones through their recorded
base and capacity: the proof needs these to be natural numbers and within the
bank. The argument goes through one notion, an answer being *admissible* for a
slot (the region is well placed and meets no region but the slot's own):
`FindSound` shows it of the search, `LoadSound`, `ArithmeticSound`, `NttSound`
and `OnlineMultiplySound` of the four requests, and `CommitSound` that committing
an admissible region keeps the invariant. The least-element operator behind first
fit is justified from the well-foundedness of the naturals.
`PlacementCorrectness` includes alignment: a region of a regular bank is the
smallest power of two of granules for its object and starts at a multiple of its
size, an ordinary object of bank 5 starts on an even line.
`Refusals`: whatever would be refused as full has no room. In every enabled bank
that the request may use each block that it could take is held in part by an object
that stays (`FullBlock`; that the search looks at every block is `BlocksAreTried`),
and so is in bank 5 each interval from an even line (`FullSmall`). For a load, an
arithmetic instruction and an online multiplication those that stay are all but the
object that is replaced; for a PMAC and a transform stage, which keep their old
region, they are all. A table is refused only beside another table (`FullTable`),
because nothing else may lie in the reserved area. `Peaks` adds to `IInv` that the recorded peaks are
numbers within the hardware's and cover what is resident (`PInv`). The sum of the
capacities is what an operation compares with a peak; it is the number of lines
that are held (`LinesCounted`), because no two regions share one, and those are
lines of the hardware (`Bounded`). An operation that holds its old and new region
at once is counted in the same way (`CommitPeaks`), so this too rests on `Exclusion`.

**DDR placement** (`DdrPlacement_proofs`), for every source program, schedule,
spill sizes and bounds that satisfy the assumptions of the module: `Exclusion`,
`Loads`, `Outputs`. `IInv` says that each buffer laid so far lies in the arena and
off every other whose lifetime it meets (`Types`, `Unlaid`, `Layout`, `Laid`).
`MInv` adds what is known of the trace (`Described`, `Emitted`: each DMA is at a
position inside its buffer's lifetime, and a load of a scratch buffer that was
not there from the start comes after a store) and of the two memories (`Memory`).
The key notion is when a line of a buffer is *current*: always for a buffer that
shares nothing, between first store and last use for scratch. For current lines
the two memories agree; a store to another buffer that shares the line would be
at a position within both lifetimes, which `Exclusion` excludes.
`Capacities`: placing never runs out of memory. While buffers are placed, what is
laid so far is no longer than the sum of the lengths of the buffers that have a
place (`Fit`), each placed buffer adds its own length at most (`FitGrows`), and the
capacity is computed from the sum over all (`SumsCompare`). This asks of the source
that no buffer's lifetime ends before it begins (`SourcesAssumption`).

**Publication** (`PackagePublication_proofs`), for any number of publishers and
files: `WholePackagesAlways`; `NothingLeftBehind`, that a publisher which ends
leaves a scratch directory only if it holds a package that could not be put
back; and `Implementation`, that publishers of one case
implement `PackageStore`: initial states map to initial states, and each of the
script's and the writer's steps, errors and crashes included, to a step of the
store or to none. `SameCase` is its only hypothesis; the package that is found at the
start may be of another case. `NothingTakenAway` says that what is not
a package of the script's own case stays where it is, if all publishers are of one
case or only one of them is a script (`Cooperating`). With two scripts of different
cases it is false: the recheck before renaming may be out of date. What makes it
inductive is `CheckedInv`: what a script has rechecked stays replaceable until it
renames it.

**Runtime** (`Execution_proofs`, first part), for any objects, slots,
representations and versions: `TypeCorrectness`, `Exclusion`, `Retention`,
`Completion`. The strengthening relates, for each object, dirty and stored flags
with the equality of chip, memory and latest result.

**Rounded division** (`Execution_proofs`, second part), for every
degree, all moduli and all coefficients, assuming only that the moduli exceed 1
and that the divisor is invertible under the other (they are different primes):
`HpuRounds`, the tasks of a rounded division leave the integers divided by the
modulus and rounded to the nearest; `SoftwareRounds`, so does the BFV executor;
and hence `RoundingAgrees`. The tasks are those of one component, with their
constants as relocation binds them. The argument is that both ways leave a word
that stands for v + half less its remainder, which is a multiple of the divisor
(`QuotientWord`, `ExactQuotient`).

**Applications of SEAL** (`Execution_proofs`, last part), for any moduli, degree,
ciphertexts, plaintexts, keys and scripts of calls, CKKS or BFV. `CompileIInv` is
inductive (`PlanInvariance`): each value has the level, the size and the scale
that SEAL gives the result of its operation, and takes only values before it
(`NodesRight`); SEAL's results and the plan grow along the graph (`PhasesRight`);
views have the polynomials they are views of (`ViewsRight`); and the plan holds
each value as an import, or as the output of a step for the same polynomials, with
one step for each operation, in the order of the graph (`Planning`). Three theorems
rest on it.

* `Delivery`: `Delivered` follows from `HardwareAgrees`. If the HPU has computed
  each operation as the software executor does, every marked value, or the last
  computation if none is marked, is exported at its own scale, and its words are
  those of SEAL. It is the invariant that ties three executions together: the
  package is written only after the executor's outputs were compared with SEAL's
  (`Compared`), a view's object is the output of the step that computed it
  (`Holding`), and the step's output limbs are just the limbs of the view
  (`StepMetadata`). What the programs compute stays with TLC.
* `Freshness`: `WorkspaceFresh` for every application, if programs stay within
  their operations. `ProgramsContained` says the latter of each shape of operation:
  a task touches limbs that the operation has at that place (`Reach`), stores only to
  outputs, workspaces and scratch limbs of constants, and reads these only after
  an earlier task of the same program has stored them. It is a statement about
  constants, not about states; the programs are built by recursion and folds over
  digits and components, so it is out of the prover's reach for all moduli at once.
  `MCSealApplication` assumes it, and TLC evaluates it for the 64 shapes of the
  instance. What is proved is that it carries over to whole applications: `fresh`
  has what the tasks of the running operation have stored so far (`Executing`), and
  what an operand's object may hold otherwise is an import or the output of an
  earlier step (`PlaceOf`), however workspaces, tables and constants are shared.
* `Lowering`: `AcceptedLowers` for every application, given `ContextComplete`,
  `ProgramsContained` and, as a hypothesis on the behaviour, `SoftwareAgrees`, that
  the software executor computes each operation as SEAL does. What the builder accepted
  is refused only where SEAL itself throws: the operation after the last value that it
  gave is one whose result is transparent (`SealThrows`, which later steps leave as it
  is by `ThrowKept`). `ContextComplete` says of a context that its tables can
  be packed and that its auxiliary base is large enough; TLC evaluates it as well.
  The inductive part is `LowerIInv`, which adds to `CompileIInv` that nothing was
  refused so far but where SEAL throws, and

  * `ImageRight`: every object is as large as what it was made for (`MadeFor`), the
    image has what the plan holds and what each step needs. So the checks of the plan
    pass (`OperationAccepted`): a cached resource is found again only for the same
    key, element or level, and the one that differs in size, the constants of a
    rescale, is made for the largest rescale of the level (`RescaleLargeEnough`).
    Outputs and workspaces are new when they are made (`NewObjects`), and a workspace
    belongs to one step (`OwnWorkspace`). So each slot that a program can reach is bound to
    a limb that is allocated (`ReachAllocated`), and each one that it stores to is
    bound to a limb that may be written (`SlotBound`).
  * `MarksRight` and `OriginsHeld`: no mark is on an import or a view of one, and
    what the plan holds as an import is one. So each export is the output of a step
    (`ExportsProduced`). What is behind a view is found by a recursive function; that
    it exists, and that later calls do not change it, is `OriginsExist` and
    `OriginKept`.

**Importers**. `OperatorImport_proofs`, for any well-formed SSA programs,
optimised or not: `ValuesKept`, `OutputsStored`, and the action property
`StorageHeld`, that an object between a deferred store and its reload keeps its
contents. The conjuncts of `IInv` depend on each other: that values agree (`Agree`)
needs an object to stay in use until the last use of each of its values
(`LongEnough`) and until the reload it awaits (`Kept`); `Kept` and `Stale` say that
memory without its store is looked at only through the object. That the load
which `deferred_store_pairs()` finds is the first access after the store is proved
from its definition (`ConsumerReads`). `EncodedImport_proofs`, for any encoded programs:
`RegistersHeld` and `OutputsStored`, under the hypothesis `AllDisciplined`: stores
that are left out give up their slot. Nothing in the code asks for it, and
`encoded_import_retained` violates the property without it. Here no two slots may
stand for one object (`Injective`), or a kernel on one would change both.

**SSA optimiser** (`SsaOptimization_proofs`), for any programs, memory image,
required outputs and mode: `ValuesKept` and `OutputsKept`. `ProgramAssumption`
says of the programs what recording makes of them (`Recorded`), and that each
operation that computes has a modulus table and a modulus to select, which the
executor insists on (`Selects`); or that moduli are left out altogether
(`Modeless`), as in some of the programs that are checked. `IInv` has two halves.

* `Analysed` is what is known while the program is read: every operation that is
  kept has its operands and its modulus table before it (`Supplied`), a cone that
  is closed (`Coned`), and the outcome that the source program has under its own
  modulus (`Computed`). A load that is kept found, in each cell, what the last
  store before it left, and that store is among those it has to follow
  (`Loaded`). `MemoryOK` says the same of all memory and `lastWriters`, `EntryOK`
  that a cached value is what memory still holds, `ReplacementOK` that what
  replaces a value has its contents, `SyncsOK` what each synchronization saw. All
  of this is said of a list of operations and the values defined so far, so that it
  passes to a longer list (`NodeExtends`). That all tables are the same comes from
  `normalize()`: they share a range, and it is read-only.
* `Emission` is what is known while the result is emitted. What is live has all
  that it needs and all that somebody observes (`Whole`, by `PruneKeepsWhole`);
  what is emitted came with all its predecessors (`Closed`). The graph has an edge
  to the last synchronization only; that all earlier operations are emitted
  before it takes a least counterexample (`SyncsFollow`). So operations that
  conflict keep their order (`ConflictsStay`), and none that comes later is
  emitted when one before it is not (`NoLaterConflict`). Hence the last
  store to a cell among what is emitted is, for a load or a synchronization,
  the last before it in the source program (`SameStore`), and the machine has, of
  each value, what the source has or nothing (`Ran`). The next operation always
  waits for nothing, whichever candidate was chosen (`GoalReached`, `NextIsFree`);
  the modulus that `materialize()` remembers is the one in the machine
  (`ModulusRan`), as no table is loaded with other contents.

At the end everything live is emitted, and the last store to each observable
cell is live (`OutputsFollow`). The choice by score is any choice, so what is
proved does not depend on the weights.

**Scheduler** (`Scheduler_proofs`), for any number of slots and banks, any objects
and any programs that satisfy the assumptions above; `NoneIsNoFunction` only says
that `None` is not itself the contents of a slot.
`Consistency`, `VersionsKept` and `CapacityErrors` hold in both modes; `Backings` and
`Implementation` for suites in automatic mode, and in the other one for programs
whose own stores leave the memory of other live objects alone
(`Guarded(Programs)`). That the programs of both passing runs are such is an
assumption of `MCScheduler`, which TLC evaluates; those of the violating run
`scheduler_overwrite` are not, and there `BackingsKept` fails.

* `IInv` is the geometry: types, slots apart from each other, a region for each
  filled slot (`Sound`). It needs what the allocator answers (`LoadSound` and its
  like) also for layouts that are only imagined.
* `Versions` is the meaning: an object is initialized exactly if an instruction
  before the cursor defines it (`Recorded`), a slot belongs to an initialized
  object or to the kernel's destination (`Held`), a table is clean and at home in
  read-only memory (`TableKnown`), and each live object is `Good`: dirty objects are on chip, clean
  ones have a home, with the contents that are on chip if the program is guarded. Liveness
  must include tables, which have no uses. `Versions` is not inductive alone: that
  evicting one object leaves the others as they were needs their slots apart.
* `Homed` relates memory to the program's text: the home of a clean object is its
  spill buffer, or the lines of an earlier load or store of it that no kernel has
  followed. `Undisturbed` speaks of such pairs of positions only, so this is what
  turns it into a fact about states.
* `Moved` collects what evictions, spills, placements and reloads have in common:
  every object stays `Carried`, that is, denotes what it did. `Freeze` and `Place`
  are such steps, so they map to no step of `VirtualMachine`. The step that
  completes an instruction maps to the machine's step of that name
  (`LoadMeans`, `StoreMeans`, `ExecuteMeans`, `OtherMeans`); a store changes no
  other live object because those with a home on its lines were frozen before, or there
  are none (`StoreApart`).
* `CapacityErrors` is about a search that gives up. A request is refused exactly if none
  of the places that `find()` tries is vacant (`FindFull`), and which places these are
  does not depend on what is evicted, as long as it is nothing the instruction needs
  (`Searches`). A place that would be vacant without all that may be evicted is one of
  the loop's intervals (`PlacesPassed`) and a candidate (`RoomClears`); the order by
  cost, distance and address has a least candidate (`CandidateFound`, with
  `LeastOfThree`). `Behind`, data in bank 5 lie behind the lines for the table, is the
  invariant by which a table is never refused (`TableFits`). If no slot is left, the
  pinned objects outnumber the slots (`NoSlotLeft`).

Only model-checked: `Terminates` of the scheduler and of the SSA optimiser; and of
`seal_application` what its programs and SEAL's algorithms compute (`HardwareAgrees`,
`RoundsExactly`, `KeySwitchKeepsMessage`, `ProductScaled`, and the hypothesis
`SoftwareAgrees` of `Lowering`, which `AcceptedLowers` includes: a mismatch would
reject the package). Out of the prover's reach: liveness under fairness, `ENABLED`,
and what recursive definitions compute. (Sums over a
finite set, as in `Peaks`, `Capacities` and `CapacityErrors`, and the origins of views
are within it: they are treated as functions on
subsets or positions, and a least counterexample takes the place of induction.)

## 5. Findings

* `scheduler_overwrite`: the freezing of old versions in `store()` is under
  `if (automatic_)` (`src/hpu/compiler/resource_ir.cpp:633`). An encoded program
  compiled with `optimize_resources` for fewer banks than it was written for may
  have a clean object evicted, its memory overwritten, and the object reloaded
  with the new contents, against the comment on line 634.
* `encoded_import_retained`: `import_resolved_program()` leaves out a DSTORE that
  does not release its slot (`resource_ir.cpp:892`). If the slot is then
  transformed in place, the paired DLOAD finds the transformed object, against
  the comment on line 151. The operator importer has the guard (line 1068).

Observations that contradict no documented claim: an operand with a DMA bank
mask can be blocked by an operand of the same instruction that was placed first;
with an odd `mod_table_lines` the probe of bank 5 visits odd lines only; the
script's recheck of the old package and its renaming are two steps, so what is
renamed away may be a package that was published in between;
`eliminate_io()` gives the result of a PMAC the bank mask of its first operand
(`ssa_optimization.cpp:254`) although the result lies in the accumulator's
object, so a masked load may be replaced by a value in another bank.

## 6. Plan

Done: everything in section 2. Next, most important first:

1. BGV: its plan, software executor and applications.
2. Candidate selection, on top of `SsaOptimization`, and `Recording`: the
   thread-local stack of programs and the SSA construction.
3. `MemoryImage` with aliases; manifest validation of packages.

## 7. Not modelled

* BGV. `compile_bgv()` goes through `BgvOperationPlan`, an executor and
  applications of its own; the graph that its frontend records is only written
  to JSON.
* SEAL itself, its parameter checks (other than the check for a transparent result) and
  its noise; key generation.
* Recording of operator programs (a thread-local stack) and the choice among
  candidate schedules, which compares costs of programs that `SsaOptimization`
  already shows equivalent.
* File formats, JSON, text of programs, addresses of lines, reports and
  statistics; names of objects. (Names that begin with `output` or `frontend/`
  are refused by the builder; those that objects of the compiler have, such as
  `workspace/..`, are not, and such a name is refused only by compile().)
* Words of 32 bits and Barrett reduction: arithmetic is that of the ring.
* The compact records of constants beside the constant polynomials, and the
  fused multiplication and relinearization of BFV, which the frontend never asks
  for.
* Floating-point scales: they are exact here and compared for equality; only their
  size in bits is checked against the moduli that are left.

`PROJECT.json` gives the status of each component.
