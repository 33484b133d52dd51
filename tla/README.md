# ViperJS in TLA+

TLA+ models of ViperJS, the JavaScript engine in this repository, with TLC
configurations that check them on small instances and TLAPS proofs about them
for every instance. Paths below are relative to the repository; the crate is in
`src/`, the decision records in `decisions/`.

## The system

An embedder compiles a script or a module to a *chunk* and gives it to a `Vm`
with a `Heap`. The machine is single-threaded; several machines (agents) may
share memory blocks. What makes it hard is not parallelism but *re-entrancy*:
an accessor, a `valueOf`, a proxy trap, a handler or an iterator method is a
script, and it runs in the middle of an engine operation that has already read
some state and has yet to write some more.

| Part | State | Operations | What is hard |
|---|---|---|---|
| Promises and jobs (`builtins/promise.rs`, `heap/promise.rs`, `vm/jobs.rs`) | promise slots, resolving pairs with a shared flag, the FIFO of jobs, the list of unhandled rejections | construct, resolve, reject, `then`, await, drain | `then` is read by running a script between the claim of a pair and the settlement; adoption makes a second pair; reactions reach the queue by two routes |
| Run life cycle (`vm/mod.rs` `run_prepared`) | deadline, step count, `stopped`, rejection list | begin, stop, drain, answer | a budget spent inside a nested execution or a job; a machine run again afterwards |
| Frames and unwinding (`vm/call.rs`, `vm/execute.rs`, `vm/coerce.rs`, `vm/suspend.rs`) | operand stack, call frames, handlers, current environment, realm, `this`, `new.target` | call, tail call, return, throw, re-enter, park, revive | every way out of a frame must restore what the way in saved |
| Generators, async functions, async generators (`vm/generator.rs`, `vm/async_fn.rs`, `vm/async_generator.rs`) | parked frames, the request queue of an async generator | resume, yield, await, answer a request | requests arriving while the body runs, awaits or is finished |
| Promise combinators (`builtins/promise_group.rs`) | a shared counter and slots | subscribe, element settled | foreign `then` methods calling back synchronously, twice or never |
| Heap arena and collector (`heap/arena.rs`, `heap/collect.rs`, `vm/mod.rs` `roots`) | slots, generations, free list, marks, weak tables | place, get, sweep, mark | a handle outliving its object; ephemerons; when a collection is due and what is a root then |
| Shared memory (`heap/buffer.rs`, `builtins/shared.rs`) | a locked block, its waiters, each machine's asynchronous waiters | atomic read-modify-write, wait, notify, waitAsync, grow | threads: a notification racing a timeout or a wait about to park |
| Modules (`vm/module.rs`, `vm/loader.rs`, `heap/module_record.rs`) | module records, their environments, status, evaluation promises | load, resolve, link, evaluate, `import()` | cycles, failures half-way, top-level await |
| Environments (`heap/environment.rs`, `vm/names.rs`, `vm/dynamic.rs`, `vm/eval.rs`) | scopes, bindings, temporal dead zone | declare, initialise, read, write, delete | direct `eval`, `with`, a binding deleted between two steps |
| Objects (`heap/object.rs`, `heap/ordinary.rs`, `heap/define.rs`, `heap/array.rs`, `vm/property.rs`) | property tables, extensibility, prototype, array length | the essential internal methods | `ValidateAndApplyPropertyDescriptor`, shrinking an array past a permanent element |
| Proxies (`vm/proxy*.rs`) | target, handler | the traps | invariants checked after a trap that may have changed the target |
| Collections (`heap/collection.rs`, `builtins/collection.rs`) | entries, tombstones, live cursors | set, delete, clear, iterate | changing the collection while it is iterated |
| Buffers and views (`builtins/buffer.rs`, `builtins/typed*.rs`, `heap/typed.rs`) | bytes, detached flag, lengths | resize, transfer, view | a length read before a conversion that resizes |
| Iterators (`builtins/iterator*.rs`) | records of running iterations | next, close | closing exactly once on every exit |
| Regular expressions (`regexp/`) | matcher state | match | backtracking, captures, step limit |
| Compiler, lexer, parser (`compile/`, `lexer/`, `parser/`, `static_semantics/`) | none that outlives a call | translate | `finally` and completion, scope analysis |
| Pure conversions (`value/`, `bigint.rs`, ...) | none | convert | rounding |
| Conformance harness (`conformance/`) | worker processes, expectations file | dispatch, time out, ratchet | a worker dying or answering late |

`PROJECT.json` lists these with what is modelled of each, and the hazards of the
code at the lines where they bite.

## How the modules are put together

| Module | Models | Composes |
|---|---|---|
| `PromiseFate` | what a promise promises (abstract) | |
| `PromiseJobs` | promises, resolving pairs, the job queue, a run | implements `PromiseFate` |
| `GroupVerdict` | what a promise combinator promises (abstract) | |
| `PromiseGroup` | `Promise.all`, `allSettled`, `any`, `race` | implements `GroupVerdict` |
| `RequestService` | what an async generator promises (abstract) | |
| `AsyncGenerator` | its queue, its parked body, whoever resumes it | implements `RequestService` |
| `Activation` | frames, handlers, operands, registers | |
| `ModuleWalk` | the walk that orders a graph | |
| `ModuleGraph` | evaluating graphs of modules, `import()` | `EXTENDS ModuleWalk` |
| `Arena` | slots, generations, free list | |
| `Collector` | marking, weak entries, when a machine collects | `EXTENDS Arena` |
| `SharedBlock` | a block of shared memory and its agents | |
| `PropertyRules` | what may become of one property | |
| `ArrayObject` | an array and its `length` | `EXTENDS PropertyRules` |
| `ProxyPromises` | a chain of proxies before an array | `EXTENDS ArrayObject` |

A module named `MC...` holds the constants of its instances, one named
`...Proofs` the theorems. A definition with the comment "mutation" is the one
after it with a bug put in: the model has to notice. A property with the comment
"The code breaks this" is not in a configuration; see *Disagreements found*.

Each passing run gives its module the largest instance that stays within a few
minutes; what the bounds leave out is said with each module.

## Modules

### PromiseFate

The abstract specification of a promise: absent, undecided, *bound* to another
promise or settled for ever. A bound promise can only end the way the one it is
bound to ended, with the one exception the language has: a result that is itself
an object with a `then`, which is asked again.

### PromiseJobs

Promises, resolving pairs, reactions, the job queue and the run around them.

| Variable | Code |
|---|---|
| `state`, `result`, `fulfil`, `reject`, `handled` | the fields of `heap::promise::Promise` |
| `promiseOf`, `resolved` | `heap::promise::Settler`, the record two resolving functions share |
| `jobs`, `unhandled`, `stopped` | the fields of `Vm` |
| `stack` | executions in progress: `Vm::reach` nested in a native operation in a job |
| `phase`, `outcome` | where `Vm::run_prepared` is and what it answered |
| `held`, `known` | which pairs and promises a script can name |

The *script* is the environment: whenever the top of `stack` is a script, a
handler, a `then` accessor or a foreign `then` method it may make any call it
can name, in any order, and end by returning or throwing. Everything else is the
engine's and determined. `Settle`, `ResolvePromise`, `Resolve`, `Reject`,
`PerformThen` are the functions of `builtins/promise.rs` of the same names;
`RunReaction`, `AdoptPromise` and `CallForeignThen` are the arms of
`Vm::run_job`. Objects are abstracted to primitive values and one
`ForeignObject` whose `then` is an accessor. Reading the `then` of a *promise*
always finds the engine's own (a program that replaces
`Promise.prototype.then` makes its promises foreign objects).

Run `promise_jobs` (`PromiseJobs.cfg`): three promises and four pairs, which is
one adoption (the adopting promise, the adopted one, the one `then` derives and
the second pair), in every interleaving with accessor and handler scripts, in
two runs of the machine, the first of which may be interrupted.

- `OneResolver`, `SettledOnce`: nothing settles twice, although `settle` does not
  look.
- `Answerable`: no promise is left with nobody able to answer it.
- `ReactionsFollow`: what the two lists and the queue hold is what was
  registered, in order, told apart by how the promise ended.
- `NoReactionLost`: a reaction stops waiting only by being the job that is taken.
- `ReportIsExact`: the host's list is exactly the unhandled rejections.
- `KeepsPromises`: the refinement of PromiseFate.
- `AdoptionEnds`: a promise bound to a settled one is released.

Bounds. `Room` keeps enough identities unused for the jobs already queued, so
the bound stops scripts and never the engine. `MaxAwaits` bounds the reactions
that derive no promise, `MaxRuns` the runs. `CHECK_DEADLOCK FALSE` is set
because a machine between runs is a stopped system.

Fairness. `FairSpec` assumes that an execution that has control ends
(`ScriptAnswers`) and that the drain loop takes its next step (`EngineSteps`).
The first is what a run budget enforces, the second is a loop with no exit but
the empty queue. Scripts are not assumed to call anything.

### PromiseJobsProofs

For every set of promises, pairs and values and every bound:

- `TypeCorrect`: `TypeOK` always holds. It is not inductive: settling
  `promiseOf[s]` is only well typed if `s` has been made, so the proof goes by
  `TypeInv`, which adds that every pair a list, a job, a frame or a script names
  has been made (`StrongTypes`).
- `ResolvedByOne`: `OneResolver` always holds. `settle` does not look at whether
  its promise is still pending; what makes that right is that the unclaimed
  pairs, queued thenable jobs and accessor reads in progress for one promise are
  never two, and that a settled promise has none. With `TypeInv` it is
  inductive. `OneOf` is the same statement about any values of the five
  variables, so that the proof can follow an action that claims a pair, pops a
  job and settles a promise one change at a time.
- `SettlesOnce`: `SettledOnce`, an action property, from the two invariants.

The rest of what `PromiseJobs` promises, liveness excepted. Nearly every step does
one of three things to promises: it settles one, registers two reactions on one, or
touches none (`Does`), perhaps after taking the first job off the queue. Most
lemmas are about these.

- `QueuedInOrder` (`ReactionsFollow`) and `NoneLost` (`NoReactionLost`), from
  `ReactionInv`: the two lists of a promise hold the same reactions in pairs, in
  the order they were made (`Listing`), and each queued reaction is of the kind
  its promise ended with, carries its result, and is queued in the order of its
  promise's list (`Following`).
- `ReportsExactly` (`ReportIsExact`): what a run leaves on the list a host reads.
- `AlwaysAnswerable` (`Answerable`). A pending promise has an unclaimed pair, a
  queued adoption or a getter being read; whether the pair can be *used* needs
  more, so `AnswerInv` says who speaks through which pair (`Spoken`): a script was
  given it, or one waiting reaction has it as its capability, or one execution in
  progress, or handlers that wait, and no two of the first kinds share one.
- `FateIsKept`: `PromiseJobs` implements `PromiseFate`. The refinement mapping has
  a promise bound to another while an adoption waits for its turn or while
  resolving functions of it wait on the other (`Locks`). `FateInv` adds that such
  a pair waits on one promise only and nobody else was given it, that no promise
  waits on itself (`Locking`), and that each of two resolving functions waits for
  the ending it is for (`Apt`): without the last an adopting promise could be
  fulfilled with a rejection. Every step of every handler then makes a promise,
  binds one, decides one, carries an ending over, or is a stutter.

### GroupVerdict, PromiseGroup, PromiseGroupProofs

A promise combinator (`builtins/promise_group.rs`) walks an iterator, makes a
promise of each element and subscribes two handlers to it. Every call of the walk
is a script; whoever was handed a handler may call it at any time, both of a
pair, and again.

| Variable | Code |
|---|---|
| `group`, `values`, `remaining` | the fields of `Gather` of the same names |
| `answer` | how `Gather.capability`, `Promise`'s own pair, was settled |
| `called` | `[[AlreadyCalled]]` of each element's pair |
| `walk`, `iterator` | the call `walk` is in, or how it ended; what the iterator knows |
| `subscribed` | how many elements' handlers have been handed out |

`GroupVerdict` says the same with no counter, handler or iterator: the step that
decides a group settles it, with a list that has every element's report at its
place. A group that is settled while the list has a hole, or one that never is,
is no behaviour of it.

Run `promise_group`: the four groups over up to three elements that settle with
two values. `CountIsOwed` relates the count to the handlers not yet called,
`IteratorIsTold` says that a walk that fails closes an iterator that is still
open and no other, and `SettlesWhenDecided` is the refinement. Three elements are
one listed, one not listed and one the walk is at. A subclass of `Promise` is
covered as far as `then`, `resolve` and the iterator are scripts; the capability
of a foreign constructor is not.

`PromiseGroupProofs`, for any number of elements: `TypeCorrect`, `CountHolds`,
`IteratorTold` and the refinement, `SettledWhenDecided`. They rest on `GroupInv`.
Beside the count it relates the three numbers the walk keeps, slots, handlers made
and handlers handed out, which differ by the element it is at (`Progress`), and
says that a slot holds a report exactly when one of its pair was called
(`ListedWhenCalled`). From these, a count of zero is the same as a walk that is
over and a list with no hole, which is what `GroupVerdict` decides by.

### RequestService, AsyncGenerator

An async generator may be asked while its body runs, awaits or is finished; the
code has no state field and tells where it stands by its queue
(`vm/async_generator.rs`).

| Variable | Code |
|---|---|
| `queue` | the queue in `Role::Requests` of the generator |
| `parked` | `Object::suspension`, with the await it stopped at |
| `control` | what is executing: scripts, the body, and `serve_queued` and `drain` on the Rust stack |
| `awaited`, `made` | the awaits whose reaction has yet to run, and how many there have been |
| `asked`, `answered`, `began` | history |

Settling a request's promise with an iterator result reads `then` of it, which a
program may define on `Object.prototype`: `Deliver` lets a script run there, in
the middle of `Yield`, of `Drain` and of the body's end, and ask again.

Run `async_generator`: five requests and three awaits. `QueueTellsState` is what
the module comment of the code claims of the queue, `ServesInOrder` the
refinement of `RequestService` (with the k-th answer going to the k-th request),
`EveryRequestAnswered` the liveness. Five requests are enough for two to wait
while a third is delivered and a fourth comes from the accessor.

Two things the model keeps apart. A `throw` before the body has begun finds no
handler, since the one that rejects the request is not installed yet: it goes
past the body to the caller of `throw`, and its request stays queued
(`vm/async_generator.rs:205`). `RequestService` says so (`abandoned`) and
`EveryRequestAnswered` leaves that generator out. And with `MayIntrude` an
accessor may ask a body that has just yielded, before `serve_queued` looks at the
queue again; the run has it FALSE, because then the properties fail (see
`AwaitsResumeOwn`).

`Serve` and `RequestService!After` decide with IF, in the order the code asks:
what is at the front of the queue comes before what the generator was resumed
with.

Fairness: scripts, the body and the two loops go on (weak); a reaction runs
although jobs of other promises come between (strong), which is the assumption
that what the body awaits is settled. A program that asks for ever is not
excluded, only one that never gives back control.

### AsyncGeneratorProofs

For any number of requests and awaits: `TypesHold` (`TypeOK`), with no further
hypothesis; and, with `MayIntrude` FALSE, `QueueTells` (`QueueTellsState`) and
`ServedInOrder`, the refinement of `RequestService`. With `MayIntrude` TRUE the
two are false, as `AwaitsResumeOwn` below shows, so the hypothesis cannot go.

The invariant, `GeneratorInv`, spells out the state the code does not keep: the
queue is what was asked and not answered (`QueueIsRest`), and the body is in one
of a few places (`Stands`), each with what `parked`, the Rust stack and the queue
then look like. Of a body that is parked at a yield while requests wait it says
that a `serve_queued` is on the stack to see them; of one that is over, that a
`drain` is; of one that runs, that neither is, since either would resume or
answer behind its back. The stack itself is any sequence with the body and
`serve_queued` in it at most once, as scripts may nest.

### Activation

What a call saves and what every way out restores: frames, handlers, the operand
stack, pending references and the registers environment, variable environment,
`this`, `new.target` and realm.

| Variable | Code |
|---|---|
| `vm` | the fields of `Vm` of the same names; `current` is the loop's `current` and `at`, `regs` the five registers |
| `rust` | Rust calls on the native stack that wait for an execution (`nested`, `run_script`) or run themselves (`enter_native`), with their saved locals |
| `generators`, `parked` | which generators exist, and `Object::suspension` of each |
| `own` | history: the registers each activation was entered with |
| `made` | how many activations there have been |

Compiled code is abstracted to the constructs open where it stands (`open`):
blocks, tries, operands, references. They nest, so code opens and closes at the
end of that sequence, in any order it likes. The machine does not know the
sequence. It keeps four stacks and marks of them, and the invariants compare the
two: wherever code runs, the environment is its own at its own block depth
(`EnvironmentIsOwn`), the operands above its base are those it has open, in
order (`OperandsAreOwn`), and so are the handlers, each with the marks of the
place it leads back to (`HandlersAreOwn`). An operand is not a value here but the
place it was pushed at, which is what makes a leftover of another body visible.

`Unwind` is `Vm::unwind`: `Abandon` takes frames down, `Land` jumps, `Escape`
leaves the execution. `Park` and `Revive` are `suspend.rs`. A conversion
(`Convert`), a built-in (`CallNative`, `CallBack`, `NativeAnswers`,
`NativeThrows`) and a direct eval (`DirectEval`) start an execution with a floor,
and `ExecutionEnds` is what `nested` and `run_script` do afterwards.

Run `activation`: everything, in two realms. `StacksAreOwn` joins the three with
`MarksBelowTops`, which `park` relies on unguarded: no mark of a frame, of a
handler or of a waiting Rust call is above its stack. `GeneratorHasOneHome` says
that no generator is entered twice. `RegistersAreOwn` says that the variable
environment, `this`, `new.target` and the realm come back too, as long as
nothing has been thrown; after a throw some do not, see below.

Bounds: `MaxActivations` bodies entered (script, caller or generator, callee),
`MaxOpen` constructs per body (a try with something half-built in it),
`MaxReentries` Rust calls at a time; `Features` names what programs use. Nor does
`RealmIsOwn` speak of a generator's body: `Suspended` has no realm, so the body
goes on in the realm of whoever resumed it. A fault (`StoreThrough` with no
reference) ends the behaviour. `CHECK_DEADLOCK FALSE`: a script that is over is a
stopped system. The depth limits, super calls, async bodies and the completion
register are left out; a generator's `return` is a resumption after which its
body may go anywhere.

### ActivationProofs, ActivationOwnerProofs

For any number of bodies, constructs and Rust calls, and any set of features. The
first module has:

- `StacksStayOwn`: `StacksAreOwn`. What it says of the code that runs is not
  inductive: a return, a throw, a resumption or the end of a conversion makes other
  code run, which must find what it left. So `SpineInv` says the same of everything
  that may go on: of the body at every depth, as the frame above it saved it
  (`Sits`; a body that has called stands before the operand its call will answer,
  `Before`); of the execution below every waiting Rust call, as it will be restored
  (`Saved`); and of every parked body, counted from its own bases (`Shelved`). What
  keeps these apart is an order of all marks (`MarksInOrder`): none is above its
  stack or below the floor of the execution that took it, marks do not decrease
  from frame to frame or from handler to handler, and a handler stands between the
  frames it was installed between. That is why cutting the stacks at a mark, which
  `unwind`, `return_from_call`, `park` and `nested` do unguarded, takes away what is
  above it and nothing else, and why `revive` may add its bases to a parked body's
  marks.

A throw is a lemma about any execution with such marks: `Unwind` lands in the body
whose handler is innermost, which finds what its code then has open (`UnwindGoes`),
or takes the execution down to its floor (`UnwindOver`). The second module, which
rests on `SpineInv`, has:

- `GeneratorsStayHome`: `GeneratorHasOneHome`. `HomesInv` adds to `SpineInv` that
  the generators run by frames and those parked are different ones, all of them
  made; and that a body still being prepared, which becomes a generator when its
  prologue ends, is in one place only and not a generator yet. Without the second
  part two frames could make one generator.
- `RegistersStayOwn`: `RegistersAreOwn`. `GivingInv`, which like the property
  speaks only of machines in which nothing has been thrown, says that the
  registers a frame, a waiting Rust call or a parked body holds are those its body
  was entered with, and that every execution will end with the registers its
  waiting call does not put back itself (`GivesBack`): a conversion puts back both
  environments and `this`, a built-in the realm as well, an eval the environments
  only. `EndsWith` is what an execution will end with: what its lowest frame
  saved, or what it runs with if it has none.

### ModuleWalk, ModuleGraph

| Variable | Code |
|---|---|
| `requests` | `requested_modules` of each module, fixed for a behaviour |
| `record` | `evaluated` and whether there is a `failure`, of `ModuleRecord` |
| `body`, `parked` | how far each body has come, and what a parked one waits for |
| `calls` | the Rust calls in progress: `link_and_evaluate`, a body, the wait for an asynchronous module, `drain_jobs` |
| `queue`, `stopped` | the fields of `Vm` |
| `imports` | the promises of `import()` |
| `outcome`, `runs`, `awaits` | what the host was told, and the bounds |

The order is `visit`'s, computed once by `link`. `ModuleWalk` writes the recursion
of `visit` as the list of the visits in progress: a step (`Turn`) is one turn of
the innermost visit's loop, which enters the next module requested, passes over
one that has been seen, or places the module of a visit that has gone through its
list. `Turns` of them, the number of modules times the longest list and one, are
always enough, which `ModuleGraphProofs` shows. `Orders` holds the order of every
graph a behaviour may have, from every entry. Then each module of the order is
passed over, met as a failure, or run. A synchronous body is run by
`run_prepared`, which begins the budgets anew and drains the queue; an
asynchronous one by `run_async_module`, after which the caller looks at the
promise and drains while it is pending. A drain runs the job of an `import()`,
which evaluates a second graph inside the first.

Run `module_graph`: a diamond and a cycle of three modules, two of them with a
top-level await, and a module that cannot be linked; two runs, two `import()`,
two awaits and a budget that may run out anywhere. `EachBodyOnce` and
`DependenciesFirst` are what the record and the order are for, across runs and
nested evaluations; `AnswersTellTheGraph` relates what `import()` is told to the
records; `EveryImportAnswered` is the liveness, for all but runs that are cut
short and leave their jobs. There is no collector here: a capability that a
collection takes from under an `import()` is a matter of `Collector`
(`CarriedIsThere`). `DependenciesFirst` speaks of modules on no cycle
together and of failures that are recorded: see *Disagreements found* for what
that leaves out. Three modules are the least that have a diamond, or a cycle with
something below it. `MaxRequests` bounds the list of one module; the modules are
assumed to be none of the marks `ModuleGraph` uses beside them.

Fairness: the engine's loops go on, and a body that has control comes to an end
(weak). `CHECK_DEADLOCK FALSE`: a host may stop running graphs.

### ModuleGraphProofs

For any set of modules and any graphs over them: `OrderIsPostOrder`, and of every
behaviour `TypesHold` (`TypeOK`), `BodiesRunOnce` (`EachBodyOnce`),
`DependenciesGoFirst` (`DependenciesFirst`) and `AnswersAreTrue`
(`AnswersTellTheGraph`). `EveryImportAnswered`, a liveness, stays with TLC.

`OrderIsPostOrder` says what `visit` computes: exactly the modules the entry leads
to, each once, each behind every module it requests that does not lead back to
it. *Leads to* is defined apart from the walk, as membership in every set of
modules closed under requests. The walk's invariant has four parts: what is seen
is placed or being visited, never both, and nothing twice (`SeenOnce`); every
visit leads to the ones inside it and has seen what it followed (`VisitsFollow`);
what a placed module requests is placed before it or leads back to it
(`PlacedAfter`); and the turns used up are accounted for by the loops of the
modules seen, which is why `Turns` of them end it.

The invariant of the machine is `GraphInv`, one part for each piece of state: the
bodies, the calls in progress, the jobs, the promises of `import()`. Two of its
parts carry the proof. A body that is running or parked has been begun and is
marked evaluated (`BodiesFit`, `Begun`), so none is begun twice. And an evaluation
that is so many modules into its order (`Into`) has begun all of those and has met
no failure among them, and no evaluation above it has begun one of them: without
the last an `import()` nested in the wait for an asynchronous module could record
a failure behind the back of the evaluation below.

### Arena

`heap::arena::Arena`: slots that are reused, generations that tell a handle of
one occupant from a handle of the next, the free list.

| Variable | Code |
|---|---|
| `slots`, `generations`, `free` | the fields of `Arena` |
| `issued` | history: every handle given out, with its value |

`Get` is the look-up, `Place` takes the slot freed last or a new one, and
`Sweep` empties what the marks did not reach; a slot in its last generation is
emptied and never used again. It is checked as part of `Collector`: a handle names
its own value or nothing (`OwnValueOrNothing`), a handle whose value has gone
names nothing for ever (`GoneForGood`), and an empty slot is on the free list once
or has used up its generations (`NothingLeaks`).

`HeapProofs` proves the three of `Arena`'s own specification, for any number of
slots and generations (`NamesOwnValue`, `StaleForEver`, `NoSlotLost`). What makes
them inductive (`ArenaInv`) relates the history to the table: no handle was issued
in a generation its slot has yet to reach, one of the current generation names the
value the slot holds, and none has been issued yet in the generation a freed slot
is going to be used in.

### Collector

Marking, weak entries and pruning (`heap/collect.rs`) over the objects of an
`Arena`, and when a machine collects (`Vm::collect_running`).

| Variable | Code |
|---|---|
| `slots`, `generations`, `free`, `issued` | the arena of objects, `EXTENDS Arena` |
| `kind`, `links` | what an object is and the handles it leads to unconditionally |
| `entries`, `target` | entries of a weak map, cells of a registry; what a `WeakRef` names |
| `held` | what `Vm::roots` reaches at once: all a program can name |
| `locals`, `native` | handles a native has in Rust locals only, and whether one is running a script (`Vm::reentries`) |
| `carried` | handles only what is around a run or a drain has, with nothing re-entered: to call or ask later (`call`), or to hand back as they are (`answer`) |
| `stale` | answers of that kind that had gone when they were handed back, until the program drops them |

`Walk` is `mark_value` and `mark_object`, `MarkWeak` the repeated passes of
`mark_weak_entries`, `Prune` and the arena's `Sweep` the rest; `Collect` is allowed
only where no native is running a script (DR-0023). The check in the dispatch loop
looks at `reentries`; the drain does not, and need not, because it is reached only
where a run or the evaluation of a module stops, with `reentries` at 0.

That is not the same as nothing being held. An `import()` whose job has been taken
keeps its capability in a Rust local over the evaluation of a graph, whose module
bodies drain the jobs; the evaluation of an asynchronous module keeps its promise
in the same way, and a run the answer it will give. No root names these. They are
`carried` (`Carry`), and `Collect` frees them if nothing else holds them
(`CarriedIsThere` below). `HandBack` is what comes of that: a capability that has
gone is not callable, and nothing happens; an answer is returned as it is. With a
stale answer in hand the program may only drop it (`Drop`). If it kept it, marking,
which goes by the slot (`heap/collect.rs:222`), could stop at the slot's next
occupant, and the model does not follow a program there.

Entries are a set and a pass looks at
all of them at once, where the code goes through them in order and lets a key just
reached count for the next: the passes go on until one marks nothing, so both end
with the same marks. `Walk` and `MarkWeak` repeat a step as often as there are
slots, which `HeapProofs` shows is often enough.

Run `collector`: a collection frees nothing a program can reach and keeps nothing
but that and the values of living keys (`CollectsExactly`); no handle the engine
will follow is stale, but an answer that went while it was carried (`NoDangling`); an entry goes only because its key did
(`EntriesFollowKeys`); and the three properties of the arena.

Reachability is defined apart from the marking, as membership in every set closed
under what the language calls reachable. What is kept is more than that:
`mark_weak_entries` looks into every weak collection of the arena, reached or
not, so a map nothing reaches keeps the values of its living keys, and itself
when a value leads back to it. `heap/collect.rs:94` says that everything the roots
cannot reach is freed; `CollectsExactly` states what the code does, with
`ReachableByAnyMap` in the place of `Reachable`.

Bounds: three objects in three slots, two generations (so that slots do run out of
them), `MaxReferences` links and entries in all. Two entries, one keyed by the map
itself, are enough for a pass that comes too early; an object freed early leaves
its slot, under another generation, to one made later. One handle is carried at a
time (`MaxCarried`); `HeapProofs` has no bound on them. A stale answer, also one whose
slot is in use again, is among the states.

### HeapProofs: the collector

`HeapProofs` holds the theorems of `heap/`: about the arena and the collector, and
about shared blocks, two specifications with no state in common (the names of the
second's begin with `Block` where they would otherwise be the same).

For any set of objects, length of the table and number of references, every
property the run checks: `TypesKept`, `NothingFollowedIsFreed` (`NoDangling`),
`CollectionIsExact` (`CollectsExactly`), `EntriesKept` (`EntriesFollowKeys`), and
through `CollectorIsArena`, that the steps of a collector are steps of the arena or
leave it alone, the theorems of the arena.

The invariant is `CollectorInv`. Its core is `Sound`: everything the engine will
follow, from what the program holds, a native has in locals or a live object leads
to, is live. What makes it inductive is that a collection happens only while no
native has locals (`NoLocalsOutside`), that what a freed object held went with it
(`EmptyWhenGone`), and that only collections have entries. What is carried is no
part of the invariant: the theorems hold although a drain may free it, because
handing it back gives the program only what is still there (`HandingBackKeeps`) or
an answer it cannot keep (`DroppingKeeps`).

What a collection marks is defined by repetition. `WalkReaches` and `MarksReach`
say that repeating as often as there are slots reaches a set that one more step
does not change: a set of slots that grew every time would have more members than
there are slots (`RepeatsSettle`). `MarksReach` gives both directions: the marks
are closed, and every closed set contains them. They are therefore exactly
`ReachableByAnyMap`. The induction over the repetitions is over a set of numbers,
by its least counterexample (`Induction`).

### SharedBlock

A block of shared memory and its agents, which are threads: every critical
section of the block's lock is one step.

| Variable | Code |
|---|---|
| `bytes`, `waiters`, `next` | the fields of `heap::buffer::State` |
| `asleep` | threads blocked on the condition variable |
| `phase`, `local` | where each agent's operation is and what it holds |
| `parked`, `promises` | `Vm::waiters`, the promises of `waitAsync` |
| `due` | deadlines that have passed |
| `answer`, `settled`, `taken`, `owes` | history |

| Run | Question |
|---|---|
| `shared_block` | three agents on one position: no wake-up is lost (`NoLostWakeup`), a wait that was counted answers "ok" whatever the clock says (`CountedIsAnswered`), the oldest waiter goes first (`OldestFirst`) |
| `shared_drain` | promises of `waitAsync` beside blocking waits, one agent with a run budget and one without: each is answered once (`AnsweredOnce`), and what was counted or has a deadline is answered at all (`AnswersCome`) |
| `shared_grow` | "a shared buffer may only get bigger": **violated** |

`waitAsync` compares under the lock and registers its promise after; that is one
step here because only the agent itself notifies its own promises. Bounds:
`MaxWaits`, `MaxPromises` (of all agents), `Polling` (the agents whose programs
queue jobs), `MaxLength` in slots. Deadlock is checked: an agent can always end.
Fairness (`FairSpec`): weak for the lock, the clock and the drain loop, strong for
the end of scripts and jobs, none for spurious wake-ups, notifications or anything
a program chooses. There is no timer: `Vm::expire_waiters` looks at the clock
between two jobs, or sleeps when none is left, and `AnswersCome` says that this is
enough for every promise with a deadline in a run without a budget. A machine with
one may be stopped first and leave the promise pending.

### HeapProofs: shared blocks

For any number of agents, slots, values, waits and promises:

- `CountedAnswered` (`CountedIsAnswered`), from `WaitsInv`: each wait that was
  begun is on the list once, or was counted and will say "ok", or has been
  answered; the thread it belongs to is the one that waits for it.
- `TakesOldest` (`OldestFirst`) and `AnswersAreFinal` (`AnsweredOnce`), the latter
  from `PromisesInv`: a promise is pending exactly while its agent's list has it,
  which it does once.
- `NoWakeupLost`: `BlockSpec /\ OnlyGrows => []NoLostWakeup`. The hypothesis is the
  property the run `shared_grow` finds violated. It is needed: on a block that got
  shorter a wait may stand on a slot the block no longer has, which nothing can
  compare, write or notify.
  `NoneLostAtFullLength` discharges it for a block made with its greatest length,
  whose `grow` has nothing to do.

`FirstOn` is a set of places on a list, and `Without` the one list that is left
when they go, said as a set with one member: its entries are the others, in
ascending order of where they stood.

### PropertyRules, ArrayObject

`Validate` and `Apply` are the two halves of ValidateAndApplyPropertyDescriptor
(`heap/define.rs`). `ArrayObject` is an array whose `length` and indices are wired
together in both directions (`heap/array.rs`).

| Variable | Code |
|---|---|
| `table` | the array's own properties: its indices and `length` |
| `extensible` | the object's flag |
| `outcome` | what the last operation answered |

An action is a whole operation: `Define` with every descriptor that names one
kind, `Assign`, `Delete`, `PreventExtensions`, and `Shut` (seal and freeze). None
of them runs a script between its steps. `SetLength` deletes from the top and
stops above the first index that refuses; which one that is `ReachedFrom` says as
a set with one member.

`LengthAboveIndices` and `PermanentStays` (an action property: what the language
lets a program rely on for ever) are checked in the run `proxies` and proved in
`ObjectProofs` for every set of values and arrays of any length: `LengthIsAbove`
and `PermanentDoesStay`. The invariant is `ArrayInv`, type correctness with
`LengthAboveIndices`: the second is needed for a shortening that is refused half
way, whose `length` must still be above what is left. The lemmas are about
`Apply`: whatever `Validate` lets through makes a property again, leaves a
permanent one what it may become (`ApplyKeeps`), and leaves `length` what it was
asked to be (`ApplyKeepsLength`). `KeyByKey` is what an operation then has to
show, one key at a time. `ArrayAssumption` says that the marks for "no property"
and "no field" are not values, and that `length` is not an index.

### ProxyPromises

A chain of `Depth` proxies over one array; every trap answers whatever it likes,
and only the checks of `vm/proxy.rs` and `vm/proxy_shape.rs` are the engine's. A
program asks the outermost proxy about one key and keeps a record of what the
answers promise for ever. Meanwhile the array is changed directly.

| Variable | Code |
|---|---|
| `table`, `extensible`, `outcome` | the array |
| `watched`, `promised`, `kept` | history: the key, what has been promised, whether every answer kept to it |

What one level answers the next is checked against, so `OwnAt[n]`, `ReadAt[n]` and
`ListedAt[n]` are sets: all answers `n` proxies may give. `MayDescribe`,
`MayDefine`, `MayRead`, `MayWrite`, `MayList` and `MayLose` are the checks.

Run `proxies`: two proxies before an array of up to two elements. Two are one
proxy whose target is ordinary and one whose target is itself a proxy that answers
differently each time. `PromisesKept` says that no answer that passes the checks
contradicts an earlier one, and `MayOmit` FALSE that a trap's descriptor has all
its fields; with TRUE it fails, which is the run `proxy_described`.

Left out: `enumerable`, the two prototype traps, calls, revocation, and a script
that changes the array between two checks of the same answer (a getter of the
trap's own descriptor or list may).

### ObjectProofs

Beside the two theorems about arrays above, for chains of any number of proxies:
`ProxiesKeepPromises` (`PromisesKept`) and `ProxyTypesHold` (`TypeOK`), with
`MayOmit` FALSE, and `ProxiesImplementArray`, without it: whatever traps answer,
what happens to the array behind them is a behaviour of the array alone, so
`LengthIsAbove` and `PermanentDoesStay` hold there too. With `MayOmit` TRUE
`PromisesKept` is false (`proxy_described`).

The argument is by levels. An answer is `Faithful` if it is permanent exactly when
the array's own property is, then agrees with it up to the value of a writable
one, and, on an array that takes no more, is missing exactly when the property is.
The array's own answer is faithful, and what the checks of one proxy let through
is faithful if the answer it is compared with is (`DescribingIsFaithful`,
`AbsenceIsFaithful`), hence so is every level's (`OwnIsFaithful`, by induction over
the levels), and so are reads and lists of keys (`ReadIsFaithful`,
`ListIsFaithful`). This is why the checks of one proxy may rely on a target that
is a proxy itself. The invariant, `PromiseInv`, says that what was promised is what
the array's own property has been or still is, up to what a permanent property may
become; that the array's steps keep it is `PermanentStays`.

## What is proved, what is only model-checked

Proved for every value of the constants, with what hypotheses, where the runs
check an instance:

| Module | Proved | Under |
|---|---|---|
| `PromiseJobs` | `TypeOK`, `OneResolver`, `SettledOnce`, `ReactionsFollow`, `NoReactionLost`, `ReportIsExact`, `Answerable`, `KeepsPromises` | |
| `PromiseGroup` | all four properties, the refinement among them | |
| `AsyncGenerator` | `TypeOK` | |
| | `QueueTellsState`, `ServesInOrder` | `MayIntrude = FALSE` |
| `Arena`, `Collector` | all seven properties | |
| `ModuleGraph` | `TypeOK`, `EachBodyOnce`, `DependenciesFirst`, `AnswersTellTheGraph` | |
| `Activation` | `StacksAreOwn`, `GeneratorHasOneHome`, `RegistersAreOwn` | |
| `SharedBlock` | `CountedIsAnswered`, `OldestFirst`, `AnsweredOnce` | |
| | `NoLostWakeup` | `OnlyGrows`, or a block at full length |
| `ArrayObject` | `LengthAboveIndices`, `PermanentStays` | |
| `ProxyPromises` | `TypeOK`, `PromisesKept` | `MayOmit = FALSE` |

Otherwise the proofs of a module assume only what it states of its constants,
which every run of it evaluates.

Every invariant, action property and refinement a passing run checks is among
them. Only model-checked: all liveness (`AdoptionEnds`, `AnswersCome`,
`EveryRequestAnswered`, `EveryImportAnswered`), which is out of the prover's reach,
and the instances the hypotheses leave out. The type invariants of `SharedBlock` and
`Activation` document their state and are in no configuration.

## Disagreements found

Three runs each check one property and find it violated.

- `shared_grow`: `grow` compares the length in one critical section and sets it
  in another (`builtins/shared.rs:179`, `:185`). Two agents growing one block may
  make it smaller.
- `module_early`: a module is marked evaluated before its body runs, and a later
  evaluation passes over every module so marked (`vm/module.rs:218`), parked or
  not. An `import()` made meanwhile runs what imports it against unset bindings.
- `proxy_described`: `proxy_own_property` compares the descriptor as the trap gave
  it and answers the completed one (`vm/proxy_shape.rs:235`), so one that leaves
  `writable` out reports a writable permanent property as one that can never be
  written.

The next are stated in the modules and are in no configuration. Each is violated
in the instance named, with the property in the place of the ones it lists.

| Property | Instance | What the code does |
|---|---|---|
| `InterruptedRunLeavesQueue` | `PromiseJobs.cfg` | `run_prepared` checks `stopped` before `drain_jobs` (`vm/mod.rs:956`) and never after, and the drain does not look at it. When the budget is spent inside a job the remaining ones are taken off the queue, each cut off at its first instruction, and the run answers as if it had completed. DR-0022 (line 43) says the queue is left as it stands. |
| `NothingClearsTheStop` | `ModuleGraph.cfg` | `run_prepared` clears `stopped` (`vm/mod.rs:898`), and a nested synchronous module body is run by it: an `import()` in a job gives a stopped machine a new budget. DR-0022 (lines 40-41) says nothing a script does can clear it. The list of unhandled rejections is cleared with it (line 902). |
| `VarEnvironmentIsOwn` | `Activation.cfg` | `unwind` gives a caller back every register of its frame but the variable environment (`vm/mod.rs:1108`), so a direct eval after the catch puts its `var`s elsewhere (`vm/eval.rs:221`). |
| `StoresThroughOwn` | `Activation.cfg` | `park` takes the whole list of pending references, its caller's included, and `revive` overwrites the list (`vm/suspend.rs:186`), where the comment above it says the opposite. |
| `AwaitsResumeOwn` | `AsyncGenerator.cfg`, `MayIntrude = TRUE` | after a yield `serve_queued` resumes the body if anything is parked (`vm/execute.rs:1919`). If an accessor asked meanwhile and the body awaits, that await is resumed with the wrong value, and again by its own job; `vm/async_fn.rs:169` says each is called exactly once. |
| `CarriedIsThere` | `Collector.cfg` | a drain collects with no root for what its caller has in Rust locals, where `vm/jobs.rs:141` says that no native holds anything. `import_job` loses the capability of an `import()` nobody else holds (`vm/module.rs:441-473`) and calls a stale handle: a program that had kept only the promise never sees it settled; `evaluate_async_module` loses its promise and reads it as rejected with `undefined` (`vm/module.rs:266-308`). What a run threw (`vm/mod.rs:947`) and what a module ended with (`vm/module.rs:298`, `:452`) may be handed back stale. |
| `RefusedShorteningMovesLength` | `Proxies.cfg` | a shortening that fails half way defines `length` with the other fields of the descriptor, which may be refused (`heap/array.rs:106`): elements are gone and `length` has not moved, where lines 20-23 say it ends one past the index that refused. |

To see `CarriedIsThere`, add it to the invariants of its instance: one object made,
carried, forgotten and collected.

Read off the code while modelling, with no property of their own:

- The cause of `VarEnvironmentIsOwn` has two more effects. A throw nothing in an
  execution catches skips its frames altogether, and whoever started the execution
  restores by hand: `nested` both environments and `this`, but not `new.target`
  and the realm; `run_script` the environments only. A native frame gives the realm
  back after the throw was settled, which may have moved to another frame
  (`vm/call.rs:702`).
- A suspension has no realm, although `vm/suspend.rs:243` says it is restored.
- An asynchronous module's body never begins the budgets, and one that is
  interrupted is answered as a value, although `api.rs:432` says
  `Error::Interrupted`. One that rejects returns without draining, which DR-0016
  says a run does.
- An interrupted synchronous dependency does not stop its graph. A dependency that
  has thrown, but whose failure is not recorded yet, is passed over as evaluated;
  and a member of a cycle may run after its partner failed.
- Two `import()` of one module that throws at its top level give the same error
  only if the second comes after the first's failure was recorded.
- `mark_environment`, `mark_value` and `mark_object` call one another
  (`heap/collect.rs:614`): a long chain of closures recurses as deep as it is long.

## Not modelled

The share of the implementation's lines these modules stand for is small, about a
twentieth, and most of the rest is not a matter of more models of this kind. What
is left out, and why:

- Unicode tables, a third of the lines: generated data.
- The lexer, the parser, static semantics and the compiler: functions of one text
  with no state that outlives a call. Their state space is the text, where the
  conformance suite's inputs say more than any bound a model checker reaches.
- Pure conversions (numbers, dates, strings, BigInt): the same, over doubles and
  strings.
- Library methods without shared state of their own, and the realm, which only
  makes objects.
- The instructions that only compute; `yield*`; species look-up and capabilities
  of foreign constructors; super calls; the depth limits.
- Reading and compiling the files of a module graph: a host's loader is a fixed
  graph here.
- The conformance harness, `judge/` and `lab/`: programs beside the engine.

Within reach and still open: environments and direct `eval`, keyed collections
under iteration, resizable buffers under views, closing an iterator on every
exit of a helper, and the backtracking matcher. They are the rest of the plan.

## Plan

1. *Done*: promises and jobs, combinators, async generators, activations, module
   evaluation, arena and collector, shared blocks, arrays and proxies.
2. *Proved*: every safety property of the passing runs. Liveness is not.
3. *To model next*: environments and direct `eval` on top of `Activation`;
   *LiveCollection* (tombstones and cursors); *ResizableView*; *IteratorClose*;
   *Matcher*.
