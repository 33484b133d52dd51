----------------------------- MODULE Activation -----------------------------
(***************************************************************************)
(* What a call saves and every exit restores (vm/call.rs, vm/execute.rs,   *)
(* vm/coerce.rs, vm/suspend.rs, vm/generator.rs): frames, handlers,        *)
(* operands, pending references and the registers of the machine.          *)
(*                                                                         *)
(* Compiled code is abstracted to the constructs that are open where it    *)
(* stands: blocks, `try` bodies, half-built operands, references resolved  *)
(* and not yet written through.  They nest, so a position is a sequence of *)
(* them and code opens and closes at its end.  The machine does not have   *)
(* this sequence: it has four stacks and the marks it takes of them, and   *)
(* the properties say that these always come out where the code is.        *)
(***************************************************************************)
EXTENDS Integers, Sequences, FiniteSets, SequencesExt

CONSTANTS MaxActivations,   \* bound: bodies entered, the script included
          MaxOpen,          \* bound: constructs open in one body
          MaxReentries,     \* executions started from Rust at a time
          Realms,
          Features          \* bound: what programs use, see FeatureNames

FeatureNames == {"with", "throw", "generator", "rust", "eval", "swallow"}

ASSUME ActivationAssumption ==
    /\ {MaxActivations, MaxOpen} \subseteq Nat \ {0}
    /\ MaxReentries \in Nat
    /\ Realms # {}
    /\ Features \subseteq FeatureNames

VARIABLES
    vm,        \* the fields of Vm this module is about, see TypeOK, and
               \* history: whether anything has been thrown
    rust,      \* the Rust calls that wait for an execution or run themselves
    own,       \* what each activation was entered with
    made,      \* how many activations there have been
    generators, \* the generators there are
    parked     \* the execution each of them holds

objects == <<generators, parked>>
vars == <<vm, rust, own, made, objects>>

Ids == 1..MaxActivations
Nobody == 0
Constructs == {"block", "try", "operand", "reference"}
Kinds == {"script", "eval", "plain", "construct", "generator"}
Bodies == {"plain", "construct", "generator"}

Truncate(s, n) == SubSeq(s, 1, IF n < Len(s) THEN n ELSE Len(s))
From(s, n) == SubSeq(s, n + 1, Len(s))

---------------------------------------------------------------------------
(* Code.  `preparing` is the part of a generator before GeneratorStart. *)

NoCode == [of |-> Nobody, open |-> <<>>, preparing |-> FALSE]
Open(code, construct) == [code EXCEPT !.open = Append(@, construct)]

\* What tells one operand or reference from another: who opened it and where.
Mark(code) == [of |-> code.of, at |-> Len(code.open)]

\* How many of the first n constructs are of one kind.
Count(open, construct, n) == Cardinality({i \in 1..n : open[i] = construct})
Blocks(open) == Count(open, "block", Len(open))

Here == vm.current
Executing == Here # NoCode
InBody == own[Here.of].kind \in Bodies
MayOpen == Executing /\ Len(Here.open) < MaxOpen
MayEnter == made < MaxActivations

NoRegisters == [env |-> [of |-> Nobody, level |-> 0], var |-> Nobody,
                this |-> Nobody, target |-> Nobody,
                realm |-> CHOOSE r \in Realms : TRUE]

NotParked == [code |-> NoCode]

Init ==
    LET regs == [NoRegisters EXCEPT !.env.of = 1, !.var = 1, !.this = 1] IN
    /\ vm = [stack |-> <<>>, handlers |-> <<>>, frames |-> <<>>,
             references |-> <<>>, regs |-> regs, escaped |-> FALSE,
             thrown |-> FALSE,
             current |-> [NoCode EXCEPT !.of = 1],
             floor |-> [handlers |-> 0, frames |-> 0]]
    /\ rust = <<>>
    /\ own = [a \in Ids |-> [kind |-> "script", regs |-> regs]]
    /\ made = 1
    /\ generators = {}
    /\ parked = [a \in Ids |-> NotParked]

---------------------------------------------------------------------------
(* Throwing. *)

\* Calls are abandoned down to the handler's.  Each gives back its registers,
\* the variable environment excepted.
Abandon(v, depth) ==
    IF Len(v.frames) <= depth THEN v
    ELSE LET frame == v.frames[depth + 1] IN
         [v EXCEPT !.frames = Truncate(@, depth),
                   !.regs = [frame.regs EXCEPT !.var = v.regs.var],
                   !.current = frame.code]

\* Then to where the handler was installed, with what was thrown.
LandInScope(v, handler) ==   \* mutation: stays in the block of the throw
    LET code == [handler.target EXCEPT !.open = Append(@, "operand"),
                                       !.of = v.current.of]
    IN [v EXCEPT !.stack = Append(Truncate(@, handler.depth), Mark(code)),
                 !.references = Truncate(@, handler.references),
                 !.current = code]

Land(v, handler) ==
    LET code == [handler.target EXCEPT !.open = Append(@, "operand"),
                                       !.of = v.current.of]
    IN [v EXCEPT !.regs.env = handler.env,
                 !.stack = Append(Truncate(@, handler.depth), Mark(code)),
                 !.references = Truncate(@, handler.references),
                 !.current = code]

\* Nothing above the floor wants it: the execution is over.
Escape(v) == [v EXCEPT !.escaped = TRUE,
                       !.frames = Truncate(@, v.floor.frames),
                       !.current = NoCode]

Unwind(v) ==
    LET handler == Last(v.handlers)
        thrown == [v EXCEPT !.thrown = TRUE]
    IN
    IF Len(v.handlers) > v.floor.handlers
    THEN Land(Abandon([thrown EXCEPT !.handlers = Front(@)], handler.frames), handler)
    ELSE Escape(thrown)

\* Any instruction may throw; most convert a value, and any conversion may.
Throw ==
    /\ Executing
    /\ "throw" \in Features
    /\ vm' = Unwind(vm)
    /\ UNCHANGED <<rust, own, made, objects>>

---------------------------------------------------------------------------
(* Instructions that open a construct, and the ones that close it. *)

PushScope ==
    /\ MayOpen
    /\ vm' = [vm EXCEPT !.current = Open(Here, "block"),
                        !.regs.env.level = @ + 1]

PushHandler ==
    /\ MayOpen
    /\ "throw" \in Features
    /\ LET handler == [target |-> Here, frames |-> Len(vm.frames),
                       depth |-> Len(vm.stack), env |-> vm.regs.env,
                       references |-> Len(vm.references)]
       IN vm' = [vm EXCEPT !.current = Open(Here, "try"),
                           !.handlers = Append(@, handler)]

PushOperand ==
    /\ MayOpen
    /\ vm' = [vm EXCEPT !.current = Open(Here, "operand"),
                        !.stack = Append(@, Mark(Open(Here, "operand")))]

ResolveName ==
    /\ MayOpen
    /\ "with" \in Features
    /\ vm' = [vm EXCEPT !.current = Open(Here, "reference"),
                        !.references = Append(@, Mark(Open(Here, "reference")))]

\* PopScope, PopHandler, Pop and StoreThrough.  Each pops what is on top of
\* its own stack, whoever pushed it, and faults if there is nothing.
Close ==
    /\ Executing
    /\ Here.open # <<>>
    /\ LET v == [vm EXCEPT !.current.open = Front(@)] IN
       CASE Last(Here.open) = "block" ->
              vm' = [v EXCEPT !.regs.env.level = @ - 1]
         [] Last(Here.open) = "try" ->
              v.handlers # <<>> /\ vm' = [v EXCEPT !.handlers = Front(@)]
         [] Last(Here.open) = "operand" ->
              v.stack # <<>> /\ vm' = [v EXCEPT !.stack = Front(@)]
         [] Last(Here.open) = "reference" ->
              v.references # <<>> /\ vm' = [v EXCEPT !.references = Front(@)]

Step ==
    /\ PushScope \/ PushHandler \/ PushOperand \/ ResolveName \/ Close
    /\ UNCHANGED <<rust, own, made, objects>>

---------------------------------------------------------------------------
(* Calls and returns.  The receiver, the callee and the arguments are on  *)
(* the stack and off it again within the step; what is left is the answer.*)

\* The frame of a call made from `code`, whose answer will go where the
\* callee was.
FrameFrom(v, code, kind) ==
    [code |-> code, regs |-> v.regs, stack_base |-> Len(v.stack),
     handlers_base |-> Len(v.handlers), constructed |-> kind = "construct",
     generator |-> Nobody]

Entered(id, kind, realm) ==
    [env |-> [of |-> id, level |-> 0], var |-> id, this |-> id,
     target |-> IF kind = "construct" THEN id ELSE Nobody, realm |-> realm]

\* enter_at, from where the frame is ready: the new activation's registers.
EnterBody(v, frame, kind, realm) ==
    LET id == made + 1 IN
    /\ kind \in Bodies
    /\ kind = "generator" => "generator" \in Features
    /\ made' = id
    /\ own' = [own EXCEPT ![id] =
                   [kind |-> kind, regs |-> Entered(id, kind, realm)]]
    /\ vm' = [v EXCEPT !.stack = Truncate(@, frame.stack_base),
                       !.frames = Append(@, frame),
                       !.regs = Entered(id, kind, realm),
                       !.current = [of |-> id, open |-> <<>>,
                                    preparing |-> kind = "generator"]]
    /\ UNCHANGED objects

Call ==
    /\ MayOpen /\ MayEnter
    /\ \E kind \in Bodies, realm \in Realms :
        EnterBody(vm, FrameFrom(vm, Open(Here, "operand"), kind), kind, realm)
    /\ UNCHANGED rust

\* A call in tail position inherits the frame it would have returned
\* through, unless that frame's return has work to do.
TailCall ==
    /\ Executing /\ MayEnter
    /\ InBody /\ ~Here.preparing
    /\ {Here.open[i] : i \in DOMAIN Here.open} \subseteq {"block", "operand"}
    /\ vm.frames # <<>>
    /\ LET frame == Last(vm.frames) IN
       /\ ~frame.constructed /\ frame.generator = Nobody
       /\ \E kind \in Bodies \ {"construct"}, realm \in Realms :
            EnterBody([vm EXCEPT !.frames = Front(@)], frame, kind, realm)
    /\ UNCHANGED rust

\* What returning and parking share: the caller's half of the frame.  The
\* answer goes where the callee was.

LeaveFrame(v) ==
    LET frame == Last(v.frames) IN
    [v EXCEPT !.frames = Front(@),
              !.stack = Append(Truncate(@, frame.stack_base),
                               Mark(frame.code)),
              !.handlers = Truncate(@, frame.handlers_base),
              !.regs = frame.regs,
              !.current = frame.code]

\* return_from_call.  `return` may stand inside blocks, operands and tries;
\* being a statement it has no reference of its body pending around it.
Return ==
    /\ Executing
    /\ InBody /\ ~Here.preparing
    /\ \A i \in DOMAIN Here.open : Here.open[i] # "reference"
    /\ vm.frames # <<>>
    /\ vm' = LeaveFrame(vm)
    /\ UNCHANGED <<rust, own, made, objects>>

\* The end of a chunk that is not a function's: `execute` has nothing to do.
ChunkEnds ==
    /\ Executing
    /\ ~InBody
    /\ Here.open = <<>>
    /\ vm' = [vm EXCEPT !.current = NoCode]
    /\ UNCHANGED <<rust, own, made, objects>>

---------------------------------------------------------------------------
(* Generators. *)

Rebased(handlers, by) ==
    [i \in DOMAIN handlers |->
        [handlers[i] EXCEPT !.frames = @ + by.frames, !.depth = @ + by.depth]]

\* park: the callee's half of the frame goes into the generator.  The list of
\* references goes whole.
Park(v, resumed, begun) ==
    LET frame == Last(v.frames)
        by == [frames |-> 1 - Len(v.frames), depth |-> - frame.stack_base]
    IN [code |-> resumed, begun |-> begun,
        env |-> v.regs.env, var |-> v.regs.var,
        this |-> v.regs.this, target |-> v.regs.target,
        stack |-> From(v.stack, frame.stack_base),
        references |-> v.references,
        handlers |-> Rebased(From(v.handlers, frame.handlers_base), by)]

\* The registers a suspension carries; the realm is not one of them.
ReviveInScope(regs, p) ==   \* mutation: where the caller's `var`s belong
    [regs EXCEPT !.env = p.env, !.this = p.this, !.target = p.target]
RevivedRegisters(regs, p) ==
    [regs EXCEPT !.env = p.env, !.var = p.var, !.this = p.this,
                 !.target = p.target]

\* revive: the caller, whose position is `code`, waits in a new frame.  What
\* was sent is the value of the expression that parked.
Revive(v, code, g) ==
    LET p == parked[g]
        by == [frames |-> Len(v.frames), depth |-> Len(v.stack)]
        frame == [FrameFrom(v, code, "plain") EXCEPT !.generator = g]
    IN [v EXCEPT !.frames = Append(@, frame),
                 !.stack = @ \o p.stack \o <<Mark(p.code)>>,
                 !.handlers = @ \o Rebased(p.handlers, by),
                 !.references = p.references,
                 !.regs = RevivedRegisters(@, p),
                 !.current = p.code]

Suspend(g, begun) ==
    LET resumed == [Open(Here, "operand") EXCEPT !.preparing = FALSE] IN
    /\ parked' = [parked EXCEPT ![g] = Park(vm, resumed, begun)]
    /\ vm' = [LeaveFrame(vm) EXCEPT !.references = <<>>]
    /\ UNCHANGED <<rust, own, made>>

\* start_generator: the parameters are done, the call answers the object.
GeneratorStart ==
    /\ Executing
    /\ Here.preparing /\ Here.open = <<>>
    /\ generators' = generators \cup {Here.of}
    /\ Suspend(Here.of, FALSE)

\* yield_from_generator.  Which generator this is, the frame says.
Yield ==
    /\ MayOpen
    /\ own[Here.of].kind = "generator" /\ ~Here.preparing
    /\ Last(vm.frames).generator # Nobody
    /\ Suspend(Last(vm.frames).generator, TRUE)
    /\ UNCHANGED generators

Running(g) == \E i \in DOMAIN vm.frames : vm.frames[i].generator = g

\* What was asked is answered without running anything.
Results(v, code) == [v EXCEPT !.stack = Append(@, Mark(code)), !.current = code]

\* enter_resume, with the completions of `next`, `throw` and `return`: a
\* running generator refuses, a parked one is revived, a finished one answers.
ResumeRunning(v, g) ==
    /\ Running(g)
    /\ "throw" \in Features
    /\ vm' = Unwind(v)
    /\ UNCHANGED parked

CopyParked(g) == parked   \* mutation: the suspension is not moved out
TakeParked(g) == [parked EXCEPT ![g] = NotParked]

ResumeParked(v, code, g, how) ==
    LET revived == Revive(v, code, g) IN
    /\ ~Running(g) /\ parked[g] # NotParked
    /\ parked' = TakeParked(g)
    /\ vm' = IF how = "throw" THEN Unwind(revived)
             ELSE IF how = "return" /\ ~parked[g].begun THEN Results(v, code)
             ELSE revived

ResumeFinished(v, code, g, how) ==
    /\ ~Running(g) /\ parked[g] = NotParked
    /\ vm' = IF how = "throw" THEN Unwind(v) ELSE Results(v, code)
    /\ UNCHANGED parked

\* By the code that will stand at `code` when it has the answer.
Resume(v, code, g, how) ==
    /\ how = "throw" => "throw" \in Features
    /\ \/ ResumeRunning(v, g)
       \/ ResumeParked(v, code, g, how)
       \/ ResumeFinished(v, code, g, how)
    /\ UNCHANGED <<own, made, generators>>

CallResume ==
    /\ MayOpen
    /\ \E g \in generators, how \in {"next", "throw", "return"} :
        Resume(vm, Open(Here, "operand"), g, how)
    /\ UNCHANGED rust

---------------------------------------------------------------------------
(* Executions started from Rust.  A Rust call waits while `running` and is *)
(* itself in control otherwise.                                            *)

MayReenter == MayOpen /\ Len(rust) < MaxReentries

\* The floors an execution above this one runs over.
Floor == [handlers |-> Len(vm.handlers), frames |-> Len(vm.frames)]

\* What a Rust call remembers; `entry` is where its answer goes.
Waiting(kind, running) ==
    [kind |-> kind, running |-> running, failed |-> FALSE,
     code |-> Open(Here, "operand"), entry |-> Len(vm.stack),
     realm |-> vm.regs.realm, regs |-> vm.regs, floor |-> vm.floor]

\* call_value from an instruction: a conversion runs `valueOf`, a property
\* read runs a getter.
Convert ==
    /\ MayReenter /\ MayEnter
    /\ "rust" \in Features
    /\ rust' = Append(rust, Waiting("conversion", TRUE))
    /\ \E kind \in Bodies \ {"construct"}, realm \in Realms :
        EnterBody([vm EXCEPT !.floor = Floor],
                  FrameFrom(vm, NoCode, kind), kind, realm)

\* enter_native: a built-in runs, in its own realm.
CallNative ==
    /\ MayReenter
    /\ "rust" \in Features
    /\ rust' = Append(rust, Waiting("native", FALSE))
    /\ \E realm \in Realms :
        vm' = [vm EXCEPT !.current = NoCode, !.regs.realm = realm]
    /\ UNCHANGED <<own, made, objects>>

NativeInControl == rust # <<>> /\ ~Last(rust).running

\* The built-in calls back: reach and nested.  Whether it calls a body or
\* resumes a generator, the execution is one of its own.
CallBack ==
    LET v == [vm EXCEPT !.floor = Floor] IN
    /\ NativeInControl
    /\ Last(rust).failed => "swallow" \in Features
    /\ rust' = [rust EXCEPT ![Len(rust)] =
                   [@ EXCEPT !.running = TRUE, !.failed = FALSE,
                             !.regs = vm.regs, !.floor = vm.floor]]
    /\ \/ /\ MayEnter
          /\ \E kind \in Bodies, realm \in Realms :
              EnterBody(v, FrameFrom(vm, NoCode, kind), kind, realm)
       \/ \E g \in generators, how \in {"next", "throw", "return"} :
              Resume(v, NoCode, g, how)

\* What the instruction that made the Rust call does with its answer.
Answered(v, call) ==
    [v EXCEPT !.stack = Append(Truncate(@, call.entry), Mark(call.code)),
              !.current = call.code]
Failed(v, call) ==
    Unwind([v EXCEPT !.stack = Truncate(@, call.entry),
                     !.current = call.code])

\* The realm goes back after a throw has been settled.
NativeAnswers ==
    /\ NativeInControl
    /\ Last(rust).failed => "swallow" \in Features
    /\ vm' = [Answered(vm, Last(rust)) EXCEPT !.regs.realm = Last(rust).realm]
    /\ rust' = Front(rust)
    /\ UNCHANGED <<own, made, objects>>

NativeThrows ==
    /\ NativeInControl
    /\ "throw" \in Features
    /\ vm' = [Failed(vm, Last(rust)) EXCEPT !.regs.realm = Last(rust).realm]
    /\ rust' = Front(rust)
    /\ UNCHANGED <<own, made, objects>>

\* perform_direct_eval of a sloppy caller and run_script: a chunk with an
\* environment of its own and nothing else.
DirectEval ==
    /\ MayReenter /\ MayEnter
    /\ "eval" \in Features
    /\ rust' = Append(rust, Waiting("eval", TRUE))
    /\ LET id == made + 1
           env == [of |-> id, level |-> 0]
       IN /\ made' = id
          /\ own' = [own EXCEPT ![id] =
                [kind |-> "eval", regs |-> [own[Here.of].regs EXCEPT !.env = env]]]
          /\ vm' = [vm EXCEPT !.floor = Floor, !.regs.env = env,
                              !.current = [NoCode EXCEPT !.of = id]]
    /\ UNCHANGED objects

\* The execution is over.  nested puts back both environments, `this` and
\* the floors, run_script the environments and the floors.
ExecutionEnds ==
    /\ rust # <<>> /\ Last(rust).running
    /\ ~Executing
    /\ LET call == Last(rust)
           regs == [vm.regs EXCEPT !.env = call.regs.env, !.var = call.regs.var,
                        !.this = IF call.kind = "eval" THEN @
                                                       ELSE call.regs.this]
           back == [vm EXCEPT !.regs = regs, !.floor = call.floor,
                              !.escaped = FALSE,
                              !.stack = Truncate(@, call.entry)]
       IN IF call.kind = "native"
          THEN /\ rust' = [rust EXCEPT ![Len(rust)].running = FALSE,
                                       ![Len(rust)].failed = vm.escaped]
               /\ vm' = back
          ELSE /\ rust' = Front(rust)
               /\ vm' = IF vm.escaped THEN Failed(back, call)
                                      ELSE Answered(back, call)
    /\ UNCHANGED <<own, made, objects>>

---------------------------------------------------------------------------

Next ==
    \/ Step
    \/ Throw
    \/ Call \/ TailCall \/ Return \/ ChunkEnds
    \/ GeneratorStart \/ Yield
    \/ CallResume
    \/ Convert \/ CallNative \/ CallBack \/ NativeAnswers \/ NativeThrows
    \/ DirectEval \/ ExecutionEnds

Spec == Init /\ [][Next]_vars
---------------------------------------------------------------------------
(* Properties. *)

Code == [of : 0..MaxActivations, open : Seq(Constructs), preparing : BOOLEAN]
Environment == [of : 0..MaxActivations, level : Nat]
RegistersOk(regs) ==
    /\ regs.env \in Environment
    /\ {regs.var, regs.this, regs.target} \subseteq 0..MaxActivations
    /\ regs.realm \in Realms

\* Types, and the bound on what one body has open.
TypeOK ==
    /\ vm.current \in Code /\ Len(vm.current.open) <= MaxOpen
    /\ RegistersOk(vm.regs)
    /\ \A i \in DOMAIN vm.frames :
        /\ vm.frames[i].code \in Code
        /\ RegistersOk(vm.frames[i].regs)
        /\ vm.frames[i].generator \in 0..MaxActivations
    /\ \A i \in DOMAIN vm.handlers :
        vm.handlers[i].target \in Code /\ vm.handlers[i].env \in Environment
    /\ {vm.escaped, vm.thrown} \subseteq BOOLEAN
    /\ Len(rust) <= MaxReentries
    /\ made \in Ids
    /\ generators \subseteq {g \in Ids : own[g].kind = "generator"}
    /\ \A g \in Ids : parked[g] # NotParked => g \in generators

\* Where the running body's operands and handlers begin.
BaseOf ==
    IF InBody THEN Last(vm.frames).stack_base
    ELSE IF rust = <<>> THEN 0 ELSE Last(rust).entry
HandlersBaseOf ==
    IF InBody THEN Last(vm.frames).handlers_base ELSE vm.floor.handlers

\* However the code got to where it stands - a call, a return, a throw, a
\* resumption, a conversion's end - the environment is its own body's, as many
\* blocks in as it is: a variable is found by counting from there.
EnvironmentIsOwn ==
    Executing => vm.regs.env = [of |-> Here.of, level |-> Blocks(Here.open)]

\* The operands above the body's base are the ones the code has built and not
\* yet used, in order: nothing of a callee, a throw or another resumption is
\* among them and nothing is missing.
OperandsFit(stack, code, base, top) ==
    /\ top = base + Count(code.open, "operand", Len(code.open))
    /\ \A i \in DOMAIN code.open : code.open[i] = "operand" =>
          stack[base + Count(code.open, "operand", i)] = [of |-> code.of, at |-> i]
OperandsAreOwn == Executing => OperandsFit(vm.stack, Here, BaseOf, Len(vm.stack))

\* The handlers above the body's base are those of the tries it stands in, and
\* each leads back to where its try began, at this body's depth: a throw finds
\* the innermost try of the running code and no callee's.
LeadsBack(handler, code, i, depth, base) ==
    /\ handler.target = [code EXCEPT !.open = SubSeq(@, 1, i - 1)]
    /\ handler.frames = depth
    /\ handler.depth = base + Count(code.open, "operand", i - 1)
    /\ handler.env = [of |-> code.of, level |-> Count(code.open, "block", i - 1)]
HandlersFit(handlers, code, depth, base, operands, top) ==
    /\ top = base + Count(code.open, "try", Len(code.open))
    /\ \A i \in DOMAIN code.open : code.open[i] = "try" =>
          LeadsBack(handlers[base + Count(code.open, "try", i)], code, i, depth, operands)
HandlersAreOwn ==
    Executing => HandlersFit(vm.handlers, Here, Len(vm.frames), HandlersBaseOf,
                             BaseOf, Len(vm.handlers))

\* park splits both stacks at a frame's marks and says that they are never
\* above the top.  Neither they nor the floors of a waiting Rust call nor the
\* marks of a handler ever are, and they never decrease along a stack.
MarksBelowTops ==
    LET f == vm.frames
        h == vm.handlers
    IN /\ \A i \in DOMAIN f :
            /\ f[i].stack_base <= Len(vm.stack)
            /\ f[i].handlers_base <= Len(h)
            /\ i > 1 => /\ f[i-1].stack_base <= f[i].stack_base
                        /\ f[i-1].handlers_base <= f[i].handlers_base
       /\ \A i \in DOMAIN h : h[i].frames <= Len(f) /\ h[i].depth <= Len(vm.stack)
       /\ vm.floor.frames <= Len(f) /\ vm.floor.handlers <= Len(h)
       /\ \A i \in DOMAIN rust :
            /\ rust[i].entry <= Len(vm.stack)
            /\ rust[i].floor.frames <= vm.floor.frames
            /\ rust[i].floor.handlers <= vm.floor.handlers

\* However the code got to where it stands, it finds what is its own, and no
\* mark is above its stack.
StacksAreOwn == EnvironmentIsOwn /\ OperandsAreOwn /\ HandlersAreOwn /\ MarksBelowTops

\* An execution cannot be entered twice: a generator's is parked, or is run by
\* one frame, or is finished.
GeneratorHasOneHome ==
    \A g \in Ids :
        /\ parked[g] # NotParked => ~Running(g) /\ parked[g].code.of = g
        /\ Cardinality({i \in DOMAIN vm.frames : vm.frames[i].generator = g}) <= 1

\* A `var` of a direct eval goes to the caller's own variable environment
\* (eval.rs walks out to it and says it cannot miss it).
VarEnvironmentIsOwn == Executing => vm.regs.var = own[Here.of].regs.var

\* `this` and `new.target` are what the running function was entered with.
ThisIsOwn == Executing => vm.regs.this = own[Here.of].regs.this
NewTargetIsOwn == Executing => vm.regs.target = own[Here.of].regs.target

\* Code runs in the realm its function was entered in, whatever it called or
\* resumed.  Not the body of a generator: the realm is not parked with it.
RealmIsOwn ==
    Executing /\ own[Here.of].kind \notin {"generator", "eval"} =>
        vm.regs.realm = own[Here.of].regs.realm

\* As long as nothing has been thrown every other way out of a frame, a body,
\* a conversion, a built-in or an eval gives the four back (after a throw some
\* do not: see VarEnvironmentIsOwn in the README).
RegistersAreOwn ==
    ~vm.thrown => VarEnvironmentIsOwn /\ ThisIsOwn /\ NewTargetIsOwn /\ RealmIsOwn

\* The reference a compound assignment writes through is the one it resolved.
\* The code breaks this: see the README.
StoresThroughOwn ==
    Executing /\ Here.open # <<>> /\ Last(Here.open) = "reference" =>
        vm.references # <<>> /\ Last(vm.references) = Mark(Here)

=============================================================================
