---------------------------- MODULE PromiseJobs ----------------------------
(***************************************************************************)
(* Promises, their resolving functions, the job queue and the life of a    *)
(* run: builtins/promise.rs, heap/promise.rs, vm/jobs.rs and run_prepared  *)
(* of vm/mod.rs.                                                           *)
(*                                                                         *)
(* The program being run is the environment: whenever a script, a handler, *)
(* a `then` getter or a `then` method has control (the top of `stack`) it  *)
(* may call any promise operation it can reach, in any order, and end by   *)
(* returning or throwing.  What the engine does in between is determined.  *)
(* A definition that stands directly before one of the same shape and is   *)
(* used nowhere (JobsReversed before JobsOf) is that definition with a bug *)
(* put in: PROJECT.json says which property notices it.                    *)
(* Objects are abstracted to the primitive values and to ForeignObject, an *)
(* object whose `then` is an accessor: reading it runs a script.           *)
(***************************************************************************)
EXTENDS Integers, Sequences, FiniteSets, Functions

CONSTANTS Promises,        \* identities of promise objects
          Settlers,        \* identities of pairs of resolving functions
          Primitives,      \* values that are not objects, and error reasons
          UndefinedValue,  \* what a native handler answers
          TypeError,       \* the reason of a promise resolved with itself
          ScriptValues,    \* bound: the primitives scripts answer and throw
          ForeignObject,   \* an object with an accessor `then`
          None,            \* no settler, or no promise
          MaxAwaits,       \* bound: perform_then calls after which none is awaited
          MaxRuns          \* bound: calls of Vm::run on the one machine

ASSUME NoneAssumption == None \notin Promises \cup Settlers
ASSUME ValuesAssumption ==
    /\ {UndefinedValue, TypeError} \cup ScriptValues \subseteq Primitives
    /\ ForeignObject \notin Primitives
    /\ (Primitives \cup {ForeignObject}) \cap Promises = {}
ASSUME BoundsAssumption == MaxAwaits \in Nat /\ MaxRuns \in Nat

VARIABLES state,      \* Promise.state, "absent" before the object is made
          result,     \* Promise.result
          fulfil,     \* Promise.fulfil, the reactions to a fulfilment
          reject,     \* Promise.reject, their twins for a rejection
          handled,    \* Promise.handled
          promiseOf,  \* Settler.promise
          resolved,   \* Settler.resolved, the flag the pair shares
          held,       \* the pairs whose functions a script has been given
          known,      \* the promises a script has been given
          jobs,       \* Vm.jobs
          unhandled,  \* Vm.unhandled
          stack,      \* the executions in progress, innermost last
          phase,      \* what Vm::run is doing
          stopped,    \* Vm.stopped
          outcome,    \* the Outcome of the last run
          runs,       \* how many runs have begun
          made        \* how many reactions have been made, naming the next

promiseVars == <<state, result, fulfil, reject, handled>>
settlerVars == <<promiseOf, resolved>>
scriptVars == <<held, known>>
runVars == <<phase, stopped, outcome, runs>>
vars == <<promiseVars, settlerVars, scriptVars, jobs, unhandled, stack,
          runVars, made>>

-----------------------------------------------------------------------------
(* The shapes of the data.                                                 *)

Data == Primitives \cup {ForeignObject}

(* What a reaction runs: a script's function, nothing at all, or one of    *)
(* the resolving functions of a pair, which is what adoption registers.    *)
Handlers == [call : {"script", "none"}, settler : {None}]
       \cup [call : {"resolve", "reject"}, settler : Settlers]
ScriptHandler == [call |-> "script", settler |-> None]
NoHandler == [call |-> "none", settler |-> None]

(* `id` tells apart reactions that are alike and `of` is the promise each  *)
(* was registered on; the code keeps neither.                              *)
Reactions == [id : Nat, of : Promises, kind : {"fulfil", "reject"},
              handler : Handlers, capability : Settlers \cup {None}]

ReactionJobs == [job : {"reaction"}, reaction : Reactions, argument : Data]
ThenableJobs == [job : {"thenable"}, promise : Promises,
                 thenable : Promises \cup {ForeignObject}]

(* What is executing.  "getThen" is the accessor resolve_promise reads,    *)
(* "callThen" the foreign `then` method a thenable job calls, "native" a   *)
(* reaction job whose handler is a resolving function.                     *)
Frames == [code : {"script", "handler", "native", "getThen", "callThen"},
           settler : Settlers \cup {None}, promise : Promises \cup {None}]
Frame(code, s, p) == [code |-> code, settler |-> s, promise |-> p]

TypeOK ==
    /\ state \in [Promises -> {"absent", "pending", "fulfilled", "rejected"}]
    /\ result \in [Promises -> Data]
    /\ fulfil \in [Promises -> Seq(Reactions)]
    /\ reject \in [Promises -> Seq(Reactions)]
    /\ handled \in [Promises -> BOOLEAN]
    /\ promiseOf \in [Settlers -> Promises \cup {None}]
    /\ resolved \in [Settlers -> BOOLEAN]
    /\ held \subseteq Settlers
    /\ known \subseteq Promises
    /\ jobs \in Seq(ReactionJobs \cup ThenableJobs)
    /\ unhandled \subseteq Promises
    /\ stack \in Seq(Frames)
    /\ phase \in {"idle", "script", "drain"}
    /\ stopped \in BOOLEAN
    /\ outcome \in {"none", "completed", "interrupted"}
    /\ runs \in Nat
    /\ made \in Nat

Init ==
    /\ state = [p \in Promises |-> "absent"]
    /\ result = [p \in Promises |-> UndefinedValue]
    /\ fulfil = [p \in Promises |-> <<>>]
    /\ reject = [p \in Promises |-> <<>>]
    /\ handled = [p \in Promises |-> FALSE]
    /\ promiseOf = [s \in Settlers |-> None]
    /\ resolved = [s \in Settlers |-> FALSE]
    /\ held = {}
    /\ known = {}
    /\ jobs = <<>>
    /\ unhandled = {}
    /\ stack = <<>>
    /\ phase = "idle"
    /\ stopped = FALSE
    /\ outcome = "none"
    /\ runs = 0
    /\ made = 0

-----------------------------------------------------------------------------
(* Helpers.                                                                *)

Pop(s) == SubSeq(s, 1, Len(s) - 1)
Top == stack[Len(stack)]

FreshPromises == {p \in Promises : state[p] = "absent"}
FreshSettlers == {s \in Settlers : promiseOf[s] = None}

(* Identities are interchangeable, so which unused one the arena hands out *)
(* is any fixed choice.                                                    *)
NewPromise == CHOOSE p \in FreshPromises : TRUE
NewSettler == CHOOSE s \in FreshSettlers : TRUE
OtherSettler == CHOOSE s \in FreshSettlers \ {NewSettler} : TRUE

(* A script has control and may go on: its machine has not been stopped.   *)
ScriptRuns == /\ stack # <<>>
              /\ Top.code # "native"
              /\ ~stopped

(* Bound: a script leaves enough identities unused for the jobs already    *)
(* queued, so that the bound never keeps the engine from running one.      *)
Room(promises, settlers) ==
    LET thenables == {i \in DOMAIN jobs : jobs[i].job = "thenable"}
        adoptions == {i \in thenables : jobs[i].thenable \in Promises}
    IN  /\ Cardinality(FreshPromises) >= Cardinality(adoptions) + promises
        /\ Cardinality(FreshSettlers) >=
               Cardinality(thenables) + Cardinality(adoptions) + settlers

(* The bound on what a script resolves with: adopting a promise will take  *)
(* a promise and two pairs.                                                *)
Answers == ScriptValues \cup {ForeignObject} \cup known
MayResolveWith(x) == x \in Promises => Room(1, 2)

-----------------------------------------------------------------------------
(* Settling.  `queue` is the job queue and `rest` the stack the operation  *)
(* goes on from, which its caller has already popped.                      *)

(* The jobs of the reactions a settlement takes, in the order the          *)
(* reactions were registered.                                              *)
ReactionJob(r, value) == [job |-> "reaction", reaction |-> r, argument |-> value]
JobsReversed(taken, value) ==
    [i \in DOMAIN taken |-> ReactionJob(taken[Len(taken) + 1 - i], value)]
JobsOf(taken, value) == [i \in DOMAIN taken |-> ReactionJob(taken[i], value)]

(* A rejection nothing has asked about goes to the host's list.            *)
Reports(p, to) == to = "rejected" /\ ~handled[p]

(* One list is queued with the result and the other dropped.  Like the     *)
(* code, nothing here looks at whether the promise is still pending.       *)
Settle(p, to, value, queue, rest) ==
    LET taken == IF to = "fulfilled" THEN fulfil[p] ELSE reject[p]
    IN  /\ state' = [state EXCEPT ![p] = to]
        /\ result' = [result EXCEPT ![p] = value]
        /\ fulfil' = [fulfil EXCEPT ![p] = <<>>]
        /\ reject' = [reject EXCEPT ![p] = <<>>]
        /\ jobs' = queue \o JobsOf(taken, value)
        /\ unhandled' = IF Reports(p, to) THEN unhandled \cup {p} ELSE unhandled
        /\ stack' = rest
        /\ UNCHANGED handled

NothingSettled(queue, rest) ==
    /\ jobs' = queue
    /\ stack' = rest
    /\ UNCHANGED <<promiseVars, unhandled>>

(* resolve_promise: a promise waits for a job, and an object for its own   *)
(* `then` to be read.                                                      *)
ResolveWithoutAdopting(p, x, queue, rest) ==
    \/ x \in Primitives \cup Promises /\ Settle(p, "fulfilled", x, queue, rest)
    \/ /\ x = ForeignObject
       /\ NothingSettled(queue, Append(rest, Frame("getThen", None, p)))
ResolvePromise(p, x, queue, rest) ==
    \/ x = p /\ Settle(p, "rejected", TypeError, queue, rest)
    \/ x \in Primitives /\ Settle(p, "fulfilled", x, queue, rest)
    \/ /\ x \in Promises \ {p}
       /\ NothingSettled(Append(queue, [job |-> "thenable", promise |-> p,
                                        thenable |-> x]), rest)
    \/ /\ x = ForeignObject
       /\ NothingSettled(queue, Append(rest, Frame("getThen", None, p)))

(* The two resolving functions: the first call of either claims the pair,  *)
(* a later one does nothing.                                               *)
ResolveWithoutClaiming(s, x, queue, rest) ==
    /\ ~resolved[s]
    /\ UNCHANGED resolved
    /\ ResolvePromise(promiseOf[s], x, queue, rest)
Resolve(s, x, queue, rest) ==
    \/ /\ resolved[s]
       /\ NothingSettled(queue, rest)
       /\ UNCHANGED resolved
    \/ /\ ~resolved[s]
       /\ resolved' = [resolved EXCEPT ![s] = TRUE]
       /\ ResolvePromise(promiseOf[s], x, queue, rest)

RejectAnyway(s, reason, queue, rest) ==
    /\ resolved' = [resolved EXCEPT ![s] = TRUE]
    /\ Settle(promiseOf[s], "rejected", reason, queue, rest)
Reject(s, reason, queue, rest) ==
    \/ /\ resolved[s]
       /\ NothingSettled(queue, rest)
       /\ UNCHANGED resolved
    \/ /\ ~resolved[s]
       /\ resolved' = [resolved EXCEPT ![s] = TRUE]
       /\ Settle(promiseOf[s], "rejected", reason, queue, rest)

(* What a reaction job does with its handler's answer; an await has no     *)
(* capability and the answer goes nowhere.                                 *)
ResolveCapability(s, x, queue, rest) ==
    IF s = None
    THEN NothingSettled(queue, rest) /\ UNCHANGED resolved
    ELSE Resolve(s, x, queue, rest)

RejectNobody(s, reason, queue, rest) ==
    NothingSettled(queue, rest) /\ UNCHANGED resolved
RejectCapability(s, reason, queue, rest) ==
    IF s = None
    THEN NothingSettled(queue, rest) /\ UNCHANGED resolved
    ELSE Reject(s, reason, queue, rest)

(* Which of the two reactions a settled promise runs.                      *)
ReactionTo(p, onFulfil, onReject) ==
    IF state[p] = "fulfilled" THEN onFulfil ELSE onReject

(* The promise has been asked about, so the host is not told of it.        *)
MarkOnly(p) == handled' = [handled EXCEPT ![p] = TRUE] /\ UNCHANGED unhandled
MarkHandled(p) == /\ handled' = [handled EXCEPT ![p] = TRUE]
                  /\ unhandled' = unhandled \ {p}

(* perform_then: the pair of reactions waits, or the one that applies is   *)
(* queued at once.                                                         *)
PerformThen(p, onFulfilled, onRejected, s, queue) ==
    LET reaction(kind, handler) ==
            [id |-> made, of |-> p, kind |-> kind, handler |-> handler,
             capability |-> s]
        onFulfil == reaction("fulfil", onFulfilled)
        onReject == reaction("reject", onRejected)
    IN  /\ \/ /\ state[p] = "pending"
              /\ fulfil' = [fulfil EXCEPT ![p] = Append(@, onFulfil)]
              /\ reject' = [reject EXCEPT ![p] = Append(@, onReject)]
              /\ jobs' = queue
           \/ /\ state[p] # "pending"
              /\ LET r == ReactionTo(p, onFulfil, onReject)
                 IN  jobs' = Append(queue, ReactionJob(r, result[p]))
              /\ UNCHANGED <<fulfil, reject>>
        /\ MarkHandled(p)
        /\ made' = made + 1
        /\ UNCHANGED result

(* A new promise and its pair of resolving functions.                      *)
Make ==
    /\ FreshPromises # {} /\ FreshSettlers # {}
    /\ Room(1, 1)
    /\ state' = [state EXCEPT ![NewPromise] = "pending"]
    /\ promiseOf' = [promiseOf EXCEPT ![NewSettler] = NewPromise]

-----------------------------------------------------------------------------
(* A run begins: Vm::run on the machine as the last one left it.           *)

BeginRun ==
    /\ phase = "idle"
    /\ runs < MaxRuns
    /\ phase' = "script"
    /\ runs' = runs + 1
    /\ stopped' = FALSE
    /\ unhandled' = {}
    /\ stack' = <<Frame("script", None, None)>>
    /\ UNCHANGED <<promiseVars, settlerVars, scriptVars, outcome, made>>
StartRunAfresh == BeginRun /\ jobs' = <<>>
StartRun == BeginRun /\ UNCHANGED jobs

-----------------------------------------------------------------------------
(* What a script may call.                                                 *)

(* new Promise(executor), and Promise.withResolvers.                       *)
Construct ==
    /\ ScriptRuns
    /\ Make
    /\ held' = held \cup {NewSettler}
    /\ known' = known \cup {NewPromise}
    /\ UNCHANGED <<result, fulfil, reject, handled, resolved, jobs, unhandled,
                   stack, runVars, made>>

(* A call of the first or the second function of a pair it holds.  A call  *)
(* on a pair already claimed changes nothing.                              *)
CallResolve(s, x) ==
    /\ ScriptRuns
    /\ s \in held
    /\ ~resolved[s]
    /\ MayResolveWith(x)
    /\ Resolve(s, x, jobs, stack)
    /\ UNCHANGED <<promiseOf, scriptVars, runVars, made>>

CallReject(s, reason) ==
    /\ ScriptRuns
    /\ s \in held
    /\ ~resolved[s]
    /\ Reject(s, reason, jobs, stack)
    /\ UNCHANGED <<promiseOf, scriptVars, runVars, made>>

(* promise.then(f, g), promise.catch(g): a derived promise, and a reaction *)
(* in each list or a job.                                                  *)
Then(p, onFulfilled, onRejected) ==
    /\ ScriptRuns
    /\ p \in known
    /\ Make
    /\ PerformThen(p, onFulfilled, onRejected, NewSettler, jobs)
    /\ known' = known \cup {NewPromise}
    /\ UNCHANGED <<resolved, held, stack, runVars>>

(* await p in an async body: both handlers revive the body, and there is   *)
(* no capability.                                                          *)
Await(p) ==
    /\ ScriptRuns
    /\ p \in known
    /\ made < MaxAwaits
    /\ PerformThen(p, ScriptHandler, ScriptHandler, None, jobs)
    /\ UNCHANGED <<state, settlerVars, scriptVars, stack, runVars>>

(* The budget is spent while a script has control.  It reads no further    *)
(* instruction, and neither does any other execution until the next run.   *)
Stop ==
    /\ ScriptRuns
    /\ stopped' = TRUE
    /\ UNCHANGED <<promiseVars, settlerVars, scriptVars, jobs, unhandled,
                   stack, phase, outcome, runs, made>>

-----------------------------------------------------------------------------
(* How an execution ends.  None of these asks whether the machine has been *)
(* stopped: an execution cut short answers its caller too, with whatever   *)
(* value is left on the operand stack or with an error, so the answers of  *)
(* a stopped machine are among these.                                      *)

(* The `then` accessor answered, with a function, with something else, or  *)
(* by throwing.                                                            *)
GetterReturnsFunction ==
    /\ stack # <<>> /\ Top.code = "getThen"
    /\ Room(0, 1)
    /\ NothingSettled(Append(jobs, [job |-> "thenable", promise |-> Top.promise,
                                    thenable |-> ForeignObject]), Pop(stack))
    /\ UNCHANGED <<settlerVars, scriptVars, runVars, made>>

GetterReturnsOther ==
    /\ stack # <<>> /\ Top.code = "getThen"
    /\ Settle(Top.promise, "fulfilled", ForeignObject, jobs, Pop(stack))
    /\ UNCHANGED <<settlerVars, scriptVars, runVars, made>>

GetterThrows(reason) ==
    /\ stack # <<>> /\ Top.code = "getThen"
    /\ Settle(Top.promise, "rejected", reason, jobs, Pop(stack))
    /\ UNCHANGED <<settlerVars, scriptVars, runVars, made>>

(* A reaction's handler answered.                                          *)
HandlerReturns(x) ==
    /\ stack # <<>> /\ Top.code = "handler"
    /\ MayResolveWith(x)
    /\ ResolveCapability(Top.settler, x, jobs, Pop(stack))
    /\ UNCHANGED <<promiseOf, scriptVars, runVars, made>>

HandlerThrows(reason) ==
    /\ stack # <<>> /\ Top.code = "handler"
    /\ RejectCapability(Top.settler, reason, jobs, Pop(stack))
    /\ UNCHANGED <<promiseOf, scriptVars, runVars, made>>

(* The resolving function an adoption registered has answered undefined.   *)
NativeReturns ==
    /\ stack # <<>> /\ Top.code = "native"
    /\ ResolveCapability(Top.settler, UndefinedValue, jobs, Pop(stack))
    /\ UNCHANGED <<promiseOf, scriptVars, runVars, made>>

(* A foreign `then` method answered.  What it returned is ignored; what it *)
(* threw rejects through the pair it was given, whose claim decides.       *)
ThenMethodReturns ==
    /\ stack # <<>> /\ Top.code = "callThen"
    /\ NothingSettled(jobs, Pop(stack))
    /\ UNCHANGED <<settlerVars, scriptVars, runVars, made>>

ThenMethodThrows(reason) ==
    /\ stack # <<>> /\ Top.code = "callThen"
    /\ Reject(Top.settler, reason, jobs, Pop(stack))
    /\ UNCHANGED <<promiseOf, scriptVars, runVars, made>>

(* The script ended, by its last statement, by a throw nothing caught or   *)
(* by being stopped.  Only the last leaves the queue as it stands.         *)
ScriptEnds ==
    /\ stack # <<>> /\ Top.code = "script"
    /\ stack' = Pop(stack)
    /\ phase' = IF stopped THEN "idle" ELSE "drain"
    /\ outcome' = IF stopped THEN "interrupted" ELSE outcome
    /\ UNCHANGED <<promiseVars, settlerVars, scriptVars, jobs, unhandled,
                   stopped, runs, made>>

-----------------------------------------------------------------------------
(* drain_jobs.                                                             *)

Draining(job) == /\ phase = "drain"
                 /\ stack = <<>>
                 /\ jobs # <<>>
                 /\ Head(jobs).job = job

(* A reaction job.  A script's handler is entered; a missing one passes    *)
(* the argument through; a resolving function runs at once, and the        *)
(* derived promise is settled when it is done.                             *)
RunReaction ==
    /\ Draining("reaction")
    /\ LET r == Head(jobs).reaction
           argument == Head(jobs).argument
           native == <<Frame("native", r.capability, None)>>
       IN  \/ /\ r.handler.call = "script"
              /\ NothingSettled(Tail(jobs),
                                <<Frame("handler", r.capability, None)>>)
              /\ UNCHANGED resolved
           \/ /\ r.handler.call = "none"
              /\ r.kind = "fulfil"
              /\ ResolveCapability(r.capability, argument, Tail(jobs), <<>>)
           \/ /\ r.handler.call = "none"
              /\ r.kind = "reject"
              /\ RejectCapability(r.capability, argument, Tail(jobs), <<>>)
           \/ /\ r.handler.call = "resolve"
              /\ Resolve(r.handler.settler, argument, Tail(jobs), native)
           \/ /\ r.handler.call = "reject"
              /\ Reject(r.handler.settler, argument, Tail(jobs), native)
    /\ UNCHANGED <<promiseOf, scriptVars, runVars, made>>

(* A thenable job: a second pair for the same promise, given to `then`.    *)
(* The `then` of a promise is the engine's own and registers the pair; a   *)
(* foreign one is a script and holds the pair from here on.                *)
AdoptFulfilling ==
    /\ Draining("thenable")
    /\ Head(jobs).thenable \in Promises
    /\ FreshPromises # {}
    /\ FreshSettlers \ {NewSettler} # {}
    /\ state' = [state EXCEPT ![NewPromise] = "pending"]
    /\ promiseOf' = [promiseOf EXCEPT ![NewSettler] = Head(jobs).promise,
                                      ![OtherSettler] = NewPromise]
    /\ LET fulfilling == [call |-> "resolve", settler |-> NewSettler]
       IN  PerformThen(Head(jobs).thenable, fulfilling, fulfilling,
                       OtherSettler, Tail(jobs))
    /\ UNCHANGED <<resolved, scriptVars, stack, runVars>>
AdoptPromise ==
    /\ Draining("thenable")
    /\ Head(jobs).thenable \in Promises
    /\ FreshPromises # {}
    /\ FreshSettlers \ {NewSettler} # {}
    /\ state' = [state EXCEPT ![NewPromise] = "pending"]
    /\ promiseOf' = [promiseOf EXCEPT ![NewSettler] = Head(jobs).promise,
                                      ![OtherSettler] = NewPromise]
    /\ PerformThen(Head(jobs).thenable,
                   [call |-> "resolve", settler |-> NewSettler],
                   [call |-> "reject", settler |-> NewSettler],
                   OtherSettler, Tail(jobs))
    /\ UNCHANGED <<resolved, scriptVars, stack, runVars>>

CallForeignThen ==
    /\ Draining("thenable")
    /\ Head(jobs).thenable = ForeignObject
    /\ FreshSettlers # {}
    /\ promiseOf' = [promiseOf EXCEPT ![NewSettler] = Head(jobs).promise]
    /\ held' = held \cup {NewSettler}
    /\ NothingSettled(Tail(jobs), <<Frame("callThen", NewSettler, None)>>)
    /\ UNCHANGED <<resolved, known, runVars, made>>

(* The queue is empty and the run answers.                                 *)
FinishDrainEarly ==
    /\ phase = "drain"
    /\ stack = <<>>
    /\ phase' = "idle"
    /\ outcome' = "completed"
    /\ UNCHANGED <<promiseVars, settlerVars, scriptVars, jobs, unhandled,
                   stack, stopped, runs, made>>
FinishDrain ==
    /\ phase = "drain"
    /\ stack = <<>>
    /\ jobs = <<>>
    /\ phase' = "idle"
    /\ outcome' = "completed"
    /\ UNCHANGED <<promiseVars, settlerVars, scriptVars, jobs, unhandled,
                   stack, stopped, runs, made>>

-----------------------------------------------------------------------------

ScriptCalls ==
    \/ Construct
    \/ \E s \in Settlers, x \in Answers : CallResolve(s, x)
    \/ \E s \in Settlers, reason \in ScriptValues : CallReject(s, reason)
    \/ \E p \in Promises, f, g \in {ScriptHandler, NoHandler} : Then(p, f, g)
    \/ \E p \in Promises : Await(p)

ScriptAnswers ==
    \/ GetterReturnsFunction
    \/ GetterReturnsOther
    \/ \E reason \in ScriptValues : GetterThrows(reason)
    \/ \E x \in Answers : HandlerReturns(x)
    \/ \E reason \in ScriptValues : HandlerThrows(reason)
    \/ ThenMethodReturns
    \/ \E reason \in ScriptValues : ThenMethodThrows(reason)
    \/ ScriptEnds

EngineSteps ==
    \/ NativeReturns
    \/ RunReaction
    \/ AdoptPromise
    \/ CallForeignThen
    \/ FinishDrain

Next == StartRun \/ ScriptCalls \/ Stop \/ ScriptAnswers \/ EngineSteps

Spec == Init /\ [][Next]_vars

(* Every execution that has control ends sooner or later, and the drain    *)
(* loop goes on until the queue is empty.                                  *)
FairSpec == Spec /\ WF_vars(ScriptAnswers) /\ WF_vars(EngineSteps)

-----------------------------------------------------------------------------
(* What the resolving functions guarantee.                                 *)

Unclaimed(s) == promiseOf[s] # None /\ ~resolved[s]
IsThenableJob(i, p) == jobs[i].job = "thenable" /\ jobs[i].promise = p
IsGetter(i, p) == stack[i].code = "getThen" /\ stack[i].promise = p

(* Whatever can still settle a promise, an unclaimed pair, a queued        *)
(* thenable job or a read of `then` in progress, the promise is pending,   *)
(* and there is never a second such thing for the same promise: settle     *)
(* itself looks at neither (builtins/promise.rs:283).                      *)
OnlyPendingIsResolvable ==
    /\ \A s \in Settlers : Unclaimed(s) => state[promiseOf[s]] = "pending"
    /\ \A i \in DOMAIN jobs, p \in Promises :
          IsThenableJob(i, p) => state[p] = "pending"
    /\ \A i \in DOMAIN stack, p \in Promises :
          IsGetter(i, p) => state[p] = "pending"

OneWayToResolve ==
    /\ \A s, t \in Settlers :
          Unclaimed(s) /\ Unclaimed(t) /\ promiseOf[s] = promiseOf[t] => s = t
    /\ \A i, j \in DOMAIN jobs, p \in Promises :
          IsThenableJob(i, p) /\ IsThenableJob(j, p) => i = j
    /\ \A i, j \in DOMAIN stack, p \in Promises :
          IsGetter(i, p) /\ IsGetter(j, p) => i = j
    /\ \A i \in DOMAIN jobs, j \in DOMAIN stack, p \in Promises :
          ~(IsThenableJob(i, p) /\ IsGetter(j, p))
    /\ \A s \in Settlers, i \in DOMAIN jobs :
          Unclaimed(s) => ~IsThenableJob(i, promiseOf[s])
    /\ \A s \in Settlers, i \in DOMAIN stack :
          Unclaimed(s) => ~IsGetter(i, promiseOf[s])

OneResolver == OnlyPendingIsResolvable /\ OneWayToResolve

(* A promise settles once: no later call of any resolving function, job or *)
(* getter changes its state or its result.                                 *)
StaysSettled ==
    \A p \in Promises :
        state[p] \in {"fulfilled", "rejected"} =>
            state'[p] = state[p] /\ result'[p] = result[p]
SettledOnce == [][StaysSettled]_vars

-----------------------------------------------------------------------------
(* What the lists and the queue guarantee.                                 *)

ListsOf(p) == Range(fulfil[p]) \cup Range(reject[p])
QueuedReactions ==
    {jobs[i].reaction : i \in {j \in DOMAIN jobs : jobs[j].job = "reaction"}}
WaitingReactions == QueuedReactions \cup UNION {ListsOf(p) : p \in Promises}

(* No promise is left with nobody able to answer it: an unclaimed pair is  *)
(* one a script holds, or one that a waiting reaction or an execution in   *)
(* progress will answer through, and such a pair has not been spent.       *)
Answerable ==
    LET waiting == {r.capability : r \in WaitingReactions}
            \cup {r.handler.settler : r \in WaitingReactions}
        running == {stack[i].settler : i \in DOMAIN stack}
        spoken == {r.capability : r \in WaitingReactions}
            \cup {stack[i].settler : i \in
                    {j \in DOMAIN stack : stack[j].code \in {"handler", "native"}}}
    IN  /\ \A s \in Settlers : Unclaimed(s) => s \in held \cup waiting \cup running
        /\ \A s \in spoken \ {None} : Unclaimed(s)
        /\ \A p \in Promises : state[p] = "pending" =>
              \/ \E s \in Settlers : Unclaimed(s) /\ promiseOf[s] = p
              \/ \E i \in DOMAIN jobs : IsThenableJob(i, p)
              \/ \E i \in DOMAIN stack : IsGetter(i, p)

(* The handlers registered on a promise are queued in the order they were  *)
(* registered, whether they were there before it settled or came after.    *)
ReactionsInOrder ==
    LET ascending(s) == \A i, j \in DOMAIN s : i < j => s[i].id < s[j].id
    IN  /\ \A p \in Promises : ascending(fulfil[p]) /\ ascending(reject[p])
        /\ \A i, j \in DOMAIN jobs :
              /\ i < j
              /\ jobs[i].job = "reaction" /\ jobs[j].job = "reaction"
              /\ jobs[i].reaction.of = jobs[j].reaction.of
              => jobs[i].reaction.id < jobs[j].reaction.id

(* Nothing that waits is lost: a registered handler stops waiting only by  *)
(* being the job the drain takes, across settlements, interruptions and    *)
(* the runs that follow them.                                              *)
WaitingIds == {r.id : r \in WaitingReactions}
NoReactionLost ==
    [][\A id \in WaitingIds \ WaitingIds' :
           Draining("reaction") /\ Head(jobs).reaction.id = id]_vars

(* A queued reaction is of the kind its promise settled with and is given  *)
(* its result; a promise with reactions still listed is pending.           *)
JobsMatchOutcome ==
    /\ \A i \in DOMAIN jobs : jobs[i].job = "reaction" =>
          LET r == jobs[i].reaction
          IN  /\ state[r.of] = IF r.kind = "fulfil" THEN "fulfilled" ELSE "rejected"
              /\ jobs[i].argument = result[r.of]
    /\ \A p \in Promises : ListsOf(p) # {} => state[p] = "pending"

(* Both: what the lists and the queue hold is what was registered, in      *)
(* order, and told apart by how the promise ended.                         *)
ReactionsFollow == ReactionsInOrder /\ JobsMatchOutcome

(* What a host reads after a run is exactly the promises rejected in it    *)
(* that nothing has asked about: each is rejected and unasked, and one     *)
(* stops being listed only when something asks, or when a run begins.      *)
ReportedAreUnhandled ==
    \A p \in unhandled : state[p] = "rejected" /\ ~handled[p]
UnhandledAreReported ==
    \A p \in Promises :
        /\ state'[p] = "rejected" /\ ~handled'[p]
        /\ state[p] # "rejected" \/ p \in unhandled
        => p \in unhandled' \/ runs' # runs
ReportIsExact == [][ReportedAreUnhandled' /\ UnhandledAreReported]_vars

-----------------------------------------------------------------------------
(* What a promise promises: PromiseFate, with a promise bound to the one   *)
(* it was resolved with until the adoption's reaction has run.             *)

LockedTo(p) ==
    {jobs[i].thenable : i \in {j \in DOMAIN jobs : IsThenableJob(j, p)}}
    \cup {r.of : r \in {w \in WaitingReactions :
                      /\ w.handler.settler # None
                      /\ Unclaimed(w.handler.settler)
                      /\ promiseOf[w.handler.settler] = p}}

fate == [p \in Promises |->
    IF state[p] \in {"fulfilled", "rejected"}
    THEN [is |-> state[p], with |-> result[p]]
    ELSE IF state[p] = "absent" THEN [is |-> "absent"]
    ELSE IF LockedTo(p) \cap Promises # {}
    THEN [is |-> "bound", to |-> CHOOSE q \in LockedTo(p) : TRUE]
    ELSE [is |-> "undecided"]]

Fate == INSTANCE PromiseFate WITH Outcomes <- Data, Thenable <- ForeignObject

(* Every step settles, binds or follows as PromiseFate allows.             *)
KeepsPromises == Fate!Spec

-----------------------------------------------------------------------------
(* Liveness, if what has control ends and the drain goes on.               *)

(* A promise bound to a settled one is settled, or at least unbound, by    *)
(* the time the drain that finds it so is over.                            *)
AdoptionEnds ==
    \A p, q \in Promises :
        (phase = "drain" /\ q \in LockedTo(p)
            /\ state[q] \in {"fulfilled", "rejected"}) ~> q \notin LockedTo(p)

-----------------------------------------------------------------------------
(* What DR-0022 says of a run the budget stopped: it answers without       *)
(* draining, and the queue is left as it stands.  The code does not do so: *)
(* see the README, which gives the instance that shows it.                 *)
InterruptedRunLeavesQueue ==
    [][stopped /\ jobs # <<>> /\ phase' # "script" =>
           jobs' # <<>> /\ Head(jobs') = Head(jobs)]_vars
=============================================================================
