---------------------------- MODULE ModuleGraph ----------------------------
(***************************************************************************)
(* How one machine evaluates graphs of modules: the walk that orders a     *)
(* graph, the record that makes a body run once, a top-level `await`, and  *)
(* import(), whose job links and evaluates a second graph while the first  *)
(* is still waiting (vm/module.rs, heap/module_record.rs, and the two ways *)
(* of running a module body in vm/mod.rs).                                 *)
(*                                                                         *)
(* `calls` is the stack of Rust calls that are in progress.  A module body *)
(* is only ever its top: import() queues a job, and jobs are run by the    *)
(* drain that follows a body or by the wait for an asynchronous module.    *)
(*                                                                         *)
(* A definition with the comment "mutation" is the one after it with a bug *)
(* put in.                                                                 *)
(***************************************************************************)
EXTENDS ModuleWalk, SequencesExt

CONSTANTS Async,       \* the modules whose body has a top-level await
          Unlinkable,  \* those whose imports name nothing
          MaxRuns,     \* bound: graphs the host runs
          MaxImports,  \* bound: import() expressions evaluated
          MaxAwaits,   \* bound: awaits evaluated
          MayStop,     \* whether a budget may run out
          NoModule

ASSUME ModuleAssumption ==
    /\ Async \subseteq Modules
    /\ Unlinkable \subseteq Modules
    /\ MaxRuns \in Nat /\ MaxImports \in Nat /\ MaxAwaits \in Nat
    /\ MayStop \in BOOLEAN
    /\ NoModule \notin Modules
    /\ Modules \cap {"none", "value", "interrupted", "unlinked",
                     "pending", "namespace", "refused"} = {}

VARIABLES requests,  \* requested_modules of each module
          record,    \* ModuleRecord: evaluated and failure
          body,      \* how far each body has come
          parked,    \* what a parked body waits for
          calls,     \* the Rust calls in progress, innermost last
          queue,     \* Vm.jobs
          imports,   \* the promises import() made, in order, and their answers
          stopped,   \* Vm.stopped
          outcome,   \* what the last run answered the host
          runs,      \* runs the host began
          awaits     \* awaits evaluated

vars == <<requests, record, body, parked, calls, queue, imports, stopped,
          outcome, runs, awaits>>

-----------------------------------------------------------------------------
(* The graph.                                                              *)

(* The order in which a link of `entry` places the modules it reaches:     *)
(* depth first, each once, a module after what it requests (ModuleWalk).   *)
Order(entry) == Orders[requests][entry]

(* Everything a link of `entry` reaches, `entry` among it.                 *)
Reached(entry) == Range(Order(entry))

Links(entry) == Reached(entry) \cap Unlinkable = {}

-----------------------------------------------------------------------------
(* The calls in progress.  A result is "value", "interrupted", or the      *)
(* module whose throw it is.                                               *)

Evaluation(order, asker) ==
    [kind |-> "evaluate", order |-> order, asker |-> asker,
     current |-> NoModule, result |-> "value"]
Body(m) == [kind |-> "body", module |-> m]
Waiting(m) == [kind |-> "wait", module |-> m]
Draining(result) == [kind |-> "drain", result |-> result]

InCall(kind) == calls # <<>> /\ Last(calls).kind = kind
Top == Last(calls)

(* The innermost call returns `result` to the evaluation that made it.     *)
ReturnToEvaluation(below, result) ==
    Append(Front(below), [Last(below) EXCEPT !.result = result])

Running(m) == InCall("body") /\ Top.module = m

(* What a parked body waits for: a job that is queued, import() number id, *)
(* or a promise that another body settles.                                 *)
Wait(on, id) == [on |-> on, id |-> id]
Nothing == Wait("nothing", 0)
Queued == Wait("job", 0)
Another == Wait("other", 0)
OnImport(i) == Wait("import", i)

Resume(m) == [kind |-> "resume", module |-> m]
Import(i) == [kind |-> "import", id |-> i]

Pending(i) == imports[i].answer = "pending"

TypeOK ==
    /\ requests \in Graphs
    /\ record \in [Modules -> [evaluated : BOOLEAN, failed : BOOLEAN]]
    /\ body \in [Modules ->
                   {"idle", "running", "parked", "done", "threw", "stopped"}]
    /\ \A m \in Modules :
          /\ parked[m] \in {Nothing, Queued, Another}
                            \cup {OnImport(i) : i \in DOMAIN imports}
          /\ (parked[m] # Nothing) <=> (body[m] = "parked")
          /\ (body[m] = "running") <=> Running(m)
    /\ \A k \in DOMAIN calls :
          /\ calls[k].kind \in {"evaluate", "body", "wait", "drain"}
          /\ calls[k].kind = "body" => k = Len(calls)
    /\ Range(queue) \subseteq {Resume(m) : m \in Modules}
                              \cup {Import(i) : i \in DOMAIN imports}
    /\ \A i \in DOMAIN imports :
          imports[i].answer \in {"pending", "namespace", "refused"} \cup Modules
    /\ stopped \in BOOLEAN
    /\ outcome \in {"none", "value", "interrupted", "unlinked"} \cup Modules
    /\ runs \in 0 .. MaxRuns
    /\ awaits \in 0 .. MaxAwaits

Init ==
    /\ requests \in Graphs
    /\ record = [m \in Modules |-> [evaluated |-> FALSE, failed |-> FALSE]]
    /\ body = [m \in Modules |-> "idle"]
    /\ parked = [m \in Modules |-> Nothing]
    /\ calls = <<>>
    /\ queue = <<>>
    /\ imports = <<>>
    /\ stopped = FALSE
    /\ outcome = "none"
    /\ runs = 0
    /\ awaits = 0

-----------------------------------------------------------------------------
(* The host.                                                               *)

(* run_module_graph.  A graph of one module with no requests is run_module *)
(* as well: the two read the same record and run the body the same way.    *)
RunGraph(entry) ==
    /\ calls = <<>>
    /\ runs < MaxRuns
    /\ runs' = runs + 1
    /\ IF Links(entry)
       THEN /\ calls' = <<Evaluation(Order(entry), 0)>>
            /\ outcome' = "none"
       ELSE /\ outcome' = "unlinked"
            /\ UNCHANGED calls
    /\ UNCHANGED <<requests, record, body, parked, queue, imports, stopped,
                   awaits>>

-----------------------------------------------------------------------------
(* link_and_evaluate, one module of the order at a time.                   *)

Coming == Head(Top.order)
Threw(evaluation) == evaluation.result \in Modules

(* A module that has been evaluated, or is being, is passed over.          *)
PassOver ==
    /\ InCall("evaluate") /\ ~Threw(Top) /\ Top.order # <<>>
    /\ ~record[Coming].failed
    /\ record[Coming].evaluated
    /\ calls' = Append(Front(calls), [Top EXCEPT !.order = Tail(@)])
    /\ UNCHANGED <<requests, record, body, parked, queue, imports, stopped,
                   outcome, runs, awaits>>

(* The evaluation after it has taken its next module.                      *)
Taken == [Top EXCEPT !.order = Tail(@), !.current = Coming]

(* mutation: the record is left to be marked when the body has run.        *)
StartUnmarked ==
    /\ InCall("evaluate") /\ ~Threw(Top) /\ Top.order # <<>>
    /\ ~record[Coming].failed
    /\ body[Coming] # "done"
    /\ body' = [body EXCEPT ![Coming] = "running"]
    /\ calls' = Front(calls) \o (IF Coming \in Async
                                 THEN <<Taken, Waiting(Coming), Body(Coming)>>
                                 ELSE <<Taken, Body(Coming)>>)
    /\ UNCHANGED <<requests, record, parked, queue, imports, stopped, outcome,
                   runs, awaits>>

(* The module is marked before its body begins.  A synchronous body is run *)
(* by run_prepared, which begins the budgets anew.  An asynchronous one is *)
(* run by run_async_module, which does not: on a machine that was stopped  *)
(* it reads no instruction at all.                                         *)
StartBody ==
    /\ InCall("evaluate") /\ ~Threw(Top) /\ Top.order # <<>>
    /\ ~record[Coming].failed
    /\ ~record[Coming].evaluated
    /\ record' = [record EXCEPT ![Coming].evaluated = TRUE]
    /\ IF Coming \in Async
       THEN /\ body' = [body EXCEPT ![Coming] = IF stopped THEN "stopped"
                                               ELSE "running"]
            /\ calls' = Front(calls) \o <<Taken, Waiting(Coming)>>
                        \o (IF stopped THEN <<>> ELSE <<Body(Coming)>>)
            /\ UNCHANGED stopped
       ELSE /\ body' = [body EXCEPT ![Coming] = "running"]
            /\ calls' = Front(calls) \o <<Taken, Body(Coming)>>
            /\ stopped' = FALSE
    /\ UNCHANGED <<requests, parked, queue, imports, outcome, runs, awaits>>

(* The promise of import() number i is answered, and the body parked on it *)
(* is owed a job behind those in `jobs`.                                   *)
Answer(i, answer, jobs) ==
    LET by == imports[i].by
    IN  /\ imports' = [imports EXCEPT ![i].answer = answer]
        /\ IF parked[by] = OnImport(i)
           THEN /\ parked' = [parked EXCEPT ![by] = Queued]
                /\ queue' = Append(jobs, Resume(by))
           ELSE /\ queue' = jobs
                /\ UNCHANGED parked

(* What load_and_run makes of an evaluation's result.                      *)
AnswerFor(result) ==
    CASE result = "value" -> "namespace"
      [] result = "interrupted" -> "refused"
      [] OTHER -> result

(* The evaluation is over and the host, or import(), is told.              *)
End(result) ==
    /\ IF Top.asker = 0
       THEN /\ outcome' = result
            /\ UNCHANGED <<imports, parked, queue>>
       ELSE /\ Answer(Top.asker, AnswerFor(result), queue)
            /\ UNCHANGED outcome
    /\ calls' = Front(calls)
    /\ UNCHANGED <<requests, body, stopped, runs, awaits>>

(* A module that threw before throws the same again.                       *)
MeetFailure ==
    /\ InCall("evaluate") /\ ~Threw(Top) /\ Top.order # <<>>
    /\ record[Coming].failed
    /\ End(Coming)
    /\ UNCHANGED record

(* mutation: the throw is answered and not recorded.                       *)
ForgetFailure ==
    /\ InCall("evaluate") /\ Threw(Top)
    /\ End(Top.result)
    /\ UNCHANGED record

(* A module threw now: its record keeps the throw and nothing after it in  *)
(* the order runs.                                                         *)
RecordFailure ==
    /\ InCall("evaluate") /\ Threw(Top)
    /\ record' = [record EXCEPT ![Top.current].failed = TRUE]
    /\ End(Top.result)

EndOfOrder ==
    /\ InCall("evaluate") /\ ~Threw(Top) /\ Top.order = <<>>
    /\ End(Top.result)
    /\ UNCHANGED record

-----------------------------------------------------------------------------
(* Bodies.                                                                 *)

(* What becomes of the calls when the running body has no more to do now:  *)
(* a synchronous module's jobs are drained before its result is handed     *)
(* back, an asynchronous one's caller looks at its promise.                *)
LeaveBody(m, result) ==
    IF m \in Async
    THEN calls' = Front(calls)
    ELSE calls' = Append(Front(calls), Draining(result))

(* begin_dynamic_import: a promise and a job.                              *)
BeginImport(m, target) ==
    /\ Running(m)
    /\ Len(imports) < MaxImports
    /\ imports' = Append(imports,
                         [module |-> target, by |-> m, answer |-> "pending"])
    /\ queue' = Append(queue, Import(Len(imports) + 1))
    /\ UNCHANGED <<requests, record, body, parked, calls, stopped, outcome,
                   runs, awaits>>

(* A top-level await: of something settled, of an import() of the module's *)
(* own, or of a promise only another body can settle.                      *)
Await(m, on) ==
    /\ Running(m)
    /\ m \in Async
    /\ awaits < MaxAwaits
    /\ on.on = "import" => Pending(on.id) /\ imports[on.id].by = m
    /\ awaits' = awaits + 1
    /\ body' = [body EXCEPT ![m] = "parked"]
    /\ parked' = [parked EXCEPT ![m] = on]
    /\ queue' = IF on = Queued THEN Append(queue, Resume(m)) ELSE queue
    /\ calls' = Front(calls)
    /\ UNCHANGED <<requests, record, imports, stopped, outcome, runs>>

(* The running body settles what another body is parked on.                *)
Settle(m, other) ==
    /\ Running(m)
    /\ parked[other] = Another
    /\ parked' = [parked EXCEPT ![other] = Queued]
    /\ queue' = Append(queue, Resume(other))
    /\ UNCHANGED <<requests, record, body, calls, imports, stopped, outcome,
                   runs, awaits>>

FinishBody(m) ==
    /\ Running(m)
    /\ body' = [body EXCEPT ![m] = "done"]
    /\ LeaveBody(m, "value")
    /\ UNCHANGED <<requests, record, parked, queue, imports, stopped, outcome,
                   runs, awaits>>

ThrowFromBody(m) ==
    /\ Running(m)
    /\ body' = [body EXCEPT ![m] = "threw"]
    /\ LeaveBody(m, m)
    /\ UNCHANGED <<requests, record, parked, queue, imports, stopped, outcome,
                   runs, awaits>>

(* The budget runs out.  run_prepared answers Interrupted and drains       *)
(* nothing; an asynchronous body is left where it is.                      *)
StopBody(m) ==
    /\ MayStop
    /\ Running(m)
    /\ stopped' = TRUE
    /\ body' = [body EXCEPT ![m] = "stopped"]
    /\ calls' = IF m \in Async
                THEN Front(calls)
                ELSE ReturnToEvaluation(Front(calls), "interrupted")
    /\ UNCHANGED <<requests, record, parked, queue, imports, outcome, runs,
                   awaits>>

-----------------------------------------------------------------------------
(* evaluate_async_module's wait, and drain_jobs.                           *)

(* mutation: an asynchronous module returns as soon as its promise answers.*)
LookWithoutDraining ==
    /\ InCall("wait")
    /\ LET m == Top.module
       IN  calls' =
             CASE body[m] = "threw" -> ReturnToEvaluation(Front(calls), m)
               [] body[m] \in {"parked", "stopped"} /\ queue # <<>> ->
                    Append(calls, Draining("none"))
               [] OTHER -> ReturnToEvaluation(Front(calls), "value")
    /\ UNCHANGED <<requests, record, body, parked, queue, imports, stopped,
                   outcome, runs, awaits>>

(* Rejected: the module failed.  Pending with jobs left: they are run.     *)
(* Anything else - fulfilled, or pending for ever - counts as evaluated,   *)
(* and what is left of the queue is run before that is said.               *)
LookAtPromise ==
    /\ InCall("wait")
    /\ LET m == Top.module
       IN  calls' =
             CASE body[m] = "threw" -> ReturnToEvaluation(Front(calls), m)
               [] body[m] \in {"parked", "stopped"} /\ queue # <<>> ->
                    Append(calls, Draining("none"))
               [] OTHER -> Append(Front(calls), Draining("value"))
    /\ UNCHANGED <<requests, record, body, parked, queue, imports, stopped,
                   outcome, runs, awaits>>

(* mutation: the suspension is left where it was found.                    *)
ResumeKeeping ==
    /\ InCall("drain") /\ queue # <<>>
    /\ Head(queue).kind = "resume"
    /\ LET m == Head(queue).module
       IN  /\ body' = [body EXCEPT ![m] = "running"]
           /\ calls' = Append(calls, Body(m))
    /\ queue' = Tail(queue)
    /\ UNCHANGED <<requests, record, parked, imports, stopped, outcome, runs,
                   awaits>>

(* A parked body's job.  On a stopped machine the job is spent and the     *)
(* body does not move.                                                     *)
RunResumption ==
    /\ InCall("drain") /\ queue # <<>>
    /\ Head(queue).kind = "resume"
    /\ LET m == Head(queue).module
       IN  /\ body' = [body EXCEPT ![m] = IF stopped THEN "stopped"
                                          ELSE "running"]
           /\ parked' = [parked EXCEPT ![m] = Nothing]
           /\ calls' = IF stopped THEN calls ELSE Append(calls, Body(m))
    /\ queue' = Tail(queue)
    /\ UNCHANGED <<requests, record, imports, stopped, outcome, runs, awaits>>

(* import_job: load, link, then evaluate in a call of its own.             *)
RunImport ==
    /\ InCall("drain") /\ queue # <<>>
    /\ Head(queue).kind = "import"
    /\ Links(imports[Head(queue).id].module)
    /\ LET i == Head(queue).id
       IN  calls' = Append(calls, Evaluation(Order(imports[i].module), i))
    /\ queue' = Tail(queue)
    /\ UNCHANGED <<requests, record, body, parked, imports, stopped, outcome,
                   runs, awaits>>

(* import_job of a graph that does not load or does not link.              *)
RefuseImport ==
    /\ InCall("drain") /\ queue # <<>>
    /\ Head(queue).kind = "import"
    /\ ~Links(imports[Head(queue).id].module)
    /\ Answer(Head(queue).id, "refused", Tail(queue))
    /\ UNCHANGED <<requests, record, body, calls, stopped, outcome, runs,
                   awaits>>

EndDrain ==
    /\ InCall("drain") /\ queue = <<>>
    /\ calls' = IF Top.result = "none"
                THEN Front(calls)
                ELSE ReturnToEvaluation(Front(calls), Top.result)
    /\ UNCHANGED <<requests, record, body, parked, queue, imports, stopped,
                   outcome, runs, awaits>>

-----------------------------------------------------------------------------
Engine == \/ PassOver \/ StartBody \/ MeetFailure \/ RecordFailure
          \/ EndOfOrder \/ LookAtPromise \/ RunResumption
          \/ RunImport \/ RefuseImport \/ EndDrain

Leave(m) == FinishBody(m) \/ ThrowFromBody(m)

Next ==
    \/ \E entry \in Modules : RunGraph(entry)
    \/ Engine
    \/ \E m \in Modules :
          \/ \E target \in Modules : BeginImport(m, target)
          \/ \E on \in {Queued, Another} \cup {OnImport(i) : i \in DOMAIN imports} :
                Await(m, on)
          \/ \E other \in Modules : Settle(m, other)
          \/ Leave(m)
          \/ StopBody(m)

(* The engine's loops go on, and a body that has control comes to an end.  *)
Spec == /\ Init /\ [][Next]_vars
        /\ WF_vars(Engine)
        /\ WF_vars(\E m \in Modules : Leave(m))

-----------------------------------------------------------------------------
(* Properties.                                                             *)

(* A body is entered at its beginning once, however many runs, imports and *)
(* cycles reach the module, and again only by the job its own await        *)
(* queued (record.evaluated, set before the body runs).                    *)
EachBodyOnce ==
    [][\A m \in Modules :
         body'[m] = "running" /\ body[m] # "running" =>
            \/ body[m] = "idle"
            \/ /\ body[m] = "parked"
               /\ queue # <<>> /\ Head(queue) = Resume(m)
               /\ queue' # queue]_vars

(* m requests d, and the two are on no cycle together.                     *)
DependsOn(m, d) == d \in Range(requests[m]) /\ m \notin Reached(d)

(* When a body begins, every module it requests outside a cycle has begun  *)
(* and is off the stack, and none of them has a recorded failure           *)
(* (visit's post-order, and the return at the first throw), also when a    *)
(* nested import() evaluates part of a graph that is being evaluated.      *)
DependenciesFirst ==
    [][\A m \in Modules :
         body[m] = "idle" /\ body'[m] # "idle" =>
            \A d \in Modules : DependsOn(m, d) =>
               /\ body[d] \notin {"idle", "running"}
               /\ ~record[d].failed]_vars

(* What import() is told: a namespace only while no module of the graph    *)
(* has a recorded failure and none is left unevaluated, a throw only if it *)
(* is the recorded failure of a module of the graph; and an answer is      *)
(* final (link_and_evaluate and import_job).                               *)
AnswersTellTheGraph ==
    [][\A i \in DOMAIN imports :
         imports'[i].answer # imports[i].answer =>
            LET reached == Reached(imports[i].module)
                answer == imports'[i].answer
            IN  /\ Pending(i)
                /\ answer = "namespace" =>
                      \A m \in reached :
                         record'[m].evaluated /\ ~record'[m].failed
                /\ answer \in Modules =>
                      answer \in reached /\ record'[answer].failed]_vars

(* Jobs stay behind when a run was stopped, or ended by the throw of an    *)
(* asynchronous module, whose caller returns without draining.             *)
LeftForTheNextRun ==
    /\ calls = <<>> /\ queue # <<>>
    /\ outcome \in {"interrupted"} \cup Async

Asked(i) == i \in DOMAIN imports
Answered(i) == Asked(i) /\ ~Pending(i)

(* Every import() that was asked for by the time a body runs is answered,  *)
(* however evaluations nest, unless the run is cut short and leaves its    *)
(* jobs (drain_jobs after every body, and import_job's settling of each    *)
(* promise it was queued for).                                             *)
EveryImportAnswered ==
    \A i \in 1 .. MaxImports :
        (Asked(i) /\ InCall("body")) ~> (Answered(i) \/ LeftForTheNextRun)

(* DR-0022:40: nothing a script or a host function does can clear the      *)
(* flag that stops the machine, until a run begins.  The code does: see    *)
(* the README.                                                             *)
NothingClearsTheStop ==
    [][stopped /\ calls # <<>> => stopped']_vars

(* "Everything importing it waits" (vm/tests/modules.rs:70): no body       *)
(* begins, and no import() is answered, while something it imports is      *)
(* parked at an await whose job is queued.                                 *)
EverythingImportingItWaits ==
    [][/\ \A m \in Modules :
            body[m] = "idle" /\ body'[m] # "idle" =>
               \A d \in Modules : DependsOn(m, d) => parked[d] # Queued
       /\ \A i \in DOMAIN imports :
            Pending(i) /\ imports'[i].answer = "namespace" =>
               \A d \in Reached(imports[i].module) : parked[d] # Queued]_vars
=============================================================================
