--------------------------- MODULE AsyncGenerator ---------------------------
(***************************************************************************)
(* One async generator and everything that resumes it                      *)
(* (vm/async_generator.rs, and what of vm/execute.rs, vm/generator.rs and  *)
(* vm/async_fn.rs it needs): requests, the parked body, jobs.              *)
(*                                                                         *)
(* The program is the environment: a script may ask at any time, the body  *)
(* may do what bodies do, in any order, and so may the accessor `then`     *)
(* that settling a promise with an iterator result reads.  A definition    *)
(* with the comment "mutation" is the one after it with a bug put in.      *)
(***************************************************************************)
EXTENDS Integers, Sequences, FiniteSets, SequencesExt

CONSTANTS MaxRequests,  \* bound: how often the generator is asked
          MaxAwaits,    \* bound: how often the body awaits
          MayIntrude    \* bound: whether accessors resume a body that has just
                        \* yielded, while what it yielded is being delivered

ASSUME AsyncGeneratorAssumption ==
    /\ MaxRequests \in Nat \ {0}
    /\ MaxAwaits \in Nat
    /\ MayIntrude \in BOOLEAN

VARIABLES
    queue,    \* Role::Requests of the generator
    parked,   \* Object::suspension of the generator
    control,  \* what is executing, innermost last
    awaited,  \* awaits whose reaction has yet to run
    made,     \* how many awaits there have been
    asked,    \* history: the kinds of the requests made, in order
    answered, \* history: the answers given, in order, each with its request
    began     \* history: what became of the body at the first request

objects == <<queue, parked>>
history == <<asked, answered, began>>
vars == <<objects, control, awaited, made, history>>

Kinds == {"next", "return", "throw"}
Ids == 1..MaxRequests
Requests == [id : Ids, kind : Kinds]

(* Where a parked body stopped, and at which await.                        *)
NotParked == [at |-> "nowhere", await |-> 0]
AtStart == [at |-> "start", await |-> 0]
AtYield == [at |-> "yield", await |-> 0]
AtAwait(n) == [at |-> "await", await |-> n]

(* "script" is code of the program other than the body, an accessor        *)
(* included; "serve" and "drain" are serve_queued and drain, on the Rust   *)
(* stack while an answer they have to come after is being delivered.       *)
Codes == {"script", "body", "serve", "drain"}

Init ==
    /\ queue = <<>>
    /\ parked = AtStart
    /\ control = <<>>
    /\ awaited = {}
    /\ made = 0
    /\ asked = <<>>
    /\ answered = <<>>
    /\ began = "fresh"

Executes(code) == control # <<>> /\ Last(control) = code
Live == "body" \in ToSet(control)

---------------------------------------------------------------------------
(* The program. *)

BeginScript ==
    /\ control = <<>>
    /\ control' = <<"script">>
    /\ UNCHANGED <<objects, awaited, made, history>>

EndScript ==
    /\ Executes("script")
    /\ control' = Front(control)
    /\ UNCHANGED <<objects, awaited, made, history>>

---------------------------------------------------------------------------
(* Resuming. *)

\* serve: put the body back with the completion the request asked for.  An
\* abrupt one finds a handler in the body, at the latest the one that rejects
\* the request, except before the body has begun, where that handler is not
\* installed yet: then a throw goes past the body to whoever asked.  A return
\* completes it without running it, and its own request is the first that drain
\* answers.
Serve(kind, rest) ==
    /\ parked' = NotParked
    /\ control' = IF parked.at # "start" \/ kind = "next" THEN Append(rest, "body")
                  ELSE IF kind = "return" THEN Append(rest, "drain")
                  ELSE rest

\* next, return and throw.
RunningAhead == Live   \* mutation: a request in service is overlooked
AnythingAhead == queue # <<>> \/ Live
Intrudes == "serve" \in ToSet(control) /\ ~AnythingAhead
Enqueue(kind) ==
    /\ queue' = Append(queue, [id |-> Len(asked) + 1, kind |-> kind])
    /\ asked' = Append(asked, kind)

Ask(kind) ==
    /\ Executes("script") \/ Executes("body")
    /\ Len(asked) < MaxRequests
    /\ MayIntrude \/ ~Intrudes
    /\ Enqueue(kind)
    /\ \/ AnythingAhead /\ UNCHANGED <<parked, control>>
       \/ ~AnythingAhead /\ parked # NotParked /\ Serve(kind, control)
       \/ /\ ~AnythingAhead /\ parked = NotParked
          /\ control' = Append(control, "drain")
          /\ UNCHANGED parked
    /\ began' = IF began # "fresh" THEN began ELSE kind
    /\ UNCHANGED <<awaited, made, answered>>

\* The body was asked for by a request that is first in the queue by now.
NothingQueued ==   \* mutation: a request made meanwhile has to wait for another
    /\ Executes("serve")
    /\ control' = Front(control)
    /\ UNCHANGED <<objects, awaited, made, history>>

ServeQueued ==
    /\ Executes("serve")
    /\ LET rest == Front(control) IN
       \/ queue = <<>> /\ control' = rest /\ UNCHANGED parked
       \/ /\ queue # <<>> /\ parked = NotParked
          /\ control' = Append(rest, "drain")
          /\ UNCHANGED parked
       \/ queue # <<>> /\ parked # NotParked /\ Serve(Head(queue).kind, rest)
    /\ UNCHANGED <<queue, awaited, made, history>>

---------------------------------------------------------------------------
(* Answering. *)

\* settle_front: the request at the front is taken off and its promise settled.
\* Nobody is answered if there is none.
SettleLatest(answer) ==   \* mutation: the newest first
    IF queue = <<>> THEN UNCHANGED <<queue, answered>>
    ELSE /\ queue' = Front(queue)
         /\ answered' = Append(answered, [to |-> Last(queue).id, with |-> answer])
SettleFront(answer) ==
    IF queue = <<>> THEN UNCHANGED <<queue, answered>>
    ELSE /\ queue' = Tail(queue)
         /\ answered' = Append(answered, [to |-> Head(queue).id, with |-> answer])

\* Resolving a promise with an iterator result reads `then` of it, which may be
\* an accessor on Object.prototype: a script, in the middle of `stack`.  A
\* rejection reads nothing.
Deliver(answer, stack) ==
    /\ SettleFront(answer)
    /\ \/ control' = stack
       \/ /\ queue # <<>>
          /\ answer \notin {"rejected", "rejectedWithArgument"}
          /\ control' = Append(stack, "script")

\* A completed generator's answer.
ByRote(kind) == CASE kind = "next" -> "undefined"
                  [] kind = "return" -> "argument"
                  [] kind = "throw" -> "rejectedWithArgument"

Drain ==
    /\ Executes("drain")
    /\ \/ queue = <<>> /\ control' = Front(control) /\ UNCHANGED <<queue, answered>>
       \/ queue # <<>> /\ Deliver(ByRote(Head(queue).kind), control)
    /\ UNCHANGED <<parked, awaited, made, asked, began>>

---------------------------------------------------------------------------
(* The body. *)

Yield ==
    /\ Executes("body")
    /\ parked' = AtYield
    /\ Deliver("yielded", Append(Front(control), "serve"))
    /\ UNCHANGED <<awaited, made, asked, began>>

\* return_from_call, and reject_from_async for a throw nothing in it catches.
Finish(answer) ==
    /\ Executes("body")
    /\ Deliver(answer, Append(Front(control), "drain"))
    /\ UNCHANGED <<parked, awaited, made, asked, began>>
Return == Finish("returned")
Reject == Finish("rejected")

Await ==
    /\ Executes("body")
    /\ made < MaxAwaits
    /\ made' = made + 1
    /\ parked' = AtAwait(made')
    /\ awaited' = awaited \cup {made'}
    /\ control' = Front(control)
    /\ UNCHANGED <<queue, history>>

\* enter_revive, in the job of the awaited promise: whatever is parked goes on.
ReviveKeeping(n) ==   \* mutation: the suspension is not taken out
    /\ control = <<>> /\ n \in awaited
    /\ awaited' = awaited \ {n}
    /\ control' = IF parked = NotParked THEN control ELSE <<"body">>
    /\ UNCHANGED <<objects, made, history>>
Revive(n) ==
    /\ control = <<>> /\ n \in awaited
    /\ awaited' = awaited \ {n}
    /\ parked' = NotParked
    /\ control' = IF parked = NotParked THEN control ELSE <<"body">>
    /\ UNCHANGED <<queue, made, history>>

---------------------------------------------------------------------------

Next ==
    \/ BeginScript \/ EndScript
    \/ \E kind \in Kinds : Ask(kind)
    \/ ServeQueued \/ Drain
    \/ Yield \/ Return \/ Reject \/ Await
    \/ \E n \in awaited : Revive(n)

Spec == Init /\ [][Next]_vars

\* Scripts and bodies stop sooner or later, the engine's loops go on, and what
\* the body awaits is settled and its job gets its turn among the others.
FairSpec ==
    /\ Spec
    /\ WF_vars(EndScript) /\ WF_vars(ServeQueued) /\ WF_vars(Drain)
    /\ WF_vars(Yield \/ Return \/ Reject)
    /\ \A n \in 1..MaxAwaits : SF_vars(Revive(n))

---------------------------------------------------------------------------
(* Properties. *)

\* Types, and that a suspension is taken out of the generator to be run.
TypeOK ==
    /\ queue \in Seq(Requests)
    /\ parked \in [at : {"nowhere", "start", "yield", "await"}, await : 0..MaxAwaits]
    /\ control \in Seq(Codes)
    /\ awaited \subseteq 1..made /\ made \in 0..MaxAwaits
    /\ Len(asked) <= MaxRequests /\ Len(answered) <= Len(asked)
    /\ began \in Kinds \cup {"fresh"}
    /\ Live => parked = NotParked
    /\ \A i, j \in DOMAIN control : control[i] = "body" /\ control[j] = "body" => i = j

\* A throw before the body has begun leaves no body and answers nothing.
Abandoned == began = "throw"

\* There is no state field: the queue tells where the body stands (the module
\* comment of vm/async_generator.rs).  Parked with nobody waiting it is at its
\* start or a yield and may be resumed; parked with somebody waiting it is
\* inside an await, which nothing but that await's own job resumes; while it
\* runs there is somebody to answer; without a body nobody waits for long.
QueueTellsState ==
    ~Abandoned =>
        /\ parked # NotParked /\ queue = <<>> => parked.at \in {"start", "yield"}
        /\ parked # NotParked /\ queue # <<>> =>
              parked.at = "await" \/ "serve" \in ToSet(control)
        /\ Live => queue # <<>>
        /\ ~Live /\ parked = NotParked /\ queue # <<>> => "drain" \in ToSet(control)
        /\ awaited = IF parked.at = "await" THEN {parked.await} ELSE {}

\* What its callers are promised: one answer each, in the order they asked.
Service == INSTANCE RequestService WITH
    answered <- [i \in DOMAIN answered |-> answered[i].with],
    body <- CASE began = "fresh" -> "fresh"
              [] Abandoned -> "abandoned"
              [] OTHER -> IF Live \/ parked # NotParked THEN "begun" ELSE "gone"
ServesInOrder == Service!Spec /\ [](\A i \in DOMAIN answered : answered[i].to = i)

\* Every request is answered, whatever the body does and whoever else asks,
\* provided the body was not thrown past.
EveryRequestAnswered ==
    \A id \in Ids : (id <= Len(asked) /\ ~Abandoned) ~> Len(answered) >= id

\* An await is resumed by the job of the promise it awaits and by nothing else
\* (vm/async_fn.rs:170: each of its functions "is called exactly once").  With
\* MayIntrude the code breaks this: see the README.
AwaitsResumeOwn ==
    \A n \in awaited : parked = AtAwait(n)

=============================================================================
