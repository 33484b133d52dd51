------------------------- MODULE PromiseJobsProofs -------------------------
(***************************************************************************)
(* For every number of promises, pairs, runs and calls: the types of       *)
(* PromiseJobs; that a promise never has two ways to be resolved, and      *)
(* settles once; what happens to its reactions, which are queued in order, *)
(* told apart by how it ended, and never lost; that what a host reads is   *)
(* exactly the rejections nobody asked about; that no pending promise is   *)
(* left with nobody to answer it; and that PromiseJobs implements          *)
(* PromiseFate.                                                            *)
(***************************************************************************)
EXTENDS PromiseJobs, SequenceTheorems, TLAPS

-----------------------------------------------------------------------------
(* Types.  A pair somebody can name has been made: without that the code   *)
(* could settle the promise of no pair at all.                             *)

Made(po) == {s \in Settlers : po[s] # None}
MadeReactions(po) ==
    {r \in Reactions : /\ r.capability \in Made(po) \cup {None}
                       /\ r.handler.settler \in Made(po) \cup {None}}
MadeJobs(po) ==
    [job : {"reaction"}, reaction : MadeReactions(po), argument : Data]
        \cup ThenableJobs
MadeFrames(po) ==
    {f \in Frames : /\ f.settler \in Made(po) \cup {None}
                    /\ f.code = "getThen" => f.promise \in Promises
                    /\ f.code = "callThen" => f.settler \in Made(po)}

ReactionsMade == /\ fulfil \in [Promises -> Seq(MadeReactions(promiseOf))]
                 /\ reject \in [Promises -> Seq(MadeReactions(promiseOf))]
JobsMade == jobs \in Seq(MadeJobs(promiseOf))
FramesMade == stack \in Seq(MadeFrames(promiseOf))
HeldMade == held \subseteq Made(promiseOf)

TypeInv == TypeOK /\ ReactionsMade /\ JobsMade /\ FramesMade /\ HeldMade

(* The part of TypeInv that settling a promise can touch.                  *)
SettlingInv ==
    /\ state \in [Promises -> {"absent", "pending", "fulfilled", "rejected"}]
    /\ result \in [Promises -> Data]
    /\ handled \in [Promises -> BOOLEAN]
    /\ unhandled \subseteq Promises
    /\ ReactionsMade /\ JobsMade /\ FramesMade
ClaimingInv == SettlingInv /\ resolved \in [Settlers -> BOOLEAN]

(* A longer list of made pairs makes no reaction, job or frame unmade.     *)
LEMMA MadeGrows ==
    ASSUME NEW po, NEW qo, Made(po) \subseteq Made(qo)
    PROVE  /\ MadeReactions(po) \subseteq MadeReactions(qo)
           /\ MadeJobs(po) \subseteq MadeJobs(qo)
           /\ MadeFrames(po) \subseteq MadeFrames(qo)
<1>1. MadeReactions(po) \subseteq MadeReactions(qo)
  BY DEF MadeReactions
<1>2. MadeJobs(po) \subseteq MadeJobs(qo)
  BY <1>1 DEF MadeJobs
<1>3. MadeFrames(po) \subseteq MadeFrames(qo)
  BY DEF MadeFrames
<1> QED BY <1>1, <1>2, <1>3

LEMMA SeqGrows ==
    ASSUME NEW S, NEW T, S \subseteq T, NEW q \in Seq(S)
    PROVE  q \in Seq(T)
  OBVIOUS

(* What is made is well typed.                                             *)
LEMMA MadeIsTyped ==
    ASSUME NEW po
    PROVE  /\ MadeReactions(po) \subseteq Reactions
           /\ MadeJobs(po) \subseteq ReactionJobs \cup ThenableJobs
           /\ MadeFrames(po) \subseteq Frames
<1>1. MadeReactions(po) \subseteq Reactions
  BY DEF MadeReactions
<1>2. MadeJobs(po) \subseteq ReactionJobs \cup ThenableJobs
  BY <1>1 DEF MadeJobs, ReactionJobs
<1> QED BY <1>1, <1>2 DEF MadeFrames

(* The jobs of a list of reactions, one each, in order.                    *)
LEMMA JobsOfType ==
    ASSUME NEW po, NEW taken \in Seq(MadeReactions(po)), NEW value \in Data
    PROVE  /\ JobsOf(taken, value) \in Seq(MadeJobs(po))
           /\ Len(JobsOf(taken, value)) = Len(taken)
           /\ \A i \in DOMAIN taken : JobsOf(taken, value)[i].job = "reaction"
<1>1. \A i \in 1..Len(taken) : ReactionJob(taken[i], value) \in MadeJobs(po)
  BY DEF MadeJobs, ReactionJob
<1>2. JobsOf(taken, value) \in Seq(MadeJobs(po))
  BY <1>1 DEF JobsOf
<1> QED BY <1>2 DEF JobsOf, ReactionJob

LEMMA PopType ==
    ASSUME NEW S, NEW q \in Seq(S), q # <<>>
    PROVE  Pop(q) \in Seq(S)
  BY DEF Pop

LEMMA TailType ==
    ASSUME NEW S, NEW q \in Seq(S), q # <<>>
    PROVE  Tail(q) \in Seq(S) /\ Head(q) \in S
  OBVIOUS

(* Each operation the actions are made of keeps the types.                 *)
LEMMA SettleType ==
    ASSUME TypeInv, UNCHANGED promiseOf,
           NEW p \in Promises, NEW to \in {"fulfilled", "rejected"},
           NEW value \in Data, NEW queue \in Seq(MadeJobs(promiseOf)),
           NEW rest \in Seq(MadeFrames(promiseOf)),
           Settle(p, to, value, queue, rest)
    PROVE  SettlingInv'
<1> DEFINE taken == IF to = "fulfilled" THEN fulfil[p] ELSE reject[p]
<1>1. taken \in Seq(MadeReactions(promiseOf))
  BY DEF TypeInv, ReactionsMade
<1>2. JobsOf(taken, value) \in Seq(MadeJobs(promiseOf))
  BY <1>1, JobsOfType
<1>3. jobs' \in Seq(MadeJobs(promiseOf))
  BY <1>2 DEF Settle
<1>4. ReactionsMade'
  BY DEF TypeInv, ReactionsMade, Settle
<1> QED BY <1>3, <1>4 DEF TypeInv, TypeOK, SettlingInv, JobsMade, FramesMade, Settle

LEMMA NothingSettledType ==
    ASSUME TypeInv, UNCHANGED promiseOf,
           NEW queue \in Seq(MadeJobs(promiseOf)),
           NEW rest \in Seq(MadeFrames(promiseOf)),
           NothingSettled(queue, rest)
    PROVE  SettlingInv'
  BY DEF TypeInv, TypeOK, SettlingInv, ReactionsMade, JobsMade, FramesMade,
         NothingSettled, promiseVars

LEMMA ResolvePromiseType ==
    ASSUME TypeInv, UNCHANGED promiseOf,
           NEW p \in Promises, NEW x \in Data \cup Promises,
           NEW queue \in Seq(MadeJobs(promiseOf)),
           NEW rest \in Seq(MadeFrames(promiseOf)),
           ResolvePromise(p, x, queue, rest)
    PROVE  SettlingInv'
<1>1. CASE x = p /\ Settle(p, "rejected", TypeError, queue, rest)
  BY <1>1, SettleType, ValuesAssumption DEF Data
<1>2. CASE x \in Primitives /\ Settle(p, "fulfilled", x, queue, rest)
  BY <1>2, SettleType DEF Data
<1>3. CASE /\ x \in Promises \ {p}
           /\ NothingSettled(Append(queue, [job |-> "thenable", promise |-> p,
                                            thenable |-> x]), rest)
  <2>1. [job |-> "thenable", promise |-> p, thenable |-> x] \in MadeJobs(promiseOf)
    BY <1>3 DEF MadeJobs, ThenableJobs
  <2>2. Append(queue, [job |-> "thenable", promise |-> p, thenable |-> x])
            \in Seq(MadeJobs(promiseOf))
    BY <2>1
  <2> QED BY <1>3, <2>2, NothingSettledType
<1>4. CASE /\ x = ForeignObject
           /\ NothingSettled(queue, Append(rest, Frame("getThen", None, p)))
  <2>1. Frame("getThen", None, p) \in MadeFrames(promiseOf)
    BY DEF Frame, Frames, MadeFrames
  <2>2. Append(rest, Frame("getThen", None, p)) \in Seq(MadeFrames(promiseOf))
    BY <2>1
  <2> QED BY <1>4, <2>2, NothingSettledType
<1> QED BY <1>1, <1>2, <1>3, <1>4 DEF ResolvePromise

LEMMA ResolveType ==
    ASSUME TypeInv, UNCHANGED promiseOf,
           NEW s \in Made(promiseOf), NEW x \in Data \cup Promises,
           NEW queue \in Seq(MadeJobs(promiseOf)),
           NEW rest \in Seq(MadeFrames(promiseOf)),
           Resolve(s, x, queue, rest)
    PROVE  ClaimingInv'
<1>1. s \in Settlers /\ promiseOf[s] \in Promises
  BY DEF Made, TypeInv, TypeOK
<1>2. SettlingInv'
  BY <1>1, NothingSettledType, ResolvePromiseType DEF Resolve
<1> QED BY <1>1, <1>2 DEF Resolve, ClaimingInv, TypeInv, TypeOK

LEMMA RejectType ==
    ASSUME TypeInv, UNCHANGED promiseOf,
           NEW s \in Made(promiseOf), NEW reason \in Data,
           NEW queue \in Seq(MadeJobs(promiseOf)),
           NEW rest \in Seq(MadeFrames(promiseOf)),
           Reject(s, reason, queue, rest)
    PROVE  ClaimingInv'
<1>1. s \in Settlers /\ promiseOf[s] \in Promises
  BY DEF Made, TypeInv, TypeOK
<1>2. SettlingInv'
  BY <1>1, NothingSettledType, SettleType DEF Reject
<1> QED BY <1>1, <1>2 DEF Reject, ClaimingInv, TypeInv, TypeOK

LEMMA CapabilityType ==
    ASSUME TypeInv, UNCHANGED promiseOf,
           NEW s \in Made(promiseOf) \cup {None}, NEW x \in Data \cup Promises,
           NEW queue \in Seq(MadeJobs(promiseOf)),
           NEW rest \in Seq(MadeFrames(promiseOf)),
           \/ ResolveCapability(s, x, queue, rest)
           \/ x \in Data /\ RejectCapability(s, x, queue, rest)
    PROVE  ClaimingInv'
<1>1. CASE s = None
  <2>1. NothingSettled(queue, rest) /\ UNCHANGED resolved
    BY <1>1 DEF ResolveCapability, RejectCapability
  <2> QED BY <2>1, NothingSettledType DEF ClaimingInv, TypeInv, TypeOK
<1>2. CASE s # None
  BY <1>2, ResolveType, RejectType DEF ResolveCapability, RejectCapability
<1> QED BY <1>1, <1>2

(* The frame and the job an action looks at are of the types it needs.     *)
LEMMA TopType ==
    ASSUME TypeInv, stack # <<>>
    PROVE  /\ Top \in MadeFrames(promiseOf)
           /\ Pop(stack) \in Seq(MadeFrames(promiseOf))
           /\ Top.settler \in Made(promiseOf) \cup {None}
           /\ Top.code = "getThen" => Top.promise \in Promises
           /\ Top.code = "callThen" => Top.settler \in Made(promiseOf)
<1>1. Top \in MadeFrames(promiseOf)
  BY DEF Top, TypeInv, FramesMade
<1>2. Pop(stack) \in Seq(MadeFrames(promiseOf))
  BY PopType DEF TypeInv, FramesMade
<1> QED BY <1>1, <1>2 DEF MadeFrames

LEMMA HeadType ==
    ASSUME TypeInv, jobs # <<>>
    PROVE  /\ Tail(jobs) \in Seq(MadeJobs(promiseOf))
           /\ Head(jobs) \in MadeJobs(promiseOf)
           /\ Head(jobs).job = "reaction" =>
                 /\ Head(jobs).reaction \in MadeReactions(promiseOf)
                 /\ Head(jobs).argument \in Data
           /\ Head(jobs).job = "thenable" =>
                 /\ Head(jobs).promise \in Promises
                 /\ Head(jobs).thenable \in Promises \cup {ForeignObject}
<1>1. Tail(jobs) \in Seq(MadeJobs(promiseOf)) /\ Head(jobs) \in MadeJobs(promiseOf)
  BY TailType DEF TypeInv, JobsMade
<1> QED BY <1>1 DEF MadeJobs, ThenableJobs

(* The parts make the whole.                                               *)
RunInv == /\ phase \in {"idle", "script", "drain"}
          /\ stopped \in BOOLEAN
          /\ outcome \in {"none", "completed", "interrupted"}
          /\ runs \in Nat
PairInv == /\ promiseOf \in [Settlers -> Promises \cup {None}]
           /\ HeldMade
           /\ known \subseteq Promises

LEMMA TypeParts ==
    ASSUME ClaimingInv', PairInv', RunInv', made' \in Nat
    PROVE  TypeInv'
<1>1. /\ fulfil' \in [Promises -> Seq(Reactions)]
      /\ reject' \in [Promises -> Seq(Reactions)]
  BY MadeIsTyped, SeqGrows DEF ClaimingInv, SettlingInv, ReactionsMade
<1>2. jobs' \in Seq(ReactionJobs \cup ThenableJobs) /\ stack' \in Seq(Frames)
  BY MadeIsTyped, SeqGrows DEF ClaimingInv, SettlingInv, JobsMade, FramesMade
<1>3. held' \subseteq Settlers
  BY DEF PairInv, HeldMade, Made
<1> QED BY <1>1, <1>2, <1>3 DEF TypeInv, TypeOK, ClaimingInv, SettlingInv,
        PairInv, RunInv

(* An operation on promises alone leaves the rest of TypeInv as it was.    *)
LEMMA TypeAround ==
    ASSUME TypeInv, ClaimingInv', UNCHANGED <<promiseOf, scriptVars, runVars, made>>
    PROVE  TypeInv'
<1>1. PairInv' /\ RunInv' /\ made' \in Nat
  BY DEF TypeInv, TypeOK, PairInv, RunInv, HeldMade, scriptVars, runVars
<1> QED BY <1>1, TypeParts

(* A pair for a new promise: the pairs made so far stay made.              *)
LEMMA PairType ==
    ASSUME TypeInv, NEW s \in FreshSettlers, NEW p \in Promises,
           promiseOf' = [promiseOf EXCEPT ![s] = p]
    PROVE  /\ promiseOf' \in [Settlers -> Promises \cup {None}]
           /\ Made(promiseOf') = Made(promiseOf) \cup {s}
           /\ jobs \in Seq(MadeJobs(promiseOf'))
           /\ stack \in Seq(MadeFrames(promiseOf'))
           /\ fulfil \in [Promises -> Seq(MadeReactions(promiseOf'))]
           /\ reject \in [Promises -> Seq(MadeReactions(promiseOf'))]
<1>1. promiseOf' \in [Settlers -> Promises \cup {None}]
  BY DEF TypeInv, TypeOK, FreshSettlers
<1>2. Made(promiseOf') = Made(promiseOf) \cup {s}
  BY NoneAssumption DEF Made, FreshSettlers, TypeInv, TypeOK
<1>3. /\ MadeReactions(promiseOf) \subseteq MadeReactions(promiseOf')
      /\ MadeJobs(promiseOf) \subseteq MadeJobs(promiseOf')
      /\ MadeFrames(promiseOf) \subseteq MadeFrames(promiseOf')
  BY <1>2, MadeGrows
<1>4. /\ jobs \in Seq(MadeJobs(promiseOf'))
      /\ stack \in Seq(MadeFrames(promiseOf'))
  BY <1>3, SeqGrows DEF TypeInv, JobsMade, FramesMade
<1>5. /\ fulfil \in [Promises -> Seq(MadeReactions(promiseOf'))]
      /\ reject \in [Promises -> Seq(MadeReactions(promiseOf'))]
  BY <1>3, SeqGrows DEF TypeInv, ReactionsMade
<1> QED BY <1>1, <1>2, <1>4, <1>5

LEMMA PerformThenType ==
    ASSUME TypeInv, NEW p \in Promises,
           NEW f \in Handlers, NEW g \in Handlers,
           {f.settler, g.settler} \subseteq Made(promiseOf') \cup {None},
           NEW s \in Made(promiseOf') \cup {None},
           NEW queue \in Seq(MadeJobs(promiseOf')),
           fulfil \in [Promises -> Seq(MadeReactions(promiseOf'))],
           reject \in [Promises -> Seq(MadeReactions(promiseOf'))],
           PerformThen(p, f, g, s, queue)
    PROVE  /\ ReactionsMade' /\ JobsMade'
           /\ result' \in [Promises -> Data]
           /\ handled' \in [Promises -> BOOLEAN]
           /\ unhandled' \subseteq Promises
           /\ made' \in Nat
<1> DEFINE onFulfil == [id |-> made, of |-> p, kind |-> "fulfil", handler |-> f,
                        capability |-> s]
           onReject == [id |-> made, of |-> p, kind |-> "reject", handler |-> g,
                        capability |-> s]
<1>1. s \in Settlers \cup {None} /\ made \in Nat /\ result[p] \in Data
  BY DEF Made, TypeInv, TypeOK
<1>2. onFulfil \in MadeReactions(promiseOf') /\ onReject \in MadeReactions(promiseOf')
  BY <1>1 DEF Reactions, MadeReactions
<1>3. ReactionsMade'
  <2>1. \/ UNCHANGED <<fulfil, reject>>
        \/ /\ fulfil' = [fulfil EXCEPT ![p] = Append(fulfil[p], onFulfil)]
           /\ reject' = [reject EXCEPT ![p] = Append(reject[p], onReject)]
    BY DEF PerformThen
  <2>2. /\ Append(fulfil[p], onFulfil) \in Seq(MadeReactions(promiseOf'))
        /\ Append(reject[p], onReject) \in Seq(MadeReactions(promiseOf'))
    BY <1>2
  <2> HIDE DEF onFulfil, onReject
  <2> QED BY <2>1, <2>2 DEF ReactionsMade
<1>4. JobsMade'
  <2> DEFINE job == ReactionJob(ReactionTo(p, onFulfil, onReject), result[p])
  <2>1. ReactionTo(p, onFulfil, onReject) \in MadeReactions(promiseOf')
    BY <1>2 DEF ReactionTo
  <2>2. job \in MadeJobs(promiseOf')
    BY <1>1, <2>1 DEF ReactionJob, MadeJobs
  <2>3. jobs' \in {queue, Append(queue, job)}
    BY DEF PerformThen
  <2> HIDE DEF job
  <2>4. Append(queue, job) \in Seq(MadeJobs(promiseOf'))
    BY <2>2
  <2> QED BY <2>3, <2>4 DEF JobsMade
<1> QED BY <1>1, <1>3, <1>4 DEF PerformThen, MarkHandled, TypeInv, TypeOK

-----------------------------------------------------------------------------
(* Every action keeps them.                                                *)

LEMMA InitType == Init => TypeInv
<1> SUFFICES ASSUME Init PROVE TypeInv
  OBVIOUS
<1>1. UndefinedValue \in Data
  BY ValuesAssumption DEF Data
<1>2. /\ state \in [Promises -> {"absent", "pending", "fulfilled", "rejected"}]
      /\ result \in [Promises -> Data]
      /\ handled \in [Promises -> BOOLEAN]
      /\ promiseOf \in [Settlers -> Promises \cup {None}]
      /\ resolved \in [Settlers -> BOOLEAN]
  BY <1>1 DEF Init
<1>3. /\ fulfil \in [Promises -> Seq(Reactions)]
      /\ reject \in [Promises -> Seq(Reactions)]
      /\ ReactionsMade
  BY DEF Init, ReactionsMade
<1>4. /\ held \subseteq Settlers /\ HeldMade
      /\ known \subseteq Promises /\ unhandled \subseteq Promises
      /\ jobs \in Seq(ReactionJobs \cup ThenableJobs) /\ JobsMade
      /\ stack \in Seq(Frames) /\ FramesMade
  BY DEF Init, HeldMade, JobsMade, FramesMade
<1>5. /\ phase \in {"idle", "script", "drain"}
      /\ stopped \in BOOLEAN
      /\ outcome \in {"none", "completed", "interrupted"}
      /\ runs \in Nat /\ made \in Nat
  BY DEF Init
<1> QED BY <1>2, <1>3, <1>4, <1>5 DEF TypeInv, TypeOK

LEMMA StartRunType == TypeInv /\ StartRun => TypeInv'
<1> SUFFICES ASSUME TypeInv, StartRun PROVE TypeInv'
  OBVIOUS
<1>1. stack' \in Seq(MadeFrames(promiseOf))
  BY DEF StartRun, BeginRun, Frame, Frames, MadeFrames
<1>2. UNCHANGED <<state, result, fulfil, reject, handled, promiseOf, resolved,
                  held, known, jobs, outcome, made>>
  BY DEF StartRun, BeginRun, promiseVars, settlerVars, scriptVars
<1>3. ClaimingInv'
  BY <1>1, <1>2 DEF StartRun, BeginRun, TypeInv, TypeOK, ClaimingInv, SettlingInv,
     ReactionsMade, JobsMade, FramesMade
<1>4. PairInv' /\ made' \in Nat
  BY <1>2 DEF TypeInv, TypeOK, PairInv, HeldMade
<1>5. runs' \in Nat /\ phase' = "script" /\ stopped' = FALSE
  BY DEF StartRun, BeginRun, TypeInv, TypeOK
<1>6. RunInv'
  BY <1>2, <1>5 DEF TypeInv, TypeOK, RunInv
<1> QED BY <1>3, <1>4, <1>6, TypeParts

LEMMA MakeType ==
    ASSUME TypeInv, Make
    PROVE  /\ NewPromise \in FreshPromises
           /\ NewSettler \in FreshSettlers
           /\ state' \in [Promises -> {"absent", "pending", "fulfilled", "rejected"}]
           /\ promiseOf' = [promiseOf EXCEPT ![NewSettler] = NewPromise]
<1>1. NewPromise \in FreshPromises /\ NewSettler \in FreshSettlers
  BY DEF Make, NewPromise, NewSettler
<1> QED BY <1>1 DEF Make, TypeInv, TypeOK, FreshPromises

LEMMA ConstructType == TypeInv /\ Construct => TypeInv'
<1> SUFFICES ASSUME TypeInv, Construct PROVE TypeInv'
  OBVIOUS
<1>1. /\ NewPromise \in Promises /\ NewSettler \in FreshSettlers
      /\ state' \in [Promises -> {"absent", "pending", "fulfilled", "rejected"}]
      /\ promiseOf' = [promiseOf EXCEPT ![NewSettler] = NewPromise]
  BY MakeType DEF Construct, FreshPromises
<1>2. /\ promiseOf' \in [Settlers -> Promises \cup {None}]
      /\ Made(promiseOf') = Made(promiseOf) \cup {NewSettler}
      /\ jobs \in Seq(MadeJobs(promiseOf'))
      /\ stack \in Seq(MadeFrames(promiseOf'))
      /\ fulfil \in [Promises -> Seq(MadeReactions(promiseOf'))]
      /\ reject \in [Promises -> Seq(MadeReactions(promiseOf'))]
  BY <1>1, PairType
<1>3. ClaimingInv'
  BY <1>1, <1>2 DEF Construct, TypeInv, TypeOK, ClaimingInv, SettlingInv,
     ReactionsMade, JobsMade, FramesMade
<1>4. PairInv' /\ RunInv' /\ made' \in Nat
  BY <1>1, <1>2 DEF Construct, TypeInv, TypeOK, PairInv, HeldMade, RunInv, runVars
<1> QED BY <1>3, <1>4, TypeParts

LEMMA ThenType ==
    ASSUME TypeInv, NEW p \in Promises,
           NEW f \in {ScriptHandler, NoHandler}, NEW g \in {ScriptHandler, NoHandler},
           Then(p, f, g)
    PROVE  TypeInv'
<1>1. /\ NewPromise \in Promises /\ NewSettler \in FreshSettlers
      /\ state' \in [Promises -> {"absent", "pending", "fulfilled", "rejected"}]
      /\ promiseOf' = [promiseOf EXCEPT ![NewSettler] = NewPromise]
  BY MakeType DEF Then, FreshPromises
<1>2. /\ promiseOf' \in [Settlers -> Promises \cup {None}]
      /\ Made(promiseOf') = Made(promiseOf) \cup {NewSettler}
      /\ jobs \in Seq(MadeJobs(promiseOf'))
      /\ stack \in Seq(MadeFrames(promiseOf'))
      /\ fulfil \in [Promises -> Seq(MadeReactions(promiseOf'))]
      /\ reject \in [Promises -> Seq(MadeReactions(promiseOf'))]
  BY <1>1, PairType
<1>3. /\ f \in Handlers /\ g \in Handlers
      /\ {f.settler, g.settler} \subseteq Made(promiseOf') \cup {None}
  BY DEF Handlers, ScriptHandler, NoHandler
<1>4. /\ ReactionsMade' /\ JobsMade'
      /\ result' \in [Promises -> Data]
      /\ handled' \in [Promises -> BOOLEAN]
      /\ unhandled' \subseteq Promises
      /\ made' \in Nat
  BY <1>2, <1>3, PerformThenType DEF Then
<1>5. ClaimingInv'
  BY <1>1, <1>2, <1>4 DEF Then, TypeInv, TypeOK, ClaimingInv, SettlingInv, FramesMade
<1>6. PairInv' /\ RunInv'
  BY <1>1, <1>2 DEF Then, TypeInv, TypeOK, PairInv, HeldMade, RunInv, runVars
<1> QED BY <1>4, <1>5, <1>6, TypeParts

LEMMA AwaitType ==
    ASSUME TypeInv, NEW p \in Promises, Await(p)
    PROVE  TypeInv'
<1>1. UNCHANGED promiseOf /\ ScriptHandler \in Handlers /\ ScriptHandler.settler = None
  BY DEF Await, settlerVars, Handlers, ScriptHandler
<1>2. /\ ReactionsMade' /\ JobsMade'
      /\ result' \in [Promises -> Data]
      /\ handled' \in [Promises -> BOOLEAN]
      /\ unhandled' \subseteq Promises
      /\ made' \in Nat
  <2>1. /\ jobs \in Seq(MadeJobs(promiseOf'))
        /\ fulfil \in [Promises -> Seq(MadeReactions(promiseOf'))]
        /\ reject \in [Promises -> Seq(MadeReactions(promiseOf'))]
    BY <1>1 DEF TypeInv, ReactionsMade, JobsMade
  <2>2. PerformThen(p, ScriptHandler, ScriptHandler, None, jobs)
    BY DEF Await
  <2> QED BY <1>1, <2>1, <2>2, PerformThenType
<1>3. ClaimingInv' /\ PairInv' /\ RunInv'
  BY <1>1, <1>2 DEF Await, TypeInv, TypeOK, ClaimingInv, SettlingInv, FramesMade,
     PairInv, HeldMade, RunInv, settlerVars, scriptVars, runVars
<1> QED BY <1>2, <1>3, TypeParts

LEMMA StopType == TypeInv /\ Stop => TypeInv'
<1> SUFFICES ASSUME TypeInv, Stop PROVE TypeInv'
  OBVIOUS
<1>1. ClaimingInv' /\ PairInv' /\ RunInv' /\ made' \in Nat
  BY DEF Stop, TypeInv, TypeOK, ClaimingInv, SettlingInv, ReactionsMade, JobsMade,
     FramesMade, PairInv, HeldMade, RunInv, promiseVars, settlerVars, scriptVars
<1> QED BY <1>1, TypeParts

LEMMA CallType ==
    ASSUME TypeInv, NEW s \in Settlers, NEW x,
           \/ x \in Answers /\ CallResolve(s, x)
           \/ x \in ScriptValues /\ CallReject(s, x)
    PROVE  TypeInv'
<1>1. /\ s \in Made(promiseOf)
      /\ UNCHANGED <<promiseOf, scriptVars, runVars, made>>
  BY DEF TypeInv, HeldMade, CallResolve, CallReject
<1>2. jobs \in Seq(MadeJobs(promiseOf)) /\ stack \in Seq(MadeFrames(promiseOf))
  BY DEF TypeInv, JobsMade, FramesMade
<1>3. ClaimingInv'
  <2>1. CASE x \in Answers /\ CallResolve(s, x)
    <3>1. x \in Data \cup Promises
      BY <2>1, ValuesAssumption DEF Answers, Data, TypeInv, TypeOK
    <3> QED BY <1>1, <1>2, <2>1, <3>1, ResolveType DEF CallResolve
  <2>2. CASE x \in ScriptValues /\ CallReject(s, x)
    <3>1. x \in Data
      BY <2>2, ValuesAssumption DEF Data
    <3> QED BY <1>1, <1>2, <2>2, <3>1, RejectType DEF CallReject
  <2> QED BY <2>1, <2>2
<1> QED BY <1>1, <1>3, TypeAround

LEMMA GetterType ==
    ASSUME TypeInv,
           \/ GetterReturnsFunction
           \/ GetterReturnsOther
           \/ \E reason \in ScriptValues : GetterThrows(reason)
    PROVE  TypeInv'
<1>1. /\ stack # <<>> /\ Top.code = "getThen"
      /\ UNCHANGED <<promiseOf, resolved, scriptVars, runVars, made>>
  BY DEF GetterReturnsFunction, GetterReturnsOther, GetterThrows, settlerVars
<1>2. Top.promise \in Promises /\ Pop(stack) \in Seq(MadeFrames(promiseOf))
  BY <1>1, TopType
<1>3. jobs \in Seq(MadeJobs(promiseOf))
  BY DEF TypeInv, JobsMade
<1>4. SettlingInv'
  <2>1. CASE GetterReturnsFunction
    <3> DEFINE job == [job |-> "thenable", promise |-> Top.promise,
                       thenable |-> ForeignObject]
    <3>1. job \in MadeJobs(promiseOf)
      BY <1>2 DEF MadeJobs, ThenableJobs
    <3>2. NothingSettled(Append(jobs, job), Pop(stack))
      BY <2>1 DEF GetterReturnsFunction
    <3> HIDE DEF job
    <3>3. Append(jobs, job) \in Seq(MadeJobs(promiseOf))
      BY <1>3, <3>1
    <3> QED BY <1>1, <1>2, <3>2, <3>3, NothingSettledType
  <2>2. CASE GetterReturnsOther
    <3>1. ForeignObject \in Data
      BY DEF Data
    <3> QED BY <1>1, <1>2, <1>3, <2>2, <3>1, SettleType DEF GetterReturnsOther
  <2>3. CASE \E reason \in ScriptValues : GetterThrows(reason)
    <3>1. PICK reason \in ScriptValues : GetterThrows(reason)
      BY <2>3
    <3>2. reason \in Data
      BY ValuesAssumption DEF Data
    <3> QED BY <1>1, <1>2, <1>3, <3>1, <3>2, SettleType DEF GetterThrows
  <2> QED BY <2>1, <2>2, <2>3
<1>5. ClaimingInv'
  BY <1>1, <1>4 DEF ClaimingInv, TypeInv, TypeOK
<1> QED BY <1>1, <1>5, TypeAround

LEMMA HandlerType ==
    ASSUME TypeInv,
           \/ \E x \in Answers : HandlerReturns(x)
           \/ \E reason \in ScriptValues : HandlerThrows(reason)
           \/ NativeReturns
    PROVE  TypeInv'
<1>1. /\ stack # <<>>
      /\ UNCHANGED <<promiseOf, scriptVars, runVars, made>>
  BY DEF HandlerReturns, HandlerThrows, NativeReturns
<1>2. /\ Top.settler \in Made(promiseOf) \cup {None}
      /\ Pop(stack) \in Seq(MadeFrames(promiseOf))
  BY <1>1, TopType
<1>3. jobs \in Seq(MadeJobs(promiseOf))
  BY DEF TypeInv, JobsMade
<1>4. ScriptValues \subseteq Data /\ UndefinedValue \in Data
      /\ Answers \subseteq Data \cup Promises
  BY ValuesAssumption DEF Data, Answers, TypeInv, TypeOK
<1>5. \E x \in Data \cup Promises :
         \/ ResolveCapability(Top.settler, x, jobs, Pop(stack))
         \/ x \in Data /\ RejectCapability(Top.settler, x, jobs, Pop(stack))
  BY <1>4 DEF HandlerReturns, HandlerThrows, NativeReturns
<1>6. ClaimingInv'
  BY <1>1, <1>2, <1>3, <1>5, CapabilityType
<1> QED BY <1>1, <1>6, TypeAround

LEMMA ThenMethodType ==
    ASSUME TypeInv,
           \/ ThenMethodReturns
           \/ \E reason \in ScriptValues : ThenMethodThrows(reason)
    PROVE  TypeInv'
<1>1. /\ stack # <<>> /\ Top.code = "callThen"
      /\ UNCHANGED <<promiseOf, scriptVars, runVars, made>>
  BY DEF ThenMethodReturns, ThenMethodThrows, settlerVars
<1>2. /\ Top.settler \in Made(promiseOf)
      /\ Pop(stack) \in Seq(MadeFrames(promiseOf))
  BY <1>1, TopType
<1>3. jobs \in Seq(MadeJobs(promiseOf)) /\ ScriptValues \subseteq Data
  BY ValuesAssumption DEF TypeInv, JobsMade, Data
<1>4. ClaimingInv'
  <2>1. CASE ThenMethodReturns
    <3>1. SettlingInv' /\ UNCHANGED resolved
      BY <1>1, <1>2, <1>3, <2>1, NothingSettledType DEF ThenMethodReturns, settlerVars
    <3> QED BY <3>1 DEF ClaimingInv, TypeInv, TypeOK
  <2>2. CASE \E reason \in ScriptValues : ThenMethodThrows(reason)
    BY <1>1, <1>2, <1>3, <2>2, RejectType DEF ThenMethodThrows
  <2> QED BY <2>1, <2>2
<1> QED BY <1>1, <1>4, TypeAround

LEMMA EndType == TypeInv /\ (ScriptEnds \/ FinishDrain) => TypeInv'
<1> SUFFICES ASSUME TypeInv, ScriptEnds \/ FinishDrain PROVE TypeInv'
  OBVIOUS
<1>1. stack' \in Seq(MadeFrames(promiseOf))
  BY TopType DEF ScriptEnds, FinishDrain, TypeInv, FramesMade
<1>2. UNCHANGED <<state, result, fulfil, reject, handled, promiseOf, resolved,
                  held, known, jobs, unhandled, stopped, runs, made>>
  BY DEF ScriptEnds, FinishDrain, promiseVars, settlerVars, scriptVars
<1>3. ClaimingInv'
  BY <1>1, <1>2 DEF TypeInv, TypeOK, ClaimingInv, SettlingInv,
     ReactionsMade, JobsMade, FramesMade
<1>4. PairInv' /\ RunInv' /\ made' \in Nat
  BY <1>2 DEF ScriptEnds, FinishDrain, TypeInv, TypeOK, PairInv, HeldMade, RunInv
<1> QED BY <1>3, <1>4, TypeParts

LEMMA RunReactionType == TypeInv /\ RunReaction => TypeInv'
<1> SUFFICES ASSUME TypeInv, RunReaction PROVE TypeInv'
  OBVIOUS
<1> DEFINE r == Head(jobs).reaction
           argument == Head(jobs).argument
           native == <<Frame("native", r.capability, None)>>
           handler == <<Frame("handler", r.capability, None)>>
<1>1. /\ jobs # <<>> /\ Head(jobs).job = "reaction"
      /\ UNCHANGED <<promiseOf, scriptVars, runVars, made>>
  BY DEF RunReaction, Draining
<1>2. /\ Tail(jobs) \in Seq(MadeJobs(promiseOf))
      /\ r \in MadeReactions(promiseOf)
      /\ argument \in Data
  BY <1>1, HeadType
<1>3. /\ r.capability \in Made(promiseOf) \cup {None}
      /\ r.handler.settler \in Made(promiseOf) \cup {None}
      /\ r.handler \in Handlers
  BY <1>2 DEF MadeReactions, Reactions
<1>4. r.handler.call \in {"resolve", "reject"} => r.handler.settler \in Made(promiseOf)
  BY <1>3, NoneAssumption DEF Handlers
<1>5. /\ <<>> \in Seq(MadeFrames(promiseOf))
      /\ native \in Seq(MadeFrames(promiseOf))
      /\ handler \in Seq(MadeFrames(promiseOf))
  <2>1. /\ Frame("native", r.capability, None) \in MadeFrames(promiseOf)
        /\ Frame("handler", r.capability, None) \in MadeFrames(promiseOf)
    BY <1>3 DEF Frame, Frames, MadeFrames, Made
  <2> QED BY <2>1
<1>6. \/ NothingSettled(Tail(jobs), handler) /\ UNCHANGED resolved
      \/ ResolveCapability(r.capability, argument, Tail(jobs), <<>>)
      \/ RejectCapability(r.capability, argument, Tail(jobs), <<>>)
      \/ /\ r.handler.settler \in Made(promiseOf)
         /\ \/ Resolve(r.handler.settler, argument, Tail(jobs), native)
            \/ Reject(r.handler.settler, argument, Tail(jobs), native)
  BY <1>4 DEF RunReaction
<1> HIDE DEF r, argument, native, handler
<1>7. ClaimingInv'
  <2>1. CASE NothingSettled(Tail(jobs), handler) /\ UNCHANGED resolved
    <3>1. SettlingInv'
      BY <1>1, <1>2, <1>5, <2>1, NothingSettledType
    <3> QED BY <2>1, <3>1 DEF ClaimingInv, TypeInv, TypeOK
  <2>2. CASE \/ ResolveCapability(r.capability, argument, Tail(jobs), <<>>)
             \/ RejectCapability(r.capability, argument, Tail(jobs), <<>>)
    BY <1>1, <1>2, <1>3, <1>5, <2>2, CapabilityType
  <2>3. CASE /\ r.handler.settler \in Made(promiseOf)
             /\ \/ Resolve(r.handler.settler, argument, Tail(jobs), native)
                \/ Reject(r.handler.settler, argument, Tail(jobs), native)
    BY <1>1, <1>2, <1>5, <2>3, ResolveType, RejectType
  <2> QED BY <1>6, <2>1, <2>2, <2>3
<1> QED BY <1>1, <1>7, TypeAround

LEMMA CallForeignThenType == TypeInv /\ CallForeignThen => TypeInv'
<1> SUFFICES ASSUME TypeInv, CallForeignThen PROVE TypeInv'
  OBVIOUS
<1>1. /\ jobs # <<>> /\ Head(jobs).promise \in Promises
      /\ NewSettler \in FreshSettlers
      /\ promiseOf' = [promiseOf EXCEPT ![NewSettler] = Head(jobs).promise]
  BY HeadType DEF CallForeignThen, Draining, NewSettler
<1>2. /\ promiseOf' \in [Settlers -> Promises \cup {None}]
      /\ Made(promiseOf') = Made(promiseOf) \cup {NewSettler}
      /\ jobs \in Seq(MadeJobs(promiseOf'))
      /\ fulfil \in [Promises -> Seq(MadeReactions(promiseOf'))]
      /\ reject \in [Promises -> Seq(MadeReactions(promiseOf'))]
  BY <1>1, PairType
<1>3. jobs' \in Seq(MadeJobs(promiseOf'))
  BY <1>1, <1>2, TailType DEF CallForeignThen, NothingSettled
<1>4. stack' \in Seq(MadeFrames(promiseOf'))
  <2>1. Frame("callThen", NewSettler, None) \in MadeFrames(promiseOf')
    BY <1>1, <1>2 DEF Frame, Frames, MadeFrames, FreshSettlers
  <2>2. stack' = <<Frame("callThen", NewSettler, None)>>
    BY DEF CallForeignThen, NothingSettled
  <2> QED BY <2>1, <2>2
<1>5. ClaimingInv'
  BY <1>2, <1>3, <1>4 DEF CallForeignThen, NothingSettled, TypeInv, TypeOK,
     ClaimingInv, SettlingInv, ReactionsMade, JobsMade, FramesMade, promiseVars
<1>6. PairInv' /\ RunInv' /\ made' \in Nat
  BY <1>2 DEF CallForeignThen, TypeInv, TypeOK, PairInv, HeldMade, RunInv, runVars
<1> QED BY <1>5, <1>6, TypeParts

LEMMA AdoptType ==
    ASSUME TypeInv, AdoptPromise
    PROVE  /\ NewPromise \in FreshPromises
           /\ NewSettler \in FreshSettlers
           /\ OtherSettler \in FreshSettlers \ {NewSettler}
           /\ TypeInv'
<1> DEFINE s == NewSettler
           t == OtherSettler
           p == Head(jobs).promise
           f == [call |-> "resolve", settler |-> s]
           g == [call |-> "reject", settler |-> s]
<1>1. NewPromise \in FreshPromises /\ s \in FreshSettlers /\ t \in FreshSettlers \ {s}
  BY DEF AdoptPromise, NewPromise, NewSettler, OtherSettler
<1>2. /\ jobs # <<>> /\ p \in Promises /\ Head(jobs).thenable \in Promises
      /\ promiseOf' = [promiseOf EXCEPT ![s] = p, ![t] = NewPromise]
      /\ PerformThen(Head(jobs).thenable, f, g, t, Tail(jobs))
      /\ state' = [state EXCEPT ![NewPromise] = "pending"]
      /\ UNCHANGED <<resolved, scriptVars, stack, runVars>>
  BY HeadType DEF AdoptPromise, Draining
<1> HIDE DEF s, t, p
<1>3. /\ promiseOf' \in [Settlers -> Promises \cup {None}]
      /\ Made(promiseOf') = Made(promiseOf) \cup {s, t}
  <2>1. /\ s \in Settlers /\ t \in Settlers /\ promiseOf[s] = None /\ promiseOf[t] = None
        /\ NewPromise \in Promises
    BY <1>1 DEF FreshSettlers, FreshPromises
  <2>2. promiseOf \in [Settlers -> Promises \cup {None}]
    BY DEF TypeInv, TypeOK
  <2>3. promiseOf' \in [Settlers -> Promises \cup {None}]
    BY <1>2, <2>1, <2>2
  <2>4. \A q \in Settlers : promiseOf'[q] # None <=> promiseOf[q] # None \/ q \in {s, t}
    BY <1>2, <2>1, <2>2, NoneAssumption
  <2> QED BY <2>1, <2>3, <2>4 DEF Made
<1>4. /\ MadeReactions(promiseOf) \subseteq MadeReactions(promiseOf')
      /\ MadeJobs(promiseOf) \subseteq MadeJobs(promiseOf')
      /\ MadeFrames(promiseOf) \subseteq MadeFrames(promiseOf')
  BY <1>3, MadeGrows
<1>5. /\ jobs \in Seq(MadeJobs(promiseOf'))
      /\ stack \in Seq(MadeFrames(promiseOf'))
      /\ fulfil \in [Promises -> Seq(MadeReactions(promiseOf'))]
      /\ reject \in [Promises -> Seq(MadeReactions(promiseOf'))]
  BY <1>4, SeqGrows DEF TypeInv, JobsMade, FramesMade, ReactionsMade
<1>6. Tail(jobs) \in Seq(MadeJobs(promiseOf'))
  BY <1>2, <1>5, TailType
<1>7. /\ f \in Handlers /\ g \in Handlers
      /\ {f.settler, g.settler} \subseteq Made(promiseOf') \cup {None}
      /\ t \in Made(promiseOf') \cup {None}
  BY <1>1, <1>3 DEF Handlers, FreshSettlers
<1> HIDE DEF f, g
<1>8. /\ ReactionsMade' /\ JobsMade'
      /\ result' \in [Promises -> Data]
      /\ handled' \in [Promises -> BOOLEAN]
      /\ unhandled' \subseteq Promises
      /\ made' \in Nat
  BY <1>2, <1>5, <1>6, <1>7, PerformThenType
<1>9. ClaimingInv'
  <2>1. state' \in [Promises -> {"absent", "pending", "fulfilled", "rejected"}]
    BY <1>1, <1>2 DEF TypeInv, TypeOK, FreshPromises
  <2>2. FramesMade' /\ resolved' \in [Settlers -> BOOLEAN]
    BY <1>2, <1>5 DEF FramesMade, TypeInv, TypeOK
  <2> QED BY <1>8, <2>1, <2>2 DEF ClaimingInv, SettlingInv
<1>10. PairInv' /\ RunInv'
  BY <1>2, <1>3 DEF TypeInv, TypeOK, PairInv, HeldMade, RunInv, scriptVars, runVars
<1>11. TypeInv'
  BY <1>8, <1>9, <1>10, TypeParts
<1> QED BY <1>1, <1>11 DEF s, t

LEMMA StutterType == TypeInv /\ UNCHANGED vars => TypeInv'
  BY DEF vars, promiseVars, settlerVars, scriptVars, runVars, TypeInv, TypeOK,
     ReactionsMade, JobsMade, FramesMade, HeldMade

LEMMA NextType == TypeInv /\ [Next]_vars => TypeInv'
<1> SUFFICES ASSUME TypeInv, [Next]_vars PROVE TypeInv'
  OBVIOUS
<1>1. CASE StartRun \/ Stop \/ Construct
  BY <1>1, StartRunType, StopType, ConstructType
<1>2. CASE \/ \E s \in Settlers, x \in Answers : CallResolve(s, x)
           \/ \E s \in Settlers, reason \in ScriptValues : CallReject(s, reason)
  BY <1>2, CallType
<1>3. CASE \E p \in Promises, f, g \in {ScriptHandler, NoHandler} : Then(p, f, g)
  BY <1>3, ThenType
<1>4. CASE \E p \in Promises : Await(p)
  BY <1>4, AwaitType
<1>5. CASE ScriptAnswers
  BY <1>5, GetterType, HandlerType, ThenMethodType, EndType DEF ScriptAnswers
<1>6. CASE EngineSteps
  BY <1>6, HandlerType, RunReactionType, AdoptType, CallForeignThenType, EndType
     DEF EngineSteps
<1>7. CASE UNCHANGED vars
  BY <1>7, StutterType
<1> QED BY <1>1, <1>2, <1>3, <1>4, <1>5, <1>6, <1>7 DEF Next, ScriptCalls

(* Whatever is run and however often, the machine's promises, pairs, queue *)
(* and frames keep their types, and everything named has been made.        *)
THEOREM StrongTypes == Spec => []TypeInv
<1>1. Init => TypeInv
  BY InitType
<1>2. TypeInv /\ [Next]_vars => TypeInv'
  BY NextType
<1> QED BY <1>1, <1>2, PTL DEF Spec

(* In particular no queue, list, flag or frame ever holds anything but     *)
(* what TypeOK says.                                                       *)
THEOREM TypeCorrect == Spec => []TypeOK
<1>1. TypeInv => TypeOK
  BY DEF TypeInv
<1> QED BY <1>1, StrongTypes, PTL

-----------------------------------------------------------------------------
(* A promise never has two ways to be resolved, and so settles once.  The  *)
(* invariant is OneResolver, which is inductive given the types; it is     *)
(* stated here of a queue and a stack in general, since an operation       *)
(* starts from the queue without the job it runs and the stack without the *)
(* frame that answered.                                                    *)

Open(po, rs, s) == po[s] # None /\ ~rs[s]
ThenableFor(q, i, p) == q[i].job = "thenable" /\ q[i].promise = p
GetterFor(k, i, p) == k[i].code = "getThen" /\ k[i].promise = p

(* Nothing is left that could settle p.                                    *)
Unowned(po, rs, q, k, p) ==
    /\ \A s \in Settlers : Open(po, rs, s) => po[s] # p
    /\ \A i \in DOMAIN q : ~ThenableFor(q, i, p)
    /\ \A i \in DOMAIN k : ~GetterFor(k, i, p)

PendingOf(st, po, rs, q, k) ==
    /\ \A s \in Settlers : Open(po, rs, s) => st[po[s]] = "pending"
    /\ \A i \in DOMAIN q, p \in Promises : ThenableFor(q, i, p) => st[p] = "pending"
    /\ \A i \in DOMAIN k, p \in Promises : GetterFor(k, i, p) => st[p] = "pending"

SoleOf(po, rs, q, k) ==
    /\ \A s, t \in Settlers : Open(po, rs, s) /\ Open(po, rs, t) /\ po[s] = po[t] => s = t
    /\ \A i, j \in DOMAIN q, p \in Promises :
          ThenableFor(q, i, p) /\ ThenableFor(q, j, p) => i = j
    /\ \A i, j \in DOMAIN k, p \in Promises :
          GetterFor(k, i, p) /\ GetterFor(k, j, p) => i = j
    /\ \A i \in DOMAIN q, j \in DOMAIN k, p \in Promises :
          ~(ThenableFor(q, i, p) /\ GetterFor(k, j, p))
    /\ \A s \in Settlers, i \in DOMAIN q : Open(po, rs, s) => ~ThenableFor(q, i, po[s])
    /\ \A s \in Settlers, i \in DOMAIN k : Open(po, rs, s) => ~GetterFor(k, i, po[s])

OneOf(st, po, rs, q, k) == PendingOf(st, po, rs, q, k) /\ SoleOf(po, rs, q, k)

LEMMA OneResolverIsOneOf ==
    OneResolver <=> OneOf(state, promiseOf, resolved, jobs, stack)
  BY DEF OneResolver, OnlyPendingIsResolvable, OneWayToResolve, OneOf, PendingOf,
     SoleOf, Open, ThenableFor, GetterFor, Unclaimed, IsThenableJob, IsGetter

Jobs == ReactionJobs \cup ThenableJobs

-----------------------------------------------------------------------------
(* Taking the front job off the queue, or the top frame off the stack,     *)
(* leaves what is left as it was, and takes its promise's one way with it. *)

LEMMA TailKeeps ==
    ASSUME NEW st, NEW po, NEW rs, NEW q \in Seq(Jobs), NEW k, q # <<>>,
           OneOf(st, po, rs, q, k)
    PROVE  /\ OneOf(st, po, rs, Tail(q), k)
           /\ \A p \in Promises : ThenableFor(q, 1, p) =>
                 Unowned(po, rs, Tail(q), k, p) /\ st[p] = "pending"
<1>1. \A i \in DOMAIN Tail(q) : i + 1 \in DOMAIN q /\ Tail(q)[i] = q[i + 1] /\ i \in Nat
  OBVIOUS
<1>2. 1 \in DOMAIN q
  OBVIOUS
<1>3. \A i \in DOMAIN Tail(q) : \A p : ThenableFor(Tail(q), i, p) <=> ThenableFor(q, i + 1, p)
  BY <1>1 DEF ThenableFor
<1>4. PendingOf(st, po, rs, Tail(q), k)
  BY <1>1, <1>3 DEF OneOf, PendingOf
<1>5. SoleOf(po, rs, Tail(q), k)
  BY <1>1, <1>3 DEF OneOf, SoleOf
<1>6. ASSUME NEW p \in Promises, ThenableFor(q, 1, p)
      PROVE  Unowned(po, rs, Tail(q), k, p) /\ st[p] = "pending"
  <2>1. st[p] = "pending"
    BY <1>2, <1>6 DEF OneOf, PendingOf
  <2>2. \A i \in DOMAIN Tail(q) : ~ThenableFor(Tail(q), i, p)
    BY <1>1, <1>2, <1>3, <1>6 DEF OneOf, SoleOf
  <2>3. \A s \in Settlers : Open(po, rs, s) => po[s] # p
    BY <1>2, <1>6 DEF OneOf, SoleOf
  <2>4. \A i \in DOMAIN k : ~GetterFor(k, i, p)
    BY <1>2, <1>6 DEF OneOf, SoleOf
  <2> QED BY <2>1, <2>2, <2>3, <2>4 DEF Unowned
<1> QED BY <1>4, <1>5, <1>6 DEF OneOf

LEMMA PopKeeps ==
    ASSUME NEW st, NEW po, NEW rs, NEW q, NEW k \in Seq(Frames), k # <<>>,
           OneOf(st, po, rs, q, k)
    PROVE  /\ OneOf(st, po, rs, q, Pop(k))
           /\ \A p \in Promises : GetterFor(k, Len(k), p) =>
                 Unowned(po, rs, q, Pop(k), p) /\ st[p] = "pending"
<1>1. \A i \in DOMAIN Pop(k) : i \in DOMAIN k /\ i # Len(k) /\ Pop(k)[i] = k[i]
  BY DEF Pop
<1>2. Len(k) \in DOMAIN k
  OBVIOUS
<1>3. \A i \in DOMAIN Pop(k) : \A p : GetterFor(Pop(k), i, p) <=> GetterFor(k, i, p)
  BY <1>1 DEF GetterFor
<1>4. PendingOf(st, po, rs, q, Pop(k))
  BY <1>1, <1>3 DEF OneOf, PendingOf
<1>5. SoleOf(po, rs, q, Pop(k))
  BY <1>1, <1>3 DEF OneOf, SoleOf
<1>6. ASSUME NEW p \in Promises, GetterFor(k, Len(k), p)
      PROVE  Unowned(po, rs, q, Pop(k), p) /\ st[p] = "pending"
  <2>1. st[p] = "pending"
    BY <1>2, <1>6 DEF OneOf, PendingOf
  <2>2. \A i \in DOMAIN Pop(k) : ~GetterFor(Pop(k), i, p)
    BY <1>1, <1>2, <1>3, <1>6 DEF OneOf, SoleOf
  <2>3. \A s \in Settlers : Open(po, rs, s) => po[s] # p
    BY <1>2, <1>6 DEF OneOf, SoleOf
  <2>4. \A i \in DOMAIN q : ~ThenableFor(q, i, p)
    BY <1>2, <1>6 DEF OneOf, SoleOf
  <2> QED BY <2>1, <2>2, <2>3, <2>4 DEF Unowned
<1> QED BY <1>4, <1>5, <1>6 DEF OneOf

(* Jobs that are no thenable jobs and frames that are no getters change    *)
(* nothing.                                                                *)
LEMMA MoreJobsKeep ==
    ASSUME NEW st, NEW po, NEW rs, NEW q \in Seq(Jobs), NEW k,
           NEW r \in Seq(Jobs), \A i \in DOMAIN r : r[i].job = "reaction"
    PROVE  /\ OneOf(st, po, rs, q, k) => OneOf(st, po, rs, q \o r, k)
           /\ \A p : Unowned(po, rs, q, k, p) => Unowned(po, rs, q \o r, k, p)
<1>1. \A i \in DOMAIN (q \o r) : \A p :
         ThenableFor(q \o r, i, p) => i \in DOMAIN q /\ ThenableFor(q, i, p)
  BY DEF ThenableFor
<1> QED BY <1>1 DEF OneOf, PendingOf, SoleOf, Unowned

LEMMA PlainFrameKeeps ==
    ASSUME NEW st, NEW po, NEW rs, NEW q, NEW k \in Seq(Frames),
           NEW f \in Frames, f.code # "getThen",
           OneOf(st, po, rs, q, k)
    PROVE  OneOf(st, po, rs, q, Append(k, f))
<1>1. \A i \in DOMAIN Append(k, f) : \A p :
         GetterFor(Append(k, f), i, p) => i \in DOMAIN k /\ GetterFor(k, i, p)
  BY DEF GetterFor
<1> QED BY <1>1 DEF OneOf, PendingOf, SoleOf

-----------------------------------------------------------------------------
(* How a way to resolve a promise is used up, and how it is handed on.     *)

LEMMA ClaimKeeps ==
    ASSUME NEW st, NEW po, NEW rs \in [Settlers -> BOOLEAN], NEW q, NEW k,
           NEW s \in Settlers, Open(po, rs, s), OneOf(st, po, rs, q, k)
    PROVE  LET ts == [rs EXCEPT ![s] = TRUE]
           IN  /\ OneOf(st, po, ts, q, k)
               /\ Unowned(po, ts, q, k, po[s])
               /\ st[po[s]] = "pending"
<1> DEFINE ts == [rs EXCEPT ![s] = TRUE]
<1>1. \A t \in Settlers : Open(po, ts, t) <=> Open(po, rs, t) /\ t # s
  BY DEF Open
<1> HIDE DEF ts
<1>2. OneOf(st, po, ts, q, k)
  BY <1>1 DEF OneOf, PendingOf, SoleOf
<1>3. Unowned(po, ts, q, k, po[s])
  BY <1>1 DEF OneOf, SoleOf, Unowned
<1>4. st[po[s]] = "pending"
  BY DEF OneOf, PendingOf
<1> QED BY <1>2, <1>3, <1>4 DEF ts

LEMMA SettlingKeeps ==
    ASSUME NEW st \in [Promises -> {"absent", "pending", "fulfilled", "rejected"}],
           NEW po \in [Settlers -> Promises \cup {None}], NEW rs, NEW q, NEW k,
           NEW p \in Promises, NEW to,
           Unowned(po, rs, q, k, p), OneOf(st, po, rs, q, k)
    PROVE  OneOf([st EXCEPT ![p] = to], po, rs, q, k)
<1>1. \A s \in Settlers : Open(po, rs, s) => po[s] \in Promises \ {p}
  BY DEF Open, Unowned
<1> QED BY <1>1 DEF OneOf, PendingOf, SoleOf, Unowned

LEMMA EnqueuingKeeps ==
    ASSUME NEW st, NEW po, NEW rs, NEW q \in Seq(Jobs), NEW k,
           NEW p \in Promises, NEW job \in ThenableJobs, job.promise = p,
           st[p] = "pending", Unowned(po, rs, q, k, p), OneOf(st, po, rs, q, k)
    PROVE  OneOf(st, po, rs, Append(q, job), k)
<1>1. \A i \in DOMAIN Append(q, job) : \A x :
         ThenableFor(Append(q, job), i, x) =>
            \/ i \in DOMAIN q /\ ThenableFor(q, i, x)
            \/ i = Len(q) + 1 /\ x = p
  BY DEF ThenableFor
<1>2. \A i \in DOMAIN q : i # Len(q) + 1
  OBVIOUS
<1>3. PendingOf(st, po, rs, Append(q, job), k)
  BY <1>1 DEF OneOf, PendingOf
<1>4. SoleOf(po, rs, Append(q, job), k)
  BY <1>1, <1>2 DEF OneOf, SoleOf, Unowned
<1> QED BY <1>3, <1>4 DEF OneOf

LEMMA ReadingKeeps ==
    ASSUME NEW st, NEW po, NEW rs, NEW q, NEW k \in Seq(Frames),
           NEW p \in Promises, NEW f \in Frames, f.promise = p,
           st[p] = "pending", Unowned(po, rs, q, k, p), OneOf(st, po, rs, q, k)
    PROVE  OneOf(st, po, rs, q, Append(k, f))
<1>1. \A i \in DOMAIN Append(k, f) : \A x :
         GetterFor(Append(k, f), i, x) =>
            \/ i \in DOMAIN k /\ GetterFor(k, i, x)
            \/ i = Len(k) + 1 /\ x = p
  BY DEF GetterFor
<1>2. \A i \in DOMAIN k : i # Len(k) + 1
  OBVIOUS
<1>3. PendingOf(st, po, rs, q, Append(k, f))
  BY <1>1 DEF OneOf, PendingOf
<1>4. SoleOf(po, rs, q, Append(k, f))
  BY <1>1, <1>2 DEF OneOf, SoleOf, Unowned
<1> QED BY <1>3, <1>4 DEF OneOf

LEMMA PairKeeps ==
    ASSUME NEW st, NEW po \in [Settlers -> Promises \cup {None}], NEW rs, NEW q, NEW k,
           NEW p \in Promises, NEW s \in Settlers, po[s] = None,
           st[p] = "pending", Unowned(po, rs, q, k, p), OneOf(st, po, rs, q, k)
    PROVE  OneOf(st, [po EXCEPT ![s] = p], rs, q, k)
<1> DEFINE qo == [po EXCEPT ![s] = p]
<1>1. \A t \in Settlers : t # s => qo[t] = po[t]
  OBVIOUS
<1>2. qo[s] = p
  OBVIOUS
<1> HIDE DEF qo
<1>3. PendingOf(st, qo, rs, q, k)
  BY <1>1, <1>2 DEF OneOf, PendingOf, Open
<1>4. SoleOf(qo, rs, q, k)
  BY <1>1, <1>2 DEF OneOf, SoleOf, Unowned, Open
<1> QED BY <1>3, <1>4 DEF OneOf, qo

(* A promise that has not been made yet has no way to be resolved.         *)
LEMMA AbsentIsUnowned ==
    ASSUME NEW st \in [Promises -> {"absent", "pending", "fulfilled", "rejected"}],
           NEW po, NEW rs, NEW q, NEW k, NEW p \in Promises,
           st[p] = "absent", OneOf(st, po, rs, q, k)
    PROVE  Unowned(po, rs, q, k, p)
  BY DEF OneOf, PendingOf, Unowned

-----------------------------------------------------------------------------
(* The operations the actions are made of.  Each starts from a queue and a *)
(* stack in which nothing is resolvable twice.                             *)

LEMMA SettleKeeps ==
    ASSUME TypeInv, UNCHANGED promiseOf,
           NEW p \in Promises, NEW to \in {"fulfilled", "rejected"},
           NEW value \in Data,
           NEW queue \in Seq(MadeJobs(promiseOf)),
           NEW rest \in Seq(MadeFrames(promiseOf)),
           state[p] = "pending",
           Unowned(promiseOf, resolved', queue, rest, p),
           OneOf(state, promiseOf, resolved', queue, rest),
           Settle(p, to, value, queue, rest)
    PROVE  OneResolver' /\ StaysSettled
<1> DEFINE taken == IF to = "fulfilled" THEN fulfil[p] ELSE reject[p]
           more == JobsOf(taken, value)
<1>1. taken \in Seq(MadeReactions(promiseOf))
  BY DEF TypeInv, ReactionsMade
<1>2. /\ more \in Seq(MadeJobs(promiseOf))
      /\ \A i \in DOMAIN more : more[i].job = "reaction"
  BY <1>1, JobsOfType DEF JobsOf, ReactionJob
<1>3. /\ state' = [state EXCEPT ![p] = to]
      /\ result' = [result EXCEPT ![p] = value]
      /\ jobs' = queue \o more
      /\ stack' = rest
  BY DEF Settle
<1>4. OneOf(state', promiseOf, resolved', queue, rest)
  BY <1>3, SettlingKeeps DEF TypeInv, TypeOK
<1>5. \A i \in DOMAIN (queue \o more) : \A x :
         ThenableFor(queue \o more, i, x) => i \in DOMAIN queue /\ ThenableFor(queue, i, x)
  <2> HIDE DEF more
  <2> QED BY <1>2 DEF ThenableFor
<1>6. OneOf(state', promiseOf', resolved', jobs', stack')
  <2> HIDE DEF more
  <2> QED BY <1>3, <1>4, <1>5 DEF OneOf, PendingOf, SoleOf
<1>7. OneResolver'
  BY <1>6 DEF OneResolver, OnlyPendingIsResolvable, OneWayToResolve, OneOf, PendingOf,
     SoleOf, Open, ThenableFor, GetterFor, Unclaimed, IsThenableJob, IsGetter
<1>8. StaysSettled
  BY <1>3 DEF StaysSettled, TypeInv, TypeOK
<1> QED BY <1>7, <1>8

LEMMA NothingSettledKeeps ==
    ASSUME NEW queue, NEW rest, UNCHANGED promiseOf,
           OneOf(state, promiseOf, resolved', queue, rest),
           NothingSettled(queue, rest)
    PROVE  OneResolver' /\ StaysSettled
<1>1. OneOf(state', promiseOf', resolved', jobs', stack')
  BY DEF NothingSettled, promiseVars
<1>2. OneResolver'
  BY <1>1 DEF OneResolver, OnlyPendingIsResolvable, OneWayToResolve, OneOf, PendingOf,
     SoleOf, Open, ThenableFor, GetterFor, Unclaimed, IsThenableJob, IsGetter
<1> QED BY <1>2 DEF NothingSettled, promiseVars, StaysSettled

(* One way to resolve p has been used up, so its resolution can go ahead.  *)
LEMMA ResolvePromiseKeeps ==
    ASSUME TypeInv, UNCHANGED promiseOf,
           NEW p \in Promises, NEW x \in Data \cup Promises,
           NEW queue \in Seq(MadeJobs(promiseOf)),
           NEW rest \in Seq(MadeFrames(promiseOf)),
           state[p] = "pending",
           Unowned(promiseOf, resolved', queue, rest, p),
           OneOf(state, promiseOf, resolved', queue, rest),
           ResolvePromise(p, x, queue, rest)
    PROVE  OneResolver' /\ StaysSettled
<1>1. queue \in Seq(Jobs) /\ rest \in Seq(Frames)
  BY MadeIsTyped, SeqGrows DEF Jobs
<1>2. CASE \/ x = p /\ Settle(p, "rejected", TypeError, queue, rest)
           \/ x \in Primitives /\ Settle(p, "fulfilled", x, queue, rest)
  BY <1>2, SettleKeeps, ValuesAssumption DEF Data
<1>3. CASE /\ x \in Promises \ {p}
           /\ NothingSettled(Append(queue, [job |-> "thenable", promise |-> p,
                                            thenable |-> x]), rest)
  <2> DEFINE job == [job |-> "thenable", promise |-> p, thenable |-> x]
  <2>1. job \in ThenableJobs /\ job.promise = p
    BY <1>3 DEF ThenableJobs
  <2> HIDE DEF job
  <2>2. OneOf(state, promiseOf, resolved', Append(queue, job), rest)
    BY <1>1, <2>1, EnqueuingKeeps
  <2> QED BY <1>3, <2>2, NothingSettledKeeps DEF job
<1>4. CASE /\ x = ForeignObject
           /\ NothingSettled(queue, Append(rest, Frame("getThen", None, p)))
  <2> DEFINE f == Frame("getThen", None, p)
  <2>1. f \in Frames /\ f.promise = p
    BY DEF Frame, Frames
  <2> HIDE DEF f
  <2>2. OneOf(state, promiseOf, resolved', queue, Append(rest, f))
    BY <1>1, <2>1, ReadingKeeps
  <2> QED BY <1>4, <2>2, NothingSettledKeeps DEF f
<1> QED BY <1>2, <1>3, <1>4 DEF ResolvePromise

(* A resolving function is called, of a pair that has been made.           *)
LEMMA FunctionKeeps ==
    ASSUME TypeInv, UNCHANGED promiseOf,
           NEW s \in Made(promiseOf), NEW x \in Data \cup Promises,
           NEW queue \in Seq(MadeJobs(promiseOf)),
           NEW rest \in Seq(MadeFrames(promiseOf)),
           OneOf(state, promiseOf, resolved, queue, rest),
           \/ Resolve(s, x, queue, rest)
           \/ x \in Data /\ Reject(s, x, queue, rest)
    PROVE  OneResolver' /\ StaysSettled
<1>1. /\ s \in Settlers /\ promiseOf[s] \in Promises /\ promiseOf[s] # None
      /\ resolved \in [Settlers -> BOOLEAN]
  BY DEF Made, TypeInv, TypeOK
<1>2. CASE NothingSettled(queue, rest) /\ UNCHANGED resolved
  BY <1>2, NothingSettledKeeps
<1>3. CASE /\ ~resolved[s]
           /\ resolved' = [resolved EXCEPT ![s] = TRUE]
           /\ \/ ResolvePromise(promiseOf[s], x, queue, rest)
              \/ x \in Data /\ Settle(promiseOf[s], "rejected", x, queue, rest)
  <2>1. /\ OneOf(state, promiseOf, resolved', queue, rest)
        /\ Unowned(promiseOf, resolved', queue, rest, promiseOf[s])
        /\ state[promiseOf[s]] = "pending"
    BY <1>1, <1>3, ClaimKeeps, ZenonT(60) DEF Open
  <2> QED BY <1>1, <1>3, <2>1, ResolvePromiseKeeps, SettleKeeps
<1> QED BY <1>2, <1>3 DEF Resolve, Reject

LEMMA CapabilityKeeps ==
    ASSUME TypeInv, UNCHANGED promiseOf,
           NEW s \in Made(promiseOf) \cup {None}, NEW x \in Data \cup Promises,
           NEW queue \in Seq(MadeJobs(promiseOf)),
           NEW rest \in Seq(MadeFrames(promiseOf)),
           OneOf(state, promiseOf, resolved, queue, rest),
           \/ ResolveCapability(s, x, queue, rest)
           \/ x \in Data /\ RejectCapability(s, x, queue, rest)
    PROVE  OneResolver' /\ StaysSettled
<1>1. CASE s = None
  <2>1. NothingSettled(queue, rest) /\ UNCHANGED resolved
    BY <1>1 DEF ResolveCapability, RejectCapability
  <2> QED BY <2>1, NothingSettledKeeps
<1>2. CASE s # None
  BY <1>2, FunctionKeeps DEF ResolveCapability, RejectCapability
<1> QED BY <1>1, <1>2

(* then and await: reactions are no way to resolve the promise they are on.*)
LEMMA PerformThenKeeps ==
    ASSUME TypeInv, NEW p, NEW f, NEW g, NEW s, NEW queue \in Seq(Jobs),
           OneOf(state', promiseOf', resolved', queue, stack'),
           state' = state \/ \E d \in FreshPromises : state' = [state EXCEPT ![d] = "pending"],
           PerformThen(p, f, g, s, queue)
    PROVE  OneResolver' /\ StaysSettled
<1>1. \/ jobs' = queue
      \/ \E r : jobs' = Append(queue, ReactionJob(r, result[p]))
  BY DEF PerformThen
<1>2. \A i \in DOMAIN jobs' : \A x :
         ThenableFor(jobs', i, x) => i \in DOMAIN queue /\ ThenableFor(queue, i, x)
  <2>1. CASE jobs' = queue
    BY <2>1
  <2>2. CASE \E r : jobs' = Append(queue, ReactionJob(r, result[p]))
    <3>1. PICK r : jobs' = Append(queue, ReactionJob(r, result[p]))
      BY <2>2
    <3> DEFINE e == ReactionJob(r, result[p])
    <3>2. e.job = "reaction"
      BY DEF ReactionJob
    <3> HIDE DEF e
    <3>3. queue \in Seq(Jobs \cup {e})
      BY SeqGrows
    <3> QED BY <3>1, <3>2, <3>3 DEF ThenableFor, e
  <2> QED BY <1>1, <2>1, <2>2
<1>3. OneOf(state', promiseOf', resolved', jobs', stack')
  BY <1>2 DEF OneOf, PendingOf, SoleOf
<1>4. OneResolver'
  BY <1>3 DEF OneResolver, OnlyPendingIsResolvable, OneWayToResolve, OneOf, PendingOf,
     SoleOf, Open, ThenableFor, GetterFor, Unclaimed, IsThenableJob, IsGetter
<1>5. StaysSettled
  BY DEF PerformThen, StaysSettled, FreshPromises, TypeInv, TypeOK
<1> QED BY <1>4, <1>5

-----------------------------------------------------------------------------
(* Every action.                                                           *)

(* A stack with one frame that is no getter holds no way to resolve.       *)
LEMMA OneFrameKeeps ==
    ASSUME NEW st, NEW po, NEW rs, NEW q, NEW k, NEW f \in Frames,
           f.code # "getThen", OneOf(st, po, rs, q, k)
    PROVE  OneOf(st, po, rs, q, <<f>>) /\ OneOf(st, po, rs, q, <<>>)
<1>1. \A i \in DOMAIN <<f>> : \A p : ~GetterFor(<<f>>, i, p)
  BY DEF GetterFor
<1>2. DOMAIN << >> = {}
  OBVIOUS
<1> QED BY <1>1, <1>2 DEF OneOf, PendingOf, SoleOf

(* The actions that leave every promise and every pair alone.              *)
LEMMA QuietKeeps ==
    ASSUME TypeInv, OneResolver,
           \/ StartRun \/ Stop \/ ScriptEnds \/ FinishDrain \/ UNCHANGED vars
    PROVE  OneResolver' /\ StaysSettled
<1>1. UNCHANGED <<state, result, promiseOf, resolved, jobs>>
  BY DEF StartRun, BeginRun, Stop, ScriptEnds, FinishDrain, vars, promiseVars, settlerVars
<1>2. stack \in Seq(Frames) /\ jobs \in Seq(Jobs)
  BY DEF TypeInv, TypeOK, Jobs
<1>3. OneOf(state, promiseOf, resolved, jobs, stack)
  BY OneResolverIsOneOf
<1>4. OneOf(state, promiseOf, resolved, jobs, stack')
  <2>1. CASE StartRun
    <3>1. /\ Frame("script", None, None) \in Frames
          /\ Frame("script", None, None).code # "getThen"
      BY DEF Frame, Frames
    <3> QED BY <1>3, <2>1, <3>1, OneFrameKeeps DEF StartRun, BeginRun
  <2>2. CASE ScriptEnds
    BY <1>2, <1>3, <2>2, PopKeeps DEF ScriptEnds
  <2>3. CASE Stop \/ FinishDrain \/ UNCHANGED vars
    BY <1>3, <2>3 DEF Stop, FinishDrain, vars
  <2> QED BY <2>1, <2>2, <2>3
<1>5. OneOf(state', promiseOf', resolved', jobs', stack')
  BY <1>1, <1>4
<1>6. OneResolver'
  BY <1>5 DEF OneResolver, OnlyPendingIsResolvable, OneWayToResolve, OneOf, PendingOf,
     SoleOf, Open, ThenableFor, GetterFor, Unclaimed, IsThenableJob, IsGetter
<1> QED BY <1>1, <1>6 DEF StaysSettled

(* A new promise is pending and its pair is its one way to be resolved.    *)
LEMMA MakeKeeps ==
    ASSUME TypeInv, NEW q, NEW k, Make, UNCHANGED resolved,
           OneOf(state, promiseOf, resolved, q, k)
    PROVE  OneOf(state', promiseOf', resolved', q, k)
<1>1. /\ NewPromise \in Promises /\ state[NewPromise] = "absent"
      /\ NewSettler \in Settlers /\ promiseOf[NewSettler] = None
      /\ state' = [state EXCEPT ![NewPromise] = "pending"]
      /\ promiseOf' = [promiseOf EXCEPT ![NewSettler] = NewPromise]
  BY MakeType DEF Make, FreshPromises, FreshSettlers
<1>2. /\ state \in [Promises -> {"absent", "pending", "fulfilled", "rejected"}]
      /\ promiseOf \in [Settlers -> Promises \cup {None}]
  BY DEF TypeInv, TypeOK
<1> DEFINE p == NewPromise
<1> HIDE DEF p
<1>3. Unowned(promiseOf, resolved, q, k, p)
  BY <1>1, <1>2, AbsentIsUnowned DEF p
<1>4. OneOf(state', promiseOf, resolved, q, k) /\ state'[p] = "pending"
  BY <1>1, <1>2, <1>3, SettlingKeeps DEF p
<1> QED BY <1>1, <1>2, <1>3, <1>4, PairKeeps DEF p

LEMMA ScriptCallKeeps ==
    ASSUME TypeInv, OneResolver, ScriptCalls
    PROVE  OneResolver' /\ StaysSettled
<1>1. OneOf(state, promiseOf, resolved, jobs, stack)
  BY OneResolverIsOneOf
<1>2. /\ jobs \in Seq(MadeJobs(promiseOf)) /\ jobs \in Seq(Jobs)
      /\ stack \in Seq(MadeFrames(promiseOf))
  BY DEF TypeInv, TypeOK, JobsMade, FramesMade, Jobs
<1>3. CASE Construct
  <2>1. OneOf(state', promiseOf', resolved', jobs', stack')
    BY <1>1, <1>3, MakeKeeps DEF Construct
  <2>2. OneResolver'
    BY <2>1 DEF OneResolver, OnlyPendingIsResolvable, OneWayToResolve, OneOf, PendingOf,
       SoleOf, Open, ThenableFor, GetterFor, Unclaimed, IsThenableJob, IsGetter
  <2>3. StaysSettled
    <3>1. NewPromise \in FreshPromises /\ state' = [state EXCEPT ![NewPromise] = "pending"]
      BY <1>3, MakeType DEF Construct, Make
    <3> QED BY <1>3, <3>1 DEF Construct, StaysSettled, FreshPromises, TypeInv, TypeOK
  <2> QED BY <2>2, <2>3
<1>4. CASE \E s \in Settlers, x \in Answers : CallResolve(s, x)
  <2>1. PICK s \in Settlers, x \in Answers : CallResolve(s, x)
    BY <1>4
  <2>2. s \in Made(promiseOf) /\ UNCHANGED promiseOf /\ Resolve(s, x, jobs, stack)
    BY <2>1 DEF CallResolve, TypeInv, HeldMade
  <2>3. x \in Data \cup Promises
    BY ValuesAssumption DEF Answers, Data, TypeInv, TypeOK
  <2> QED BY <1>1, <1>2, <2>2, <2>3, FunctionKeeps
<1>5. CASE \E s \in Settlers, reason \in ScriptValues : CallReject(s, reason)
  <2>1. PICK s \in Settlers, reason \in ScriptValues : CallReject(s, reason)
    BY <1>5
  <2>2. s \in Made(promiseOf) /\ UNCHANGED promiseOf /\ Reject(s, reason, jobs, stack)
    BY <2>1 DEF CallReject, TypeInv, HeldMade
  <2>3. reason \in Data
    BY ValuesAssumption DEF Data
  <2> QED BY <1>1, <1>2, <2>2, <2>3, FunctionKeeps
<1>6. CASE \E p \in Promises, f, g \in {ScriptHandler, NoHandler} : Then(p, f, g)
  <2>1. PICK p \in Promises, f \in {ScriptHandler, NoHandler},
             g \in {ScriptHandler, NoHandler} : Then(p, f, g)
    BY <1>6
  <2>2. /\ Make /\ UNCHANGED <<resolved, stack>>
        /\ PerformThen(p, f, g, NewSettler, jobs)
    BY <2>1 DEF Then
  <2>3. OneOf(state', promiseOf', resolved', jobs, stack')
    BY <1>1, <2>2, MakeKeeps
  <2>4. NewPromise \in FreshPromises /\ state' = [state EXCEPT ![NewPromise] = "pending"]
    BY <2>2, MakeType DEF Make
  <2> QED BY <1>2, <2>2, <2>3, <2>4, PerformThenKeeps
<1>7. CASE \E p \in Promises : Await(p)
  <2>1. PICK p \in Promises : Await(p)
    BY <1>7
  <2>2. /\ UNCHANGED <<state, promiseOf, resolved, stack>>
        /\ PerformThen(p, ScriptHandler, ScriptHandler, None, jobs)
    BY <2>1 DEF Await, settlerVars
  <2> QED BY <1>1, <1>2, <2>2, PerformThenKeeps
<1> QED BY <1>3, <1>4, <1>5, <1>6, <1>7 DEF ScriptCalls

LEMMA GetterKeeps ==
    ASSUME TypeInv, OneResolver,
           \/ GetterReturnsFunction
           \/ GetterReturnsOther
           \/ \E reason \in ScriptValues : GetterThrows(reason)
    PROVE  OneResolver' /\ StaysSettled
<1> DEFINE p == Top.promise
<1>1. /\ stack # <<>> /\ Top.code = "getThen"
      /\ UNCHANGED <<promiseOf, resolved>>
  BY DEF GetterReturnsFunction, GetterReturnsOther, GetterThrows, settlerVars
<1>2. /\ p \in Promises /\ Pop(stack) \in Seq(MadeFrames(promiseOf))
      /\ jobs \in Seq(MadeJobs(promiseOf))
      /\ jobs \in Seq(Jobs) /\ stack \in Seq(Frames)
  BY <1>1, TopType DEF TypeInv, TypeOK, JobsMade, Jobs
<1>3. /\ OneOf(state, promiseOf, resolved', jobs, Pop(stack))
      /\ Unowned(promiseOf, resolved', jobs, Pop(stack), p)
      /\ state[p] = "pending"
  <2>1. OneOf(state, promiseOf, resolved, jobs, stack)
    BY OneResolverIsOneOf
  <2>2. GetterFor(stack, Len(stack), p)
    BY <1>1 DEF GetterFor, Top
  <2> QED BY <1>1, <1>2, <2>1, <2>2, PopKeeps
<1>4. CASE GetterReturnsFunction
  <2> DEFINE job == [job |-> "thenable", promise |-> p, thenable |-> ForeignObject]
  <2>1. job \in ThenableJobs /\ job.promise = p
    BY <1>2 DEF ThenableJobs
  <2>2. NothingSettled(Append(jobs, job), Pop(stack))
    BY <1>4 DEF GetterReturnsFunction
  <2> HIDE DEF job, p
  <2>3. OneOf(state, promiseOf, resolved', Append(jobs, job), Pop(stack))
    BY <1>2, <1>3, <2>1, EnqueuingKeeps
  <2> QED BY <1>1, <2>2, <2>3, NothingSettledKeeps
<1>5. CASE GetterReturnsOther
  <2>1. ForeignObject \in Data
    BY DEF Data
  <2>2. Settle(p, "fulfilled", ForeignObject, jobs, Pop(stack))
    BY <1>5 DEF GetterReturnsOther
  <2> QED BY <1>1, <1>2, <1>3, <2>1, <2>2, SettleKeeps
<1>6. CASE \E reason \in ScriptValues : GetterThrows(reason)
  <2>1. PICK reason \in ScriptValues : GetterThrows(reason)
    BY <1>6
  <2>2. reason \in Data
    BY ValuesAssumption DEF Data
  <2>3. Settle(p, "rejected", reason, jobs, Pop(stack))
    BY <2>1 DEF GetterThrows
  <2> QED BY <1>1, <1>2, <1>3, <2>2, <2>3, SettleKeeps
<1> QED BY <1>4, <1>5, <1>6

(* A handler, a native handler or a foreign `then` method answers.         *)
LEMMA AnswerKeeps ==
    ASSUME TypeInv, OneResolver,
           \/ \E x \in Answers : HandlerReturns(x)
           \/ \E reason \in ScriptValues : HandlerThrows(reason)
           \/ NativeReturns
           \/ ThenMethodReturns
           \/ \E reason \in ScriptValues : ThenMethodThrows(reason)
    PROVE  OneResolver' /\ StaysSettled
<1>1. stack # <<>> /\ UNCHANGED promiseOf
  BY DEF HandlerReturns, HandlerThrows, NativeReturns, ThenMethodReturns,
         ThenMethodThrows, settlerVars
<1>2. /\ Top.settler \in Made(promiseOf) \cup {None}
      /\ Top.code = "callThen" => Top.settler \in Made(promiseOf)
      /\ Pop(stack) \in Seq(MadeFrames(promiseOf))
      /\ jobs \in Seq(MadeJobs(promiseOf))
      /\ jobs \in Seq(Jobs) /\ stack \in Seq(Frames)
  BY <1>1, TopType DEF TypeInv, TypeOK, JobsMade, Jobs
<1>3. OneOf(state, promiseOf, resolved, jobs, Pop(stack))
  BY <1>1, <1>2, OneResolverIsOneOf, PopKeeps
<1>4. ScriptValues \subseteq Data /\ UndefinedValue \in Data
      /\ Answers \subseteq Data \cup Promises
  BY ValuesAssumption DEF Data, Answers, TypeInv, TypeOK
<1>5. \/ \E x \in Data \cup Promises :
            \/ ResolveCapability(Top.settler, x, jobs, Pop(stack))
            \/ x \in Data /\ RejectCapability(Top.settler, x, jobs, Pop(stack))
      \/ ThenMethodReturns
      \/ \E x \in Data : Top.code = "callThen" /\ Reject(Top.settler, x, jobs, Pop(stack))
  BY <1>4 DEF HandlerReturns, HandlerThrows, NativeReturns, ThenMethodThrows
<1>6. CASE \E x \in Data \cup Promises :
            \/ ResolveCapability(Top.settler, x, jobs, Pop(stack))
            \/ x \in Data /\ RejectCapability(Top.settler, x, jobs, Pop(stack))
  BY <1>1, <1>2, <1>3, <1>6, CapabilityKeeps
<1>7. CASE ThenMethodReturns
  BY <1>1, <1>3, <1>7, NothingSettledKeeps DEF ThenMethodReturns, settlerVars
<1>8. CASE \E x \in Data : Top.code = "callThen" /\ Reject(Top.settler, x, jobs, Pop(stack))
  BY <1>1, <1>2, <1>3, <1>8, FunctionKeeps
<1> QED BY <1>5, <1>6, <1>7, <1>8

LEMMA RunReactionKeeps ==
    ASSUME TypeInv, OneResolver, RunReaction
    PROVE  OneResolver' /\ StaysSettled
<1> DEFINE r == Head(jobs).reaction
           argument == Head(jobs).argument
           nf == Frame("native", r.capability, None)
           hf == Frame("handler", r.capability, None)
<1>1. /\ jobs # <<>> /\ stack = <<>> /\ Head(jobs).job = "reaction"
      /\ UNCHANGED promiseOf
  BY DEF RunReaction, Draining
<1>2. /\ Tail(jobs) \in Seq(MadeJobs(promiseOf))
      /\ r \in MadeReactions(promiseOf)
      /\ argument \in Data
      /\ jobs \in Seq(Jobs)
  BY <1>1, HeadType DEF TypeInv, TypeOK, Jobs
<1>3. /\ r.capability \in Made(promiseOf) \cup {None}
      /\ r.handler.settler \in Made(promiseOf) \cup {None}
      /\ r.handler \in Handlers
  BY <1>2 DEF MadeReactions, Reactions
<1>4. r.handler.call \in {"resolve", "reject"} => r.handler.settler \in Made(promiseOf)
  BY <1>3, NoneAssumption DEF Handlers
<1>5. /\ nf \in MadeFrames(promiseOf) /\ nf \in Frames /\ nf.code # "getThen"
      /\ hf \in MadeFrames(promiseOf) /\ hf \in Frames /\ hf.code # "getThen"
  BY <1>3 DEF Frame, Frames, MadeFrames, Made
<1>6. \/ NothingSettled(Tail(jobs), <<hf>>) /\ UNCHANGED resolved
      \/ ResolveCapability(r.capability, argument, Tail(jobs), <<>>)
      \/ RejectCapability(r.capability, argument, Tail(jobs), <<>>)
      \/ /\ r.handler.settler \in Made(promiseOf)
         /\ \/ Resolve(r.handler.settler, argument, Tail(jobs), <<nf>>)
            \/ Reject(r.handler.settler, argument, Tail(jobs), <<nf>>)
  BY <1>4 DEF RunReaction
<1> HIDE DEF r, argument, nf, hf
<1>7. /\ <<>> \in Seq(MadeFrames(promiseOf))
      /\ <<nf>> \in Seq(MadeFrames(promiseOf))
      /\ <<hf>> \in Seq(MadeFrames(promiseOf))
  BY <1>5
<1>8. OneOf(state, promiseOf, resolved, Tail(jobs), stack)
  BY <1>1, <1>2, OneResolverIsOneOf, TailKeeps
<1>9. /\ OneOf(state, promiseOf, resolved, Tail(jobs), <<>>)
      /\ OneOf(state, promiseOf, resolved, Tail(jobs), <<nf>>)
      /\ OneOf(state, promiseOf, resolved, Tail(jobs), <<hf>>)
  BY <1>5, <1>8, OneFrameKeeps
<1>10. CASE NothingSettled(Tail(jobs), <<hf>>) /\ UNCHANGED resolved
  BY <1>1, <1>9, <1>10, NothingSettledKeeps
<1>11. CASE \/ ResolveCapability(r.capability, argument, Tail(jobs), <<>>)
            \/ RejectCapability(r.capability, argument, Tail(jobs), <<>>)
  BY <1>1, <1>2, <1>3, <1>7, <1>9, <1>11, CapabilityKeeps
<1>12. CASE /\ r.handler.settler \in Made(promiseOf)
            /\ \/ Resolve(r.handler.settler, argument, Tail(jobs), <<nf>>)
               \/ Reject(r.handler.settler, argument, Tail(jobs), <<nf>>)
  BY <1>1, <1>2, <1>7, <1>9, <1>12, FunctionKeeps
<1> QED BY <1>6, <1>10, <1>11, <1>12

LEMMA CallForeignThenKeeps ==
    ASSUME TypeInv, OneResolver, CallForeignThen
    PROVE  OneResolver' /\ StaysSettled
<1> DEFINE p == Head(jobs).promise
           f == Frame("callThen", NewSettler, None)
<1>1. /\ jobs # <<>> /\ Head(jobs).job = "thenable" /\ p \in Promises
      /\ NewSettler \in Settlers /\ promiseOf[NewSettler] = None
      /\ promiseOf' = [promiseOf EXCEPT ![NewSettler] = p]
      /\ UNCHANGED <<state, result, resolved>>
      /\ jobs' = Tail(jobs) /\ stack' = <<f>>
  BY HeadType DEF CallForeignThen, Draining, NewSettler, FreshSettlers,
     NothingSettled, promiseVars
<1>2. jobs \in Seq(Jobs) /\ promiseOf \in [Settlers -> Promises \cup {None}]
  BY DEF TypeInv, TypeOK, Jobs
<1>3. f \in Frames /\ f.code # "getThen"
  BY <1>1 DEF Frame, Frames
<1>4. ThenableFor(jobs, 1, p)
  BY <1>1, <1>2 DEF ThenableFor
<1> HIDE DEF p, f
<1>5. /\ OneOf(state, promiseOf, resolved, Tail(jobs), stack)
      /\ Unowned(promiseOf, resolved, Tail(jobs), stack, p)
      /\ state[p] = "pending"
  BY <1>1, <1>2, <1>4, OneResolverIsOneOf, TailKeeps
<1>6. OneOf(state, promiseOf', resolved, Tail(jobs), stack)
  BY <1>1, <1>2, <1>5, PairKeeps
<1>7. OneOf(state', promiseOf', resolved', jobs', stack')
  BY <1>1, <1>3, <1>6, OneFrameKeeps
<1>8. OneResolver'
  BY <1>7 DEF OneResolver, OnlyPendingIsResolvable, OneWayToResolve, OneOf, PendingOf,
     SoleOf, Open, ThenableFor, GetterFor, Unclaimed, IsThenableJob, IsGetter
<1> QED BY <1>1, <1>8 DEF StaysSettled

(* The adopting promise passes from its job to its second pair, while the  *)
(* derived promise is made.                                                *)
LEMMA AdoptKeeps ==
    ASSUME TypeInv, OneResolver, AdoptPromise
    PROVE  OneResolver' /\ StaysSettled
<1> DEFINE s == NewSettler
           t == OtherSettler
           d == NewPromise
           p == Head(jobs).promise
           f == [call |-> "resolve", settler |-> s]
           g == [call |-> "reject", settler |-> s]
<1>1. d \in FreshPromises /\ s \in FreshSettlers /\ t \in FreshSettlers \ {s}
  BY AdoptType
<1>2. /\ jobs # <<>> /\ p \in Promises /\ Head(jobs).job = "thenable"
      /\ promiseOf' = [promiseOf EXCEPT ![s] = p, ![t] = d]
      /\ PerformThen(Head(jobs).thenable, f, g, t, Tail(jobs))
      /\ state' = [state EXCEPT ![d] = "pending"]
      /\ UNCHANGED <<resolved, stack>>
  BY HeadType DEF AdoptPromise, Draining
<1>3. /\ jobs \in Seq(Jobs) /\ Tail(jobs) \in Seq(Jobs)
      /\ promiseOf \in [Settlers -> Promises \cup {None}]
      /\ state \in [Promises -> {"absent", "pending", "fulfilled", "rejected"}]
  BY <1>2 DEF TypeInv, TypeOK, Jobs
<1>4. ThenableFor(jobs, 1, p)
  BY <1>2, <1>3 DEF ThenableFor
<1> HIDE DEF s, t, d, p, f, g
<1>5. /\ s \in Settlers /\ t \in Settlers /\ s # t /\ d \in Promises
      /\ promiseOf[s] = None /\ promiseOf[t] = None /\ state[d] = "absent"
  BY <1>1 DEF FreshSettlers, FreshPromises
<1>6. /\ OneOf(state, promiseOf, resolved, Tail(jobs), stack)
      /\ Unowned(promiseOf, resolved, Tail(jobs), stack, p)
      /\ state[p] = "pending"
  BY <1>2, <1>3, <1>4, OneResolverIsOneOf, TailKeeps
<1> DEFINE po == [promiseOf EXCEPT ![s] = p]
<1>7. OneOf(state, po, resolved, Tail(jobs), stack)
  BY <1>2, <1>3, <1>5, <1>6, PairKeeps
<1>8. /\ po \in [Settlers -> Promises \cup {None}] /\ po[t] = None
      /\ promiseOf' = [po EXCEPT ![t] = d]
  BY <1>2, <1>3, <1>5
<1> HIDE DEF po
<1>9. Unowned(po, resolved, Tail(jobs), stack, d)
  BY <1>3, <1>5, <1>7, AbsentIsUnowned
<1>10. OneOf(state', po, resolved, Tail(jobs), stack)
  BY <1>2, <1>3, <1>5, <1>7, <1>8, <1>9, SettlingKeeps
<1>11. state'[d] = "pending"
  BY <1>2, <1>3, <1>5
<1>12. OneOf(state', promiseOf', resolved, Tail(jobs), stack)
  BY <1>5, <1>8, <1>9, <1>10, <1>11, PairKeeps
<1>13. OneOf(state', promiseOf', resolved', Tail(jobs), stack')
  BY <1>2, <1>12
<1> QED BY <1>1, <1>2, <1>3, <1>13, PerformThenKeeps

LEMMA NextKeeps ==
    ASSUME TypeInv, OneResolver, [Next]_vars
    PROVE  OneResolver' /\ StaysSettled
<1>1. CASE StartRun \/ Stop \/ UNCHANGED vars
  BY <1>1, QuietKeeps
<1>2. CASE ScriptCalls
  BY <1>2, ScriptCallKeeps
<1>3. CASE ScriptAnswers
  BY <1>3, GetterKeeps, AnswerKeeps, QuietKeeps DEF ScriptAnswers
<1>4. CASE EngineSteps
  BY <1>4, AnswerKeeps, RunReactionKeeps, AdoptKeeps, CallForeignThenKeeps, QuietKeeps
     DEF EngineSteps
<1> QED BY <1>1, <1>2, <1>3, <1>4 DEF Next

-----------------------------------------------------------------------------

(* At no time has a promise two things that could settle it, nor a settled *)
(* promise any: settle (builtins/promise.rs) need not look, and does not.  *)
THEOREM ResolvedByOne == Spec => []OneResolver
<1>1. Init => TypeInv /\ OneResolver
  <2>1. Init => OneResolver
    BY DEF Init, OneResolver, OnlyPendingIsResolvable, OneWayToResolve, Unclaimed
  <2> QED BY <2>1, InitType
<1>2. TypeInv /\ OneResolver /\ [Next]_vars => (TypeInv /\ OneResolver)'
  BY NextType, NextKeeps
<1> QED BY <1>1, <1>2, PTL DEF Spec

(* A settled promise keeps its state and its result, whatever is called.   *)
THEOREM SettlesOnce == Spec => SettledOnce
<1>1. TypeInv /\ OneResolver /\ [Next]_vars => [StaysSettled]_vars
  BY NextKeeps
<1> QED BY <1>1, StrongTypes, ResolvedByOne, PTL DEF Spec, SettledOnce

-----------------------------------------------------------------------------
(* What a step does to promises is one of three things.  `queue` is the    *)
(* job queue without the job the step runs, if it runs one.                *)

Exists(p) == state[p] # "absent"
OneMore == \/ state' = state
           \/ \E d \in FreshPromises : state' = [state EXCEPT ![d] = "pending"]
Settles(queue) ==
    /\ made' = made /\ runs' = runs
    /\ \E p \in Promises, to \in {"fulfilled", "rejected"}, value \in Data :
          state[p] = "pending" /\ Settle(p, to, value, queue, stack')
Registers(queue) ==
    /\ OneMore /\ runs' = runs
    /\ \E p \in Promises, f, g \in Handlers, s \in FreshSettlers \cup {None} :
          Exists(p) /\ f.settler = g.settler /\ PerformThen(p, f, g, s, queue)
SettlesNone(queue) ==
    /\ OneMore /\ made' = made
    /\ UNCHANGED <<result, fulfil, reject, handled>>
    /\ \/ unhandled' = unhandled /\ runs' = runs
       \/ unhandled' = {} /\ runs' # runs
    /\ \/ jobs' = queue
       \/ \E job \in ThenableJobs :
             /\ jobs' = Append(queue, job)
             /\ job.thenable \in Promises => Exists(job.thenable)
Keeps(queue) == Settles(queue) \/ SettlesNone(queue)
Does(queue) == Keeps(queue) \/ Registers(queue)

(* Promises that can be named have been made.                              *)
NamedExist ==
    /\ \A p \in known : Exists(p)
    /\ \A i \in DOMAIN jobs : jobs[i].job = "thenable" /\ jobs[i].thenable \in Promises
                                  => Exists(jobs[i].thenable)

LEMMA NothingDone ==
    ASSUME NEW queue, NEW rest, NothingSettled(queue, rest), UNCHANGED <<made, runs>>
    PROVE  SettlesNone(queue)
<1> QED BY DEF NothingSettled, SettlesNone, promiseVars, OneMore

LEMMA ResolvePromiseDoes ==
    ASSUME NEW p \in Promises, state[p] = "pending",
           NEW x \in Data \cup Promises, x \in Promises => Exists(x),
           NEW queue, NEW rest, ResolvePromise(p, x, queue, rest), UNCHANGED <<made, runs>>
    PROVE  Keeps(queue)
<1>1. CASE \/ x = p /\ Settle(p, "rejected", TypeError, queue, rest)
           \/ x \in Primitives /\ Settle(p, "fulfilled", x, queue, rest)
  <2>1. \E to \in {"fulfilled", "rejected"}, value \in Data : Settle(p, to, value, queue, rest)
    BY <1>1, ValuesAssumption DEF Data
  <2>2. stack' = rest
    BY <2>1 DEF Settle
  <2> QED BY <2>1, <2>2 DEF Keeps, Settles
<1>2. CASE /\ x \in Promises \ {p}
           /\ NothingSettled(Append(queue, [job |-> "thenable", promise |-> p,
                                            thenable |-> x]), rest)
  <2> DEFINE job == [job |-> "thenable", promise |-> p, thenable |-> x]
  <2>1. job \in ThenableJobs /\ job.thenable = x
    BY <1>2 DEF ThenableJobs
  <2> HIDE DEF job
  <2> QED BY <1>2, <2>1 DEF NothingSettled, Keeps, SettlesNone, promiseVars, OneMore, job
<1>3. CASE /\ x = ForeignObject
           /\ NothingSettled(queue, Append(rest, Frame("getThen", None, p)))
  BY <1>3, NothingDone DEF Keeps
<1> QED BY <1>1, <1>2, <1>3 DEF ResolvePromise

LEMMA FunctionDoes ==
    ASSUME TypeInv, OneResolver, NEW s \in Made(promiseOf),
           NEW x \in Data \cup Promises, x \in Promises => Exists(x),
           NEW queue, NEW rest, UNCHANGED <<made, runs>>,
           Resolve(s, x, queue, rest) \/ (x \in Data /\ Reject(s, x, queue, rest))
    PROVE  Keeps(queue)
<1>1. s \in Settlers /\ promiseOf[s] \in Promises /\ promiseOf[s] # None
  BY DEF Made, TypeInv, TypeOK
<1>2. CASE resolved[s]
  <2>1. NothingSettled(queue, rest)
    BY <1>2 DEF Resolve, Reject
  <2> QED BY <2>1, NothingDone DEF Keeps
<1>3. CASE ~resolved[s]
  <2>1. state[promiseOf[s]] = "pending"
    BY <1>1, <1>3 DEF OneResolver, OnlyPendingIsResolvable, Unclaimed
  <2>2. CASE ResolvePromise(promiseOf[s], x, queue, rest)
    BY <1>1, <2>1, <2>2, ResolvePromiseDoes
  <2>3. CASE x \in Data /\ Settle(promiseOf[s], "rejected", x, queue, rest)
    <3>1. stack' = rest
      BY <2>3 DEF Settle
    <3> QED BY <1>1, <2>1, <2>3, <3>1 DEF Keeps, Settles
  <2> QED BY <1>3, <2>2, <2>3 DEF Resolve, Reject
<1> QED BY <1>2, <1>3

LEMMA CapabilityDoes ==
    ASSUME TypeInv, OneResolver, NEW s \in Made(promiseOf) \cup {None},
           NEW x \in Data \cup Promises, x \in Promises => Exists(x),
           NEW queue, NEW rest, UNCHANGED <<made, runs>>,
           \/ ResolveCapability(s, x, queue, rest)
           \/ x \in Data /\ RejectCapability(s, x, queue, rest)
    PROVE  Keeps(queue)
<1>1. CASE s = None
  BY <1>1, NothingDone DEF ResolveCapability, RejectCapability, Keeps
<1>2. CASE s # None
  BY <1>2, FunctionDoes DEF ResolveCapability, RejectCapability
<1> QED BY <1>1, <1>2

LEMMA ScriptCallDoes ==
    ASSUME TypeInv, OneResolver, NamedExist, ScriptCalls
    PROVE  Does(jobs) /\ UNCHANGED runs
<1>1. Answers \subseteq Data \cup Promises /\ \A x \in Answers \cap Promises : Exists(x)
  BY ValuesAssumption DEF Answers, Data, TypeInv, TypeOK, NamedExist
<1>2. ScriptHandler \in Handlers /\ NoHandler \in Handlers
      /\ ScriptHandler.settler = None /\ NoHandler.settler = None
  BY DEF ScriptHandler, NoHandler, Handlers
<1>3. CASE Construct
  <2>1. NewPromise \in FreshPromises /\ state' = [state EXCEPT ![NewPromise] = "pending"]
    BY <1>3, MakeType DEF Construct, Make
  <2> QED BY <1>3, <2>1 DEF Construct, Does, Keeps, SettlesNone, OneMore, runVars
<1>4. CASE \E s \in Settlers, x \in Answers : CallResolve(s, x)
  <2>1. PICK s \in Settlers, x \in Answers : CallResolve(s, x)
    BY <1>4
  <2>2. /\ s \in Made(promiseOf) /\ Resolve(s, x, jobs, stack) /\ UNCHANGED <<made, runs>>
    BY <2>1 DEF CallResolve, TypeInv, HeldMade, runVars
  <2> QED BY <1>1, <2>2, FunctionDoes DEF Does
<1>5. CASE \E s \in Settlers, reason \in ScriptValues : CallReject(s, reason)
  <2>1. PICK s \in Settlers, reason \in ScriptValues : CallReject(s, reason)
    BY <1>5
  <2>2. /\ s \in Made(promiseOf) /\ Reject(s, reason, jobs, stack) /\ UNCHANGED <<made, runs>>
    BY <2>1 DEF CallReject, TypeInv, HeldMade, runVars
  <2>3. reason \in Data /\ reason \notin Promises
    BY ValuesAssumption DEF Data
  <2> QED BY <2>2, <2>3, FunctionDoes DEF Does
<1>6. CASE \E p \in Promises, f, g \in {ScriptHandler, NoHandler} : Then(p, f, g)
  <2>1. PICK p \in Promises, f \in {ScriptHandler, NoHandler},
             g \in {ScriptHandler, NoHandler} : Then(p, f, g)
    BY <1>6
  <2>2. /\ Make /\ PerformThen(p, f, g, NewSettler, jobs) /\ runs' = runs /\ p \in known
    BY <2>1 DEF Then, runVars
  <2>3. /\ NewPromise \in FreshPromises /\ state' = [state EXCEPT ![NewPromise] = "pending"]
        /\ NewSettler \in FreshSettlers
    BY <2>2, MakeType DEF Make
  <2>4. f \in Handlers /\ g \in Handlers /\ f.settler = g.settler /\ Exists(p)
    BY <1>2, <2>1, <2>2 DEF NamedExist
  <2>5. Registers(jobs)
    BY <2>2, <2>3, <2>4 DEF Registers, OneMore
  <2> QED BY <2>2, <2>5 DEF Does, Keeps
<1>7. CASE \E p \in Promises : Await(p)
  <2>1. PICK p \in Promises : Await(p)
    BY <1>7
  <2>2. /\ UNCHANGED <<state, runs>> /\ p \in known
        /\ PerformThen(p, ScriptHandler, ScriptHandler, None, jobs)
    BY <2>1 DEF Await, runVars
  <2>3. Registers(jobs)
    BY <1>2, <2>2 DEF Registers, OneMore, NamedExist
  <2> QED BY <2>2, <2>3 DEF Does, Keeps
<1> QED BY <1>3, <1>4, <1>5, <1>6, <1>7 DEF ScriptCalls

LEMMA AnswerDoes ==
    ASSUME TypeInv, OneResolver, NamedExist, ScriptAnswers \/ NativeReturns
    PROVE  Does(jobs) /\ UNCHANGED runs
<1>1. /\ ScriptValues \subseteq Data /\ UndefinedValue \in Data /\ ForeignObject \in Data
      /\ Answers \subseteq Data \cup Promises
      /\ \A x \in Answers \cap Promises : Exists(x)
      /\ \A x \in Data : x \notin Promises
  BY ValuesAssumption DEF Data, Answers, TypeInv, TypeOK, NamedExist
<1>2. stack # <<>> /\ UNCHANGED <<made, runs>>
  BY DEF ScriptAnswers, GetterReturnsFunction, GetterReturnsOther, GetterThrows,
         HandlerReturns, HandlerThrows, NativeReturns, ThenMethodReturns,
         ThenMethodThrows, ScriptEnds, runVars
<1>3. /\ Top.settler \in Made(promiseOf) \cup {None}
      /\ Top.code = "callThen" => Top.settler \in Made(promiseOf)
      /\ Top.code = "getThen" => Top.promise \in Promises
  BY <1>2, TopType
<1>4. Top.code = "getThen" => state[Top.promise] = "pending"
  <2>1. Len(stack) \in DOMAIN stack
    BY <1>2 DEF TypeInv, TypeOK
  <2> QED BY <1>3, <2>1 DEF Top, OneResolver, OnlyPendingIsResolvable, IsGetter
<1>5. CASE GetterReturnsFunction
  <2> DEFINE job == [job |-> "thenable", promise |-> Top.promise, thenable |-> ForeignObject]
  <2>0. Top.code = "getThen" /\ Top.promise \in Promises
    BY <1>3, <1>5 DEF GetterReturnsFunction
  <2>1. job \in ThenableJobs /\ job.thenable \notin Promises
    <3>1. job.thenable \notin Promises
      BY <1>1
    <3> QED BY <2>0, <3>1 DEF ThenableJobs
  <2>2. NothingSettled(Append(jobs, job), Pop(stack))
    BY <1>5 DEF GetterReturnsFunction
  <2> HIDE DEF job
  <2> QED BY <1>2, <2>1, <2>2 DEF NothingSettled, Does, Keeps, SettlesNone, promiseVars, OneMore
<1>6. CASE GetterReturnsOther \/ \E reason \in ScriptValues : GetterThrows(reason)
  <2>1. /\ Top.code = "getThen"
        /\ \E to \in {"fulfilled", "rejected"}, value \in Data :
              Settle(Top.promise, to, value, jobs, Pop(stack))
    BY <1>1, <1>6 DEF GetterReturnsOther, GetterThrows
  <2>2. stack' = Pop(stack)
    BY <2>1 DEF Settle
  <2> QED BY <1>2, <1>3, <1>4, <2>1, <2>2 DEF Does, Keeps, Settles
<1>7. CASE \/ \E x \in Answers : HandlerReturns(x)
           \/ \E reason \in ScriptValues : HandlerThrows(reason)
           \/ NativeReturns
  <2>1. CASE \E x \in Answers : HandlerReturns(x)
    <3>1. PICK x \in Answers : HandlerReturns(x)
      BY <2>1
    <3>2. ResolveCapability(Top.settler, x, jobs, Pop(stack))
      BY <3>1 DEF HandlerReturns
    <3>3. x \in Data \cup Promises /\ (x \in Promises => Exists(x))
      BY <1>1
    <3> QED BY <1>2, <1>3, <3>2, <3>3, CapabilityDoes DEF Does
  <2>2. CASE \E reason \in ScriptValues : HandlerThrows(reason)
    <3>1. PICK reason \in ScriptValues : HandlerThrows(reason)
      BY <2>2
    <3>2. RejectCapability(Top.settler, reason, jobs, Pop(stack))
      BY <3>1 DEF HandlerThrows
    <3>3. reason \in Data /\ reason \notin Promises
      BY <1>1, <3>1
    <3> QED BY <1>2, <1>3, <3>2, <3>3, CapabilityDoes DEF Does
  <2>3. CASE NativeReturns
    <3>1. ResolveCapability(Top.settler, UndefinedValue, jobs, Pop(stack))
      BY <2>3 DEF NativeReturns
    <3>2. UndefinedValue \in Data /\ UndefinedValue \notin Promises
      BY <1>1
    <3> QED BY <1>2, <1>3, <3>1, <3>2, CapabilityDoes DEF Does
  <2> QED BY <1>7, <2>1, <2>2, <2>3
<1>8. CASE ThenMethodReturns
  BY <1>2, <1>8, NothingDone DEF ThenMethodReturns, Does, Keeps
<1>9. CASE \E reason \in ScriptValues : ThenMethodThrows(reason)
  <2>1. PICK reason \in ScriptValues : ThenMethodThrows(reason)
    BY <1>9
  <2>2. Top.code = "callThen" /\ Reject(Top.settler, reason, jobs, Pop(stack))
    BY <2>1 DEF ThenMethodThrows
  <2>3. reason \in Data /\ reason \notin Promises /\ Top.settler \in Made(promiseOf)
    BY <1>1, <1>3, <2>1, <2>2
  <2> QED BY <1>2, <2>2, <2>3, FunctionDoes DEF Does
<1>10. CASE ScriptEnds
  BY <1>2, <1>10 DEF ScriptEnds, Does, Keeps, SettlesNone, promiseVars, OneMore
<1> QED BY <1>2, <1>5, <1>6, <1>7, <1>8, <1>9, <1>10 DEF ScriptAnswers

LEMMA JobDoes ==
    ASSUME TypeInv, OneResolver, NamedExist, RunReaction \/ AdoptPromise \/ CallForeignThen
    PROVE  jobs # <<>> /\ Does(Tail(jobs)) /\ UNCHANGED runs
           /\ Head(jobs).job = IF RunReaction THEN "reaction" ELSE "thenable"
<1>1. jobs # <<>>
  BY DEF RunReaction, AdoptPromise, CallForeignThen, Draining
<1>2. CASE RunReaction
  <2> DEFINE r == Head(jobs).reaction
             argument == Head(jobs).argument
             native == <<Frame("native", r.capability, None)>>
             handler == <<Frame("handler", r.capability, None)>>
  <2>1. Head(jobs).job = "reaction" /\ UNCHANGED <<made, runs>>
    BY <1>2 DEF RunReaction, Draining, runVars
  <2>2. r \in MadeReactions(promiseOf) /\ argument \in Data
    BY <1>1, <2>1, HeadType
  <2>3. argument \notin Promises
    BY <2>2, ValuesAssumption DEF Data
  <2>4. /\ r.capability \in Made(promiseOf) \cup {None}
        /\ r.handler.call \in {"resolve", "reject"} => r.handler.settler \in Made(promiseOf)
    BY <2>2, NoneAssumption DEF MadeReactions, Reactions, Handlers
  <2>5. \/ NothingSettled(Tail(jobs), handler)
        \/ ResolveCapability(r.capability, argument, Tail(jobs), <<>>)
        \/ RejectCapability(r.capability, argument, Tail(jobs), <<>>)
        \/ /\ r.handler.settler \in Made(promiseOf)
           /\ \/ Resolve(r.handler.settler, argument, Tail(jobs), native)
              \/ Reject(r.handler.settler, argument, Tail(jobs), native)
    BY <1>2, <2>4 DEF RunReaction
  <2> HIDE DEF r, argument, native, handler
  <2>6. CASE NothingSettled(Tail(jobs), handler)
    BY <1>1, <1>2, <2>1, <2>6, NothingDone DEF Does, Keeps
  <2>7. CASE \/ ResolveCapability(r.capability, argument, Tail(jobs), <<>>)
             \/ RejectCapability(r.capability, argument, Tail(jobs), <<>>)
    BY <1>1, <1>2, <2>1, <2>2, <2>3, <2>4, <2>7, CapabilityDoes DEF Does
  <2>8. CASE /\ r.handler.settler \in Made(promiseOf)
             /\ \/ Resolve(r.handler.settler, argument, Tail(jobs), native)
                \/ Reject(r.handler.settler, argument, Tail(jobs), native)
    BY <1>1, <1>2, <2>1, <2>2, <2>3, <2>8, FunctionDoes DEF Does
  <2> QED BY <2>5, <2>6, <2>7, <2>8
<1>3. CASE AdoptPromise
  <2> DEFINE f == [call |-> "resolve", settler |-> NewSettler]
             g == [call |-> "reject", settler |-> NewSettler]
             q == Head(jobs).thenable
  <2>1. /\ Head(jobs).job = "thenable" /\ q \in Promises /\ UNCHANGED runs
        /\ state' = [state EXCEPT ![NewPromise] = "pending"]
        /\ PerformThen(q, f, g, OtherSettler, Tail(jobs))
    BY <1>3 DEF AdoptPromise, Draining, runVars
  <2>2. /\ NewPromise \in FreshPromises /\ OtherSettler \in FreshSettlers
        /\ NewSettler \in Settlers
    BY <1>3, AdoptType DEF FreshSettlers
  <2>3. f \in Handlers /\ g \in Handlers /\ f.settler = g.settler
    BY <2>2 DEF Handlers
  <2>4. Exists(q)
    <3>1. 1 \in DOMAIN jobs /\ Head(jobs) = jobs[1]
      BY <1>1 DEF TypeInv, TypeOK
    <3> QED BY <2>1, <3>1 DEF NamedExist
  <2> HIDE DEF f, g, q
  <2>5. Registers(Tail(jobs))
    BY <2>1, <2>2, <2>3, <2>4 DEF Registers, OneMore
  <2> QED BY <1>1, <2>1, <2>5, <1>3 DEF Does, Keeps, RunReaction, Draining
<1>4. CASE CallForeignThen
  <2>1. Head(jobs).job = "thenable" /\ UNCHANGED <<made, runs>>
        /\ NothingSettled(Tail(jobs), <<Frame("callThen", NewSettler, None)>>)
    BY <1>4 DEF CallForeignThen, Draining, runVars
  <2> QED BY <1>1, <2>1, NothingDone DEF Does, Keeps, RunReaction, Draining
<1> QED BY <1>2, <1>3, <1>4

LEMMA OthersDo ==
    ASSUME StartRun \/ Stop \/ FinishDrain \/ UNCHANGED vars, runs \in Nat
    PROVE  SettlesNone(jobs)
<1> QED BY DEF StartRun, BeginRun, Stop, FinishDrain, vars, promiseVars, runVars,
         SettlesNone, OneMore

LEMMA NextDoes ==
    ASSUME TypeInv, OneResolver, NamedExist, [Next]_vars
    PROVE  \/ Does(jobs)
           \/ jobs # <<>> /\ Draining(Head(jobs).job) /\ Does(Tail(jobs))
<1>1. CASE StartRun \/ Stop \/ FinishDrain \/ UNCHANGED vars
  BY <1>1, OthersDo DEF Does, Keeps, TypeInv, TypeOK
<1>2. CASE ScriptCalls
  BY <1>2, ScriptCallDoes
<1>3. CASE ScriptAnswers \/ NativeReturns
  BY <1>3, AnswerDoes
<1>4. CASE RunReaction \/ AdoptPromise \/ CallForeignThen
  <2>1. Draining(Head(jobs).job)
    BY <1>4 DEF RunReaction, AdoptPromise, CallForeignThen, Draining
  <2> QED BY <1>4, <2>1, JobDoes
<1> QED BY <1>1, <1>2, <1>3, <1>4 DEF Next, EngineSteps

-----------------------------------------------------------------------------
(* The lists and the queue.  The two lists of a promise hold the same      *)
(* registrations, so dropping one when the promise settles loses nothing.  *)

Orderly(list, p, kind, n) ==
    /\ \A i \in DOMAIN list :
          list[i].of = p /\ list[i].kind = kind /\ list[i].id < n
    /\ \A i, j \in DOMAIN list : i < j => list[i].id < list[j].id
Twins(r, w) == /\ r.id = w.id
               /\ r.capability = w.capability
               /\ r.handler.settler = w.handler.settler
Listed(p) ==
    /\ Orderly(fulfil[p], p, "fulfil", made) /\ Orderly(reject[p], p, "reject", made)
    /\ Len(fulfil[p]) = Len(reject[p])
    /\ \A i \in DOMAIN fulfil[p] : Twins(fulfil[p][i], reject[p][i])
    /\ fulfil[p] # <<>> => state[p] = "pending"
Listing == \A p \in Promises : Listed(p)

IsReaction(q, i) == q[i].job = "reaction"
OutcomeOf(r) == IF r.kind = "fulfil" THEN "fulfilled" ELSE "rejected"
Tells(job, st, re, n) == /\ job.reaction.id < n
                         /\ st[job.reaction.of] = OutcomeOf(job.reaction)
                         /\ job.argument = re[job.reaction.of]
TrueOf(q, st, re, n) == \A i \in DOMAIN q : IsReaction(q, i) => Tells(q[i], st, re, n)
Truthful(q) == TrueOf(q, state, result, made)
InTurn(q) ==
    \A i, j \in DOMAIN q :
        i < j /\ IsReaction(q, i) /\ IsReaction(q, j)
            /\ q[i].reaction.of = q[j].reaction.of
        => q[i].reaction.id < q[j].reaction.id
Following(q) == Truthful(q) /\ InTurn(q)

LEMMA TailFollows ==
    ASSUME NEW q, q \in Seq(Jobs), q # <<>>, Following(q)
    PROVE  Following(Tail(q))
<1>1. \A i \in DOMAIN Tail(q) : i + 1 \in DOMAIN q /\ Tail(q)[i] = q[i + 1] /\ i \in Nat
  BY HeadTailProperties
<1> QED BY <1>1 DEF Following, Truthful, TrueOf, InTurn, IsReaction

LEMMA ListsTyped ==
    ASSUME TypeInv, NEW p \in Promises
    PROVE  fulfil[p] \in Seq(Reactions) /\ reject[p] \in Seq(Reactions)
  BY DEF TypeInv, TypeOK

(* q is the queue with the jobs of a list behind it.                       *)
Joined(q, queue, taken, value) ==
    /\ Len(q) = Len(queue) + Len(taken) /\ DOMAIN q = 1..Len(q)
    /\ \A i \in 1..Len(queue) : q[i] = queue[i]
    /\ \A i \in 1..Len(taken) : q[Len(queue) + i] = ReactionJob(taken[i], value)
    /\ \A i \in DOMAIN q : \/ i \in 1..Len(queue)
                           \/ \E j \in 1..Len(taken) : i = Len(queue) + j

LEMMA JobsAre ==
    ASSUME NEW taken \in Seq(Reactions), NEW value, NEW queue \in Seq(Jobs)
    PROVE  Joined(queue \o JobsOf(taken, value), queue, taken, value)
<1> DEFINE more == JobsOf(taken, value)
           q == queue \o more
           S == Jobs \cup {ReactionJob(r, value) : r \in Reactions}
<1>1. more \in Seq({ReactionJob(r, value) : r \in Reactions}) /\ Len(more) = Len(taken)
      /\ \A i \in 1..Len(taken) : more[i] = ReactionJob(taken[i], value)
  BY DEF JobsOf
<1> HIDE DEF more
<1>2. queue \in Seq(S) /\ more \in Seq(S)
  BY <1>1, SeqGrows
<1> HIDE DEF S
<1>3. /\ q \in Seq(S) /\ Len(q) = Len(queue) + Len(more)
      /\ \A i \in 1..Len(queue) : q[i] = queue[i]
      /\ \A i \in 1..Len(more) : q[Len(queue) + i] = more[i]
  <2>1. /\ q \in Seq(S) /\ Len(q) = Len(queue) + Len(more)
    BY <1>2, ConcatProperties
  <2>2. \A i \in 1..Len(q) : q[i] = IF i <= Len(queue) THEN queue[i] ELSE more[i - Len(queue)]
    BY <1>2, ConcatProperties
  <2>3. Len(queue) \in Nat /\ Len(more) \in Nat
    BY <1>2
  <2>4. \A i \in 1..Len(queue) : q[i] = queue[i]
    BY <2>1, <2>2, <2>3
  <2>5. ASSUME NEW i \in 1..Len(more) PROVE q[Len(queue) + i] = more[i]
    <3>1. Len(queue) + i \in 1..Len(q) /\ ~(Len(queue) + i <= Len(queue))
          /\ Len(queue) + i - Len(queue) = i
      BY <2>1, <2>3
    <3> QED BY <2>2, <3>1
  <2> QED BY <2>1, <2>4, <2>5
<1>4. Len(queue) \in Nat /\ Len(taken) \in Nat /\ DOMAIN q = 1..Len(q)
  BY <1>3
<1> HIDE DEF q
<1>5. ASSUME NEW i \in DOMAIN q, i \notin 1..Len(queue)
      PROVE  \E j \in 1..Len(taken) : i = Len(queue) + j
  <2>1. i - Len(queue) \in 1..Len(taken) /\ i = Len(queue) + (i - Len(queue))
    BY <1>1, <1>3, <1>4, <1>5
  <2> QED BY <2>1
<1>6. Joined(q, queue, taken, value)
  BY <1>1, <1>3, <1>4, <1>5 DEF Joined
<1> QED BY <1>6 DEF q, more

(* A settlement queues one list of its promise, whose reactions come after *)
(* none of the same promise, and empties both.                             *)
LEMMA SettlesFollow ==
    ASSUME TypeInv, Listing, NEW queue \in Seq(Jobs), Following(queue), Settles(queue)
    PROVE  Listing' /\ Following(jobs)'
<1>1. PICK p \in Promises, to \in {"fulfilled", "rejected"}, value \in Data :
          state[p] = "pending" /\ Settle(p, to, value, queue, stack')
  BY DEF Settles
<1> DEFINE taken == IF to = "fulfilled" THEN fulfil[p] ELSE reject[p]
           kind == IF to = "fulfilled" THEN "fulfil" ELSE "reject"
<1>2. taken \in Seq(Reactions) /\ Orderly(taken, p, kind, made)
  BY ListsTyped DEF Listing, Listed
<1>3. /\ state' = [state EXCEPT ![p] = to] /\ result' = [result EXCEPT ![p] = value]
      /\ fulfil' = [fulfil EXCEPT ![p] = <<>>] /\ reject' = [reject EXCEPT ![p] = <<>>]
      /\ jobs' = queue \o JobsOf(taken, value) /\ made' = made
  BY <1>1 DEF Settle, Settles
<1>4. /\ state \in [Promises -> {"absent", "pending", "fulfilled", "rejected"}]
      /\ result \in [Promises -> Data] /\ fulfil \in [Promises -> Seq(Reactions)]
      /\ reject \in [Promises -> Seq(Reactions)]
  BY DEF TypeInv, TypeOK
<1>k. /\ kind \in {"fulfil", "reject"}
      /\ kind = "fulfil" => to = "fulfilled"
      /\ kind = "reject" => to = "rejected"
  OBVIOUS
<1> HIDE DEF taken, kind
<1>5. Listing'
  <2> SUFFICES ASSUME NEW o \in Promises PROVE Listed(o)'
    BY DEF Listing
  <2>1. CASE o = p
    BY <1>3, <1>4, <2>1 DEF Listed, Orderly, Twins
  <2>2. CASE o # p
    <3>1. /\ fulfil'[o] = fulfil[o] /\ reject'[o] = reject[o] /\ state'[o] = state[o]
      BY <1>3, <1>4, <2>2
    <3> QED BY <1>3, <3>1 DEF Listing, Listed, Orderly
  <2> QED BY <2>1, <2>2
<1>j. Joined(jobs', queue, taken, value)
  BY <1>2, <1>3, JobsAre
<1>6. /\ \A i \in 1..Len(queue) : jobs'[i] = queue[i]
      /\ \A i \in DOMAIN jobs' : \/ i \in 1..Len(queue)
                                 \/ \E j \in 1..Len(taken) : i = Len(queue) + j
  BY <1>j DEF Joined
<1>7. ASSUME NEW i \in 1..Len(taken)
      PROVE  /\ jobs'[Len(queue) + i].reaction = taken[i]
             /\ jobs'[Len(queue) + i].argument = value
             /\ taken[i].of = p /\ taken[i].kind = kind /\ taken[i].id < made
  <2>1. jobs'[Len(queue) + i] = ReactionJob(taken[i], value)
    BY <1>j DEF Joined
  <2>2. i \in DOMAIN taken
    BY <1>2
  <2> QED BY <1>2, <2>1, <2>2 DEF ReactionJob, Orderly
<1>8. \A i \in 1..Len(queue) : IsReaction(queue, i) =>
          Tells(queue[i], state, result, made) /\ queue[i].reaction.of # p /\ queue[i].reaction.of \in Promises
  <2> SUFFICES ASSUME NEW i \in 1..Len(queue), IsReaction(queue, i)
               PROVE  Tells(queue[i], state, result, made) /\ queue[i].reaction.of # p
                      /\ queue[i].reaction.of \in Promises
    OBVIOUS
  <2>1. Tells(queue[i], state, result, made)
    BY DEF Following, Truthful, TrueOf
  <2>2. queue[i] \in ReactionJobs
    <3>1. queue[i] \in Jobs
      OBVIOUS
    <3> QED BY <3>1 DEF Jobs, ThenableJobs, IsReaction
  <2>3. queue[i].reaction.of \in Promises
    BY <2>2 DEF ReactionJobs, Reactions
  <2>4. state[queue[i].reaction.of] # "pending"
    BY <2>1 DEF Tells, OutcomeOf
  <2> QED BY <1>1, <2>1, <2>3, <2>4
<1>9. Truthful(jobs)'
  <2> SUFFICES ASSUME NEW i \in DOMAIN jobs', IsReaction(jobs', i)
               PROVE  Tells(jobs'[i], state', result', made')
    BY DEF Truthful, TrueOf, IsReaction
  <2>1. CASE i \in 1..Len(queue)
    <3>1. IsReaction(queue, i) /\ jobs'[i] = queue[i]
      BY <1>6, <2>1 DEF IsReaction
    <3>2. Tells(queue[i], state, result, made) /\ queue[i].reaction.of # p /\ queue[i].reaction.of \in Promises
      BY <1>8, <2>1, <3>1
    <3> QED BY <1>3, <1>4, <3>1, <3>2 DEF Tells
  <2>2. CASE \E j \in 1..Len(taken) : i = Len(queue) + j
    <3>1. /\ jobs'[i].reaction.of = p /\ jobs'[i].reaction.kind = kind
          /\ jobs'[i].reaction.id < made /\ jobs'[i].argument = value
      BY <1>7, <2>2
    <3>2. state'[p] = to /\ result'[p] = value
      BY <1>3, <1>4
    <3> QED BY <1>3, <1>k, <3>1, <3>2 DEF Tells, OutcomeOf
  <2> QED BY <1>6, <2>1, <2>2
<1>10. InTurn(jobs)'
  <2> SUFFICES ASSUME NEW i \in DOMAIN jobs', NEW j \in DOMAIN jobs', i < j,
                      IsReaction(jobs', i), IsReaction(jobs', j),
                      jobs'[i].reaction.of = jobs'[j].reaction.of
               PROVE  jobs'[i].reaction.id < jobs'[j].reaction.id
    BY DEF InTurn, IsReaction
  <2>1. CASE i \in 1..Len(queue) /\ j \in 1..Len(queue)
    <3>1. jobs'[i] = queue[i] /\ jobs'[j] = queue[j]
      BY <1>6, <2>1
    <3> QED BY <2>1, <3>1 DEF Following, InTurn, IsReaction
  <2>2. CASE i \in 1..Len(queue) /\ \E b \in 1..Len(taken) : j = Len(queue) + b
    <3>1. jobs'[i].reaction.of # p
      BY <1>6, <1>8, <2>2 DEF IsReaction
    <3>2. jobs'[j].reaction.of = p
      BY <1>7, <2>2
    <3> QED BY <3>1, <3>2
  <2>3. CASE /\ \E a \in 1..Len(taken) : i = Len(queue) + a
             /\ \E b \in 1..Len(taken) : j = Len(queue) + b
    <3>1. PICK a \in 1..Len(taken), b \in 1..Len(taken) :
              i = Len(queue) + a /\ j = Len(queue) + b
      BY <2>3
    <3>2. a < b /\ a \in DOMAIN taken /\ b \in DOMAIN taken
      BY <1>2, <3>1
    <3>3. jobs'[i].reaction = taken[a] /\ jobs'[j].reaction = taken[b]
      BY <1>7, <3>1
    <3> QED BY <1>2, <3>2, <3>3 DEF Orderly
  <2>4. ~(j \in 1..Len(queue) /\ \E a \in 1..Len(taken) : i = Len(queue) + a)
    OBVIOUS
  <2> QED BY <1>6, <2>1, <2>2, <2>3, <2>4
<1> QED BY <1>5, <1>9, <1>10 DEF Following

(* A queued job of the queue was there before, and its promise had settled. *)
LEMMA QueuedSettled ==
    ASSUME TypeInv, NEW queue \in Seq(Jobs), Truthful(queue),
           NEW i \in DOMAIN queue, IsReaction(queue, i)
    PROVE  /\ Tells(queue[i], state, result, made) /\ queue[i].reaction.of \in Promises
           /\ state[queue[i].reaction.of] \in {"fulfilled", "rejected"}
<1>1. Tells(queue[i], state, result, made)
  BY DEF Truthful, TrueOf
<1>2. queue[i] \in Jobs
  OBVIOUS
<1>3. queue[i].reaction.of \in Promises
  BY <1>2 DEF Jobs, ReactionJobs, ThenableJobs, Reactions, IsReaction
<1> QED BY <1>1, <1>3 DEF Tells, OutcomeOf

(* Making a promise, which had no reactions, changes nothing of this.      *)
LEMMA MoreFollows ==
    ASSUME TypeInv, NEW queue \in Seq(Jobs), Following(queue), OneMore,
           result' = result, made' \in Nat, made <= made'
    PROVE  /\ TrueOf(queue, state', result', made')
           /\ \A p \in Promises : state[p] # "absent" => state'[p] = state[p]
<1>1. \A p \in Promises : state[p] # "absent" => state'[p] = state[p]
  BY DEF OneMore, FreshPromises, TypeInv, TypeOK
<1>2. ASSUME NEW i \in DOMAIN queue, IsReaction(queue, i) PROVE Tells(queue[i], state', result', made')
  <2>1. /\ Tells(queue[i], state, result, made) /\ queue[i].reaction.of \in Promises
        /\ state[queue[i].reaction.of] \in {"fulfilled", "rejected"}
    BY <1>2, QueuedSettled DEF Following
  <2>2. state'[queue[i].reaction.of] = state[queue[i].reaction.of]
    BY <1>1, <2>1
  <2>3. queue[i].reaction.id < made'
    <3>1. queue[i] \in Jobs
      OBVIOUS
    <3>2. queue[i].reaction.id \in Nat
      BY <1>2, <3>1 DEF Jobs, ReactionJobs, ThenableJobs, Reactions, IsReaction
    <3> QED BY <2>1, <3>2 DEF Tells, TypeInv, TypeOK
  <2> QED BY <2>1, <2>2, <2>3 DEF Tells
<1> QED BY <1>1, <1>2 DEF TrueOf

(* A job put behind the queue is in turn if it is no reaction, or the      *)
(* newest.                                                                 *)
LEMMA OneBehind ==
    ASSUME NEW queue \in Seq(Jobs), NEW job \in Jobs, Following(queue), 
           NEW st, NEW re, NEW n, TrueOf(queue, st, re, n),
           job.job = "reaction" => job.reaction.id = made /\ Tells(job, st, re, n)
    PROVE  /\ TrueOf(Append(queue, job), st, re, n)
           /\ InTurn(Append(queue, job))
<1> DEFINE q == Append(queue, job)
<1>1. /\ DOMAIN q = 1..(Len(queue) + 1) /\ Len(queue) \in Nat /\ DOMAIN queue = 1..Len(queue)
      /\ \A i \in DOMAIN queue : q[i] = queue[i]
      /\ q[Len(queue) + 1] = job
  OBVIOUS
<1> HIDE DEF q
<1>2. \A i \in DOMAIN q : i \in DOMAIN queue \/ i = Len(queue) + 1
  BY <1>1
<1>3. TrueOf(q, st, re, n)
  <2> SUFFICES ASSUME NEW i \in DOMAIN q, IsReaction(q, i) PROVE Tells(q[i], st, re, n)
    BY DEF TrueOf
  <2>1. CASE i \in DOMAIN queue
    <3>1. q[i] = queue[i] /\ IsReaction(queue, i)
      BY <1>1, <2>1 DEF IsReaction
    <3>2. Tells(queue[i], st, re, n)
      BY <2>1, <3>1 DEF TrueOf
    <3> QED BY <3>1, <3>2
  <2>2. CASE i = Len(queue) + 1
    <3>1. q[i] = job /\ job.job = "reaction"
      BY <1>1, <2>2 DEF IsReaction
    <3> QED BY <3>1
  <2> QED BY <1>2, <2>1, <2>2
<1>4. InTurn(q)
  <2> SUFFICES ASSUME NEW i \in DOMAIN q, NEW j \in DOMAIN q, i < j, IsReaction(q, i),
                      IsReaction(q, j), q[i].reaction.of = q[j].reaction.of
               PROVE  q[i].reaction.id < q[j].reaction.id
    BY DEF InTurn
  <2>1. i \in DOMAIN queue
    BY <1>1
  <2>2. q[i] = queue[i] /\ IsReaction(queue, i)
    BY <1>1, <2>1 DEF IsReaction
  <2>3. CASE j \in DOMAIN queue
    BY <1>1, <2>1, <2>3 DEF Following, InTurn, IsReaction
  <2>4. CASE j = Len(queue) + 1
    <3>1. queue[i].reaction.id < made
      BY <2>1, <2>2 DEF Following, Truthful, TrueOf, Tells
    <3>2. q[j].reaction.id = made
      BY <1>1, <2>4 DEF IsReaction
    <3> QED BY <2>2, <3>1, <3>2
  <2> QED BY <1>2, <2>3, <2>4
<1> QED BY <1>3, <1>4 DEF q

LEMMA ListGrows ==
    ASSUME NEW list \in Seq(Reactions), NEW r \in Reactions, NEW p, NEW kind, NEW n \in Nat,
           Orderly(list, p, kind, n), r.of = p, r.kind = kind, r.id = n
    PROVE  /\ Orderly(Append(list, r), p, kind, n + 1)
           /\ Orderly(list, p, kind, n + 1)
<1> DEFINE more == Append(list, r)
<1>1. /\ DOMAIN more = 1..(Len(list) + 1) /\ Len(list) \in Nat /\ DOMAIN list = 1..Len(list)
      /\ \A i \in DOMAIN list : more[i] = list[i]
      /\ more[Len(list) + 1] = r
  OBVIOUS
<1>2. \A i \in DOMAIN list : list[i].id \in Nat
  <2>1. \A i \in DOMAIN list : list[i] \in Reactions
    OBVIOUS
  <2> QED BY <2>1 DEF Reactions
<1> HIDE DEF more
<1>3. Orderly(list, p, kind, n + 1)
  BY <1>2 DEF Orderly
<1>4. \A i \in DOMAIN more : i \in DOMAIN list \/ i = Len(list) + 1
  BY <1>1
<1>5. \A i \in DOMAIN more : more[i].of = p /\ more[i].kind = kind /\ more[i].id < n + 1
  BY <1>1, <1>3, <1>4 DEF Orderly
<1>6. \A i, j \in DOMAIN more : i < j => more[i].id < more[j].id
  <2> SUFFICES ASSUME NEW i \in DOMAIN more, NEW j \in DOMAIN more, i < j
               PROVE  more[i].id < more[j].id
    OBVIOUS
  <2>1. i \in DOMAIN list
    BY <1>1
  <2> QED BY <1>1, <1>4, <2>1 DEF Orderly
<1>7. Orderly(more, p, kind, n + 1)
  BY <1>5, <1>6 DEF Orderly
<1> QED BY <1>3, <1>7 DEF more

(* A registration is listed twice, once for either end, or is queued as    *)
(* the newest.                                                             *)
LEMMA RegistersFollow ==
    ASSUME TypeInv, Listing, NEW queue \in Seq(Jobs), Following(queue), Registers(queue)
    PROVE  Listing' /\ Following(jobs)'
<1>1. PICK p \in Promises, f \in Handlers, g \in Handlers, s \in FreshSettlers \cup {None} :
          Exists(p) /\ f.settler = g.settler /\ PerformThen(p, f, g, s, queue)
  BY DEF Registers
<1> DEFINE r == [id |-> made, of |-> p, kind |-> "fulfil", handler |-> f, capability |-> s]
           w == [id |-> made, of |-> p, kind |-> "reject", handler |-> g, capability |-> s]
           v == ReactionTo(p, r, w)
<1>2. /\ state \in [Promises -> {"absent", "pending", "fulfilled", "rejected"}]
      /\ result \in [Promises -> Data] /\ fulfil \in [Promises -> Seq(Reactions)]
      /\ reject \in [Promises -> Seq(Reactions)] /\ made \in Nat
  BY DEF TypeInv, TypeOK
<1>3. /\ r \in Reactions /\ w \in Reactions /\ Twins(r, w)
      /\ r.of = p /\ w.of = p /\ r.id = made /\ w.id = made
      /\ r.kind = "fulfil" /\ w.kind = "reject"
  BY <1>1, <1>2 DEF Reactions, Twins, FreshSettlers
<1>4. /\ \/ /\ state[p] = "pending"
            /\ fulfil' = [fulfil EXCEPT ![p] = Append(@, r)]
            /\ reject' = [reject EXCEPT ![p] = Append(@, w)]
            /\ jobs' = queue
         \/ /\ state[p] # "pending"
            /\ jobs' = Append(queue, ReactionJob(v, result[p]))
            /\ UNCHANGED <<fulfil, reject>>
      /\ made' = made + 1 /\ result' = result
  BY <1>1 DEF PerformThen
<1> HIDE DEF r, w
<1>5. /\ TrueOf(queue, state', result', made')
      /\ \A o \in Promises : state[o] # "absent" => state'[o] = state[o]
  BY <1>2, <1>4, MoreFollows DEF Registers
<1>6. ASSUME NEW o \in Promises PROVE Listed(o)'
  <2>1. Listed(o) /\ (fulfil[o] # <<>> => state'[o] = "pending")
    BY <1>5 DEF Listing, Listed
  <2>2. CASE fulfil'[o] = fulfil[o] /\ reject'[o] = reject[o]
    <3>1. \A list \in Seq(Reactions), kind \in {"fulfil", "reject"} :
             Orderly(list, o, kind, made) => Orderly(list, o, kind, made + 1)
      <4> SUFFICES ASSUME NEW list \in Seq(Reactions), NEW kind \in {"fulfil", "reject"},
                          Orderly(list, o, kind, made)
                   PROVE  Orderly(list, o, kind, made + 1)
        OBVIOUS
      <4>1. \A i \in DOMAIN list : list[i] \in Reactions
        OBVIOUS
      <4>2. \A i \in DOMAIN list : list[i].id \in Nat
        BY <4>1 DEF Reactions
      <4> QED BY <1>2, <4>2 DEF Orderly
    <3>2. /\ Orderly(fulfil'[o], o, "fulfil", made')
          /\ Orderly(reject'[o], o, "reject", made')
      BY <1>2, <1>4, <2>1, <2>2, <3>1 DEF Listed
    <3> QED BY <2>1, <2>2, <3>2 DEF Listed
  <2>3. CASE ~(fulfil'[o] = fulfil[o] /\ reject'[o] = reject[o])
    <3>1. /\ o = p /\ state[p] = "pending"
          /\ fulfil'[o] = Append(fulfil[o], r) /\ reject'[o] = Append(reject[o], w)
      BY <1>2, <1>4, <2>3
    <3>2. Orderly(fulfil'[o], o, "fulfil", made')
      <4>1. fulfil[o] \in Seq(Reactions) /\ Orderly(fulfil[o], o, "fulfil", made)
        BY <1>2, <2>1 DEF Listed
      <4>2. Orderly(Append(fulfil[o], r), o, "fulfil", made + 1)
        BY <1>2, <1>3, <3>1, <4>1, ListGrows
      <4> QED BY <1>4, <3>1, <4>2
    <3>3. Orderly(reject'[o], o, "reject", made')
      <4>1. reject[o] \in Seq(Reactions) /\ Orderly(reject[o], o, "reject", made)
        BY <1>2, <2>1 DEF Listed
      <4>2. Orderly(Append(reject[o], w), o, "reject", made + 1)
        BY <1>2, <1>3, <3>1, <4>1, ListGrows
      <4> QED BY <1>4, <3>1, <4>2
    <3>4. /\ Len(fulfil'[o]) = Len(reject'[o]) /\ state'[o] = "pending"
          /\ \A i \in DOMAIN fulfil'[o] : Twins(fulfil'[o][i], reject'[o][i])
      <4>1. fulfil[o] \in Seq(Reactions) /\ reject[o] \in Seq(Reactions)
        BY <1>2
      <4>2. /\ Len(fulfil'[o]) = Len(fulfil[o]) + 1 /\ Len(reject'[o]) = Len(reject[o]) + 1
            /\ DOMAIN fulfil'[o] = 1..(Len(fulfil[o]) + 1)
            /\ Len(fulfil[o]) \in Nat /\ Len(fulfil[o]) = Len(reject[o])
            /\ \A i \in 1..Len(fulfil[o]) : /\ fulfil'[o][i] = fulfil[o][i]
                                            /\ reject'[o][i] = reject[o][i]
            /\ fulfil'[o][Len(fulfil[o]) + 1] = r
            /\ reject'[o][Len(fulfil[o]) + 1] = w
        BY <1>3, <2>1, <3>1, <4>1 DEF Listed
      <4>3. \A i \in 1..Len(fulfil[o]) : Twins(fulfil[o][i], reject[o][i])
        BY <2>1, <4>1 DEF Listed
      <4>4. ASSUME NEW i \in DOMAIN fulfil'[o] PROVE Twins(fulfil'[o][i], reject'[o][i])
        <5>1. CASE i \in 1..Len(fulfil[o])
          BY <4>2, <4>3, <5>1
        <5>2. CASE i = Len(fulfil[o]) + 1
          BY <1>3, <4>2, <5>2
        <5> QED BY <4>2, <5>1, <5>2
      <4> QED BY <1>5, <3>1, <4>2, <4>4
    <3> QED BY <3>2, <3>3, <3>4 DEF Listed
  <2> QED BY <2>2, <2>3
<1>7. CASE jobs' = queue
  BY <1>5, <1>6, <1>7 DEF Listing, Following, Truthful, InTurn, IsReaction
<1>8. CASE state[p] # "pending" /\ jobs' = Append(queue, ReactionJob(v, result[p]))
  <2> DEFINE job == ReactionJob(v, result[p])
  <2>1. /\ v \in Reactions /\ v.of = p /\ v.id = made
        /\ v.kind = IF state[p] = "fulfilled" THEN "fulfil" ELSE "reject"
    BY <1>3 DEF ReactionTo
  <2>2. /\ job \in Jobs /\ job.job = "reaction" /\ job.reaction = v
        /\ job.argument = result[p]
    BY <1>2, <2>1 DEF Jobs, ReactionJobs, ReactionJob
  <2>3. state[p] \in {"fulfilled", "rejected"} /\ state'[p] = state[p]
    BY <1>1, <1>2, <1>5, <1>8 DEF Exists
  <2>4. Tells(job, state', result', made')
    BY <1>2, <1>4, <2>1, <2>2, <2>3 DEF Tells, OutcomeOf
  <2> HIDE DEF job, v
  <2>5. /\ TrueOf(Append(queue, job), state', result', made')
        /\ InTurn(Append(queue, job))
    BY <1>5, <2>1, <2>2, <2>4, OneBehind
  <2>6. jobs' = Append(queue, job)
    BY <1>8 DEF job
  <2> QED BY <1>6, <2>5, <2>6 DEF Listing, Following, Truthful, InTurn, IsReaction
<1> QED BY <1>4, <1>6, <1>7, <1>8 DEF Listing

LEMMA SettlesNoneFollow ==
    ASSUME TypeInv, Listing, NEW queue \in Seq(Jobs), Following(queue), SettlesNone(queue)
    PROVE  Listing' /\ Following(jobs)'
<1>1. /\ made' = made /\ made \in Nat /\ result' = result
      /\ fulfil' = fulfil /\ reject' = reject /\ OneMore
  BY DEF SettlesNone, TypeInv, TypeOK
<1>2. /\ TrueOf(queue, state', result', made')
      /\ \A o \in Promises : state[o] # "absent" => state'[o] = state[o]
  BY <1>1, MoreFollows
<1>3. Listing'
  <2> SUFFICES ASSUME NEW o \in Promises PROVE Listed(o)'
    BY DEF Listing
  <2>1. fulfil[o] # <<>> => state'[o] = "pending"
    BY <1>2 DEF Listing, Listed
  <2> QED BY <1>1, <2>1 DEF Listing, Listed, Orderly
<1>4. CASE jobs' = queue
  BY <1>2, <1>3, <1>4 DEF Following, Truthful, InTurn, IsReaction
<1>5. CASE \E job \in ThenableJobs : jobs' = Append(queue, job)
  <2>1. PICK job \in ThenableJobs : jobs' = Append(queue, job)
    BY <1>5
  <2>2. job \in Jobs /\ job.job # "reaction"
    BY DEF Jobs, ThenableJobs
  <2>3. /\ TrueOf(Append(queue, job), state', result', made')
        /\ InTurn(Append(queue, job))
    BY <1>2, <2>2, OneBehind
  <2> QED BY <1>3, <2>1, <2>3 DEF Following, Truthful, InTurn, IsReaction
<1> QED BY <1>3, <1>4, <1>5 DEF SettlesNone

LEMMA DoesFollow ==
    ASSUME TypeInv, Listing, NEW queue \in Seq(Jobs), Following(queue), Does(queue)
    PROVE  Listing' /\ Following(jobs)'
  BY SettlesFollow, RegistersFollow, SettlesNoneFollow DEF Does, Keeps

-----------------------------------------------------------------------------
(* No promise is ever unmade, and a script is only given made ones.        *)

LEMMA ExistingStay ==
    ASSUME TypeInv, NEW queue, Does(queue), NEW p \in Promises, Exists(p)
    PROVE  Exists(p)'
<1>1. CASE Settles(queue)
  BY <1>1 DEF Settles, Settle, Exists, TypeInv, TypeOK
<1>2. CASE OneMore
  BY <1>2 DEF OneMore, Exists, FreshPromises, TypeInv, TypeOK
<1> QED BY <1>1, <1>2 DEF Does, Keeps, Registers, SettlesNone

LEMMA KnownExist ==
    ASSUME TypeInv, [Next]_vars
    PROVE  \A p \in known' : p \in known \/ Exists(p)'
<1>1. CASE Construct \/ \E p \in Promises, f, g \in {ScriptHandler, NoHandler} : Then(p, f, g)
  <2>1. /\ NewPromise \in FreshPromises /\ state' = [state EXCEPT ![NewPromise] = "pending"]
        /\ known' = known \cup {NewPromise}
    BY <1>1, MakeType DEF Construct, Then, Make
  <2> QED BY <2>1 DEF Exists, FreshPromises, TypeInv, TypeOK
<1>2. CASE known' = known
  BY <1>2
<1>3. \/ Construct \/ \E p \in Promises, f, g \in {ScriptHandler, NoHandler} : Then(p, f, g)
      \/ known' = known
  <2>1. CASE StartRun \/ Stop \/ FinishDrain \/ UNCHANGED vars
    BY <2>1 DEF StartRun, BeginRun, Stop, FinishDrain, vars, scriptVars
  <2>2. CASE ScriptCalls
    BY <2>2 DEF ScriptCalls, CallResolve, CallReject, Await, scriptVars
  <2>3. CASE ScriptAnswers \/ NativeReturns
    BY <2>3 DEF ScriptAnswers, GetterReturnsFunction, GetterReturnsOther, GetterThrows,
         HandlerReturns, HandlerThrows, NativeReturns, ThenMethodReturns,
         ThenMethodThrows, ScriptEnds, scriptVars
  <2>4. CASE RunReaction \/ AdoptPromise \/ CallForeignThen
    BY <2>4 DEF RunReaction, AdoptPromise, CallForeignThen, scriptVars
  <2> QED BY <2>1, <2>2, <2>3, <2>4 DEF Next, EngineSteps
<1> QED BY <1>1, <1>2, <1>3

(* What jobs a step leaves: the queue's, reactions, and at most one        *)
(* thenable job, of a promise that is made.                                *)
ThenablesExist(q) ==
    \A i \in DOMAIN q : q[i].job = "thenable" /\ q[i].thenable \in Promises
                            => Exists(q[i].thenable)

LEMMA BehindExist ==
    ASSUME NEW queue \in Seq(Jobs), NEW job \in Jobs, ThenablesExist(queue)',
           job.job = "thenable" /\ job.thenable \in Promises => Exists(job.thenable)'
    PROVE  ThenablesExist(Append(queue, job))'
<1>1. \A i \in DOMAIN Append(queue, job) :
         \/ i \in DOMAIN queue /\ Append(queue, job)[i] = queue[i]
         \/ Append(queue, job)[i] = job
  OBVIOUS
<1> DEFINE q == Append(queue, job)
<1> HIDE DEF q
<1>2. \A i \in DOMAIN q : \/ i \in DOMAIN queue /\ q[i] = queue[i]
                         \/ q[i] = job
  BY <1>1 DEF q
<1>3. ThenablesExist(q)'
  BY <1>2 DEF ThenablesExist, Exists
<1> QED BY <1>3 DEF q

LEMMA DoesName ==
    ASSUME TypeInv, NEW queue \in Seq(Jobs), ThenablesExist(queue), Does(queue)
    PROVE  ThenablesExist(jobs)'
<1>1. ThenablesExist(queue)'
  <2>1. \A p \in Promises : Exists(p) => Exists(p)'
    BY ExistingStay
  <2> QED BY <2>1 DEF ThenablesExist
<1>2. CASE Settles(queue)
  <2>1. PICK p \in Promises, to \in {"fulfilled", "rejected"}, value \in Data :
            Settle(p, to, value, queue, stack')
    BY <1>2 DEF Settles
  <2> DEFINE taken == IF to = "fulfilled" THEN fulfil[p] ELSE reject[p]
  <2>2. taken \in Seq(Reactions) /\ jobs' = queue \o JobsOf(taken, value)
    BY <2>1, ListsTyped DEF Settle
  <2> HIDE DEF taken
  <2>3. Joined(jobs', queue, taken, value)
    BY <2>2, JobsAre
  <2>4. ASSUME NEW i \in DOMAIN jobs', jobs'[i].job = "thenable"
        PROVE  i \in DOMAIN queue /\ jobs'[i] = queue[i]
    <3>1. CASE i \in 1..Len(queue)
      BY <2>3, <3>1 DEF Joined
    <3>2. CASE \E j \in 1..Len(taken) : i = Len(queue) + j
      <4>1. PICK j \in 1..Len(taken) : jobs'[i] = ReactionJob(taken[j], value)
        BY <2>3, <3>2 DEF Joined
      <4> QED BY <2>4, <4>1 DEF ReactionJob
    <3> QED BY <2>3, <3>1, <3>2 DEF Joined
  <2> QED BY <1>1, <2>4 DEF ThenablesExist
<1>3. CASE Registers(queue)
  <2>1. PICK p \in Promises, f \in Handlers, g \in Handlers, s \in FreshSettlers \cup {None} :
            PerformThen(p, f, g, s, queue)
    BY <1>3 DEF Registers
  <2>2. CASE jobs' = queue
    BY <1>1, <2>2 DEF ThenablesExist
  <2>3. CASE \E r \in Reactions : jobs' = Append(queue, ReactionJob(r, result[p]))
    <3>1. PICK r \in Reactions : jobs' = Append(queue, ReactionJob(r, result[p]))
      BY <2>3
    <3> DEFINE job == ReactionJob(r, result[p])
    <3>2. job \in Jobs /\ job.job # "thenable"
      BY DEF Jobs, ReactionJobs, ReactionJob, TypeInv, TypeOK
    <3> HIDE DEF job
    <3>3. PICK b \in Jobs : b = job
      BY <3>2
    <3>4. ThenablesExist(Append(queue, b))'
      BY <1>1, <3>2, <3>3, BehindExist
    <3> QED BY <3>1, <3>3, <3>4 DEF ThenablesExist, job
  <2>4. jobs' = queue \/ \E r \in Reactions : jobs' = Append(queue, ReactionJob(r, result[p]))
    <3> DEFINE r == [id |-> made, of |-> p, kind |-> "fulfil", handler |-> f, capability |-> s]
               w == [id |-> made, of |-> p, kind |-> "reject", handler |-> g, capability |-> s]
    <3>1. r \in Reactions /\ w \in Reactions /\ ReactionTo(p, r, w) \in {r, w}
      BY DEF Reactions, ReactionTo, FreshSettlers, TypeInv, TypeOK
    <3>2. jobs' = queue \/ jobs' = Append(queue, ReactionJob(ReactionTo(p, r, w), result[p]))
      BY <2>1 DEF PerformThen
    <3> HIDE DEF r, w
    <3> QED BY <3>1, <3>2
  <2> QED BY <2>2, <2>3, <2>4
<1>4. CASE SettlesNone(queue)
  <2>1. CASE jobs' = queue
    BY <1>1, <2>1 DEF ThenablesExist
  <2>2. CASE \E job \in ThenableJobs :
                /\ jobs' = Append(queue, job)
                /\ job.thenable \in Promises => Exists(job.thenable)
    <3>1. PICK job \in ThenableJobs : /\ jobs' = Append(queue, job)
                                      /\ job.thenable \in Promises => Exists(job.thenable)
      BY <2>2
    <3>2. job \in Jobs /\ (job.thenable \in Promises => Exists(job.thenable)')
      BY <1>4, <3>1, ExistingStay DEF Jobs, Does, Keeps
    <3>3. ThenablesExist(Append(queue, job))'
      BY <1>1, <3>2, BehindExist
    <3> QED BY <3>1, <3>3 DEF ThenablesExist
  <2> QED BY <1>4, <2>1, <2>2 DEF SettlesNone
<1> QED BY <1>2, <1>3, <1>4 DEF Does, Keeps

-----------------------------------------------------------------------------
(* The invariant.                                                          *)

ReactionInv == TypeInv /\ OneResolver /\ NamedExist /\ Listing /\ Following(jobs)

LEMMA QueueOfStep ==
    ASSUME ReactionInv, [Next]_vars
    PROVE  \E queue \in Seq(Jobs) :
              /\ Does(queue) /\ Following(queue) /\ ThenablesExist(queue)
              /\ \/ queue = jobs
                 \/ jobs # <<>> /\ queue = Tail(jobs) /\ Draining(Head(jobs).job)
<1>1. jobs \in Seq(Jobs) /\ ThenablesExist(jobs)
  BY DEF ReactionInv, TypeInv, TypeOK, NamedExist, ThenablesExist, Jobs
<1>2. CASE Does(jobs)
  BY <1>1, <1>2 DEF ReactionInv
<1>3. CASE jobs # <<>> /\ Draining(Head(jobs).job) /\ Does(Tail(jobs))
  <2>1. Tail(jobs) \in Seq(Jobs) /\ Following(Tail(jobs))
    BY <1>1, <1>3, TailFollows DEF ReactionInv
  <2>2. ThenablesExist(Tail(jobs))
    <3>1. \A i \in DOMAIN Tail(jobs) : i + 1 \in DOMAIN jobs /\ Tail(jobs)[i] = jobs[i + 1]
      BY <1>1, <1>3, HeadTailProperties
    <3> QED BY <1>1, <3>1 DEF ThenablesExist
  <2> QED BY <1>3, <2>1, <2>2
<1> QED BY <1>2, <1>3, NextDoes DEF ReactionInv

LEMMA NextFollows == ReactionInv /\ [Next]_vars => ReactionInv'
<1> SUFFICES ASSUME ReactionInv, [Next]_vars PROVE ReactionInv'
  OBVIOUS
<1>1. TypeInv' /\ OneResolver'
  BY NextType, NextKeeps DEF ReactionInv
<1>2. PICK queue \in Seq(Jobs) : Does(queue) /\ Following(queue) /\ ThenablesExist(queue)
  BY QueueOfStep
<1>3. Listing' /\ Following(jobs)'
  BY <1>2, DoesFollow DEF ReactionInv
<1>4. ThenablesExist(jobs)'
  BY <1>2, DoesName DEF ReactionInv
<1>5. \A p \in known' : Exists(p)'
  <2>1. \A p \in known : p \in Promises /\ Exists(p)
    BY DEF ReactionInv, TypeInv, TypeOK, NamedExist
  <2> QED BY <1>2, <2>1, KnownExist, ExistingStay DEF ReactionInv
<1> QED BY <1>1, <1>3, <1>4, <1>5 DEF ReactionInv, NamedExist, ThenablesExist

LEMMA InitFollows == Init => ReactionInv
<1> SUFFICES ASSUME Init PROVE ReactionInv
  OBVIOUS
<1>1. OneResolver
  BY DEF Init, OneResolver, OnlyPendingIsResolvable, OneWayToResolve, Unclaimed
<1>2. jobs = <<>> /\ known = {} /\ \A p \in Promises : fulfil[p] = <<>> /\ reject[p] = <<>>
  BY DEF Init
<1>3. Listing
  BY <1>2 DEF Listing, Listed, Orderly
<1>4. NamedExist /\ Following(jobs)
  BY <1>2 DEF NamedExist, Following, Truthful, TrueOf, InTurn
<1> QED BY <1>1, <1>3, <1>4, InitType DEF ReactionInv

LEMMA ReactionsHold == Spec => []ReactionInv
  BY InitFollows, NextFollows, PTL DEF Spec

(* Handlers registered on a promise are queued in the order they were      *)
(* registered, each of the kind its promise ended with and with its        *)
(* result, however settling, registering, interrupting and starting runs   *)
(* are interleaved.                                                        *)
THEOREM QueuedInOrder == Spec => []ReactionsFollow
<1>1. ReactionInv => ReactionsFollow
  <2> SUFFICES ASSUME ReactionInv PROVE ReactionsFollow
    OBVIOUS
  <2>1. ReactionsInOrder
    BY DEF ReactionInv, Listing, Listed, Orderly, Following, InTurn, IsReaction, ReactionsInOrder
  <2>2. \A p \in Promises : ListsOf(p) # {} => state[p] = "pending"
    <3> SUFFICES ASSUME NEW p \in Promises, ListsOf(p) # {} PROVE fulfil[p] # <<>>
      BY DEF ReactionInv, Listing, Listed
    <3>1. Len(fulfil[p]) = Len(reject[p]) /\ fulfil[p] \in Seq(Reactions)
          /\ reject[p] \in Seq(Reactions)
      BY ListsTyped DEF ReactionInv, Listing, Listed
    <3> QED BY <3>1 DEF ListsOf, Range
  <2>3. JobsMatchOutcome
    BY <2>2 DEF ReactionInv, Following, Truthful, TrueOf, Tells, OutcomeOf, IsReaction,
           JobsMatchOutcome
  <2> QED BY <2>1, <2>3 DEF ReactionsFollow
<1> QED BY <1>1, ReactionsHold, PTL

-----------------------------------------------------------------------------
(* Nothing is lost.                                                        *)

Waits(q, lists, id) ==
    \/ \E i \in DOMAIN q : IsReaction(q, i) /\ q[i].reaction.id = id
    \/ \E p \in Promises : \E i \in DOMAIN lists[p] : lists[p][i].id = id

LEMMA WaitingAre ==
    TypeInv /\ Listing => \A id : id \in WaitingIds <=> Waits(jobs, fulfil, id)
<1> SUFFICES ASSUME TypeInv, Listing, NEW id
             PROVE  id \in WaitingIds <=> Waits(jobs, fulfil, id)
  OBVIOUS
<1>1. \A r : r \in QueuedReactions
          <=> \E i \in DOMAIN jobs : IsReaction(jobs, i) /\ r = jobs[i].reaction
  BY DEF QueuedReactions, IsReaction
<1>2. ASSUME NEW p \in Promises
      PROVE  (\E r \in ListsOf(p) : r.id = id)
                 <=> \E i \in DOMAIN fulfil[p] : fulfil[p][i].id = id
  <2>1. /\ fulfil[p] \in Seq(Reactions) /\ reject[p] \in Seq(Reactions)
        /\ Len(fulfil[p]) = Len(reject[p])
        /\ \A i \in DOMAIN fulfil[p] : fulfil[p][i].id = reject[p][i].id
    BY ListsTyped DEF Listing, Listed, Twins
  <2>2. \A r : r \in ListsOf(p) <=> \/ \E i \in DOMAIN fulfil[p] : r = fulfil[p][i]
                                    \/ \E i \in DOMAIN reject[p] : r = reject[p][i]
    BY DEF ListsOf, Range
  <2>3. DOMAIN fulfil[p] = DOMAIN reject[p]
    BY <2>1
  <2>4. (\E i \in DOMAIN reject[p] : reject[p][i].id = id)
            <=> \E i \in DOMAIN fulfil[p] : fulfil[p][i].id = id
    BY <2>1, <2>3
  <2>5. (\E r \in ListsOf(p) : r.id = id)
            <=> \/ \E i \in DOMAIN fulfil[p] : fulfil[p][i].id = id
                \/ \E i \in DOMAIN reject[p] : reject[p][i].id = id
    BY <2>2
  <2> QED BY <2>4, <2>5
<1>3. id \in WaitingIds <=> \/ \E r \in QueuedReactions : r.id = id
                            \/ \E p \in Promises : \E r \in ListsOf(p) : r.id = id
  BY DEF WaitingIds, WaitingReactions
<1>4. (\E r \in QueuedReactions : r.id = id)
          <=> \E i \in DOMAIN jobs : IsReaction(jobs, i) /\ jobs[i].reaction.id = id
  BY <1>1
<1> QED BY <1>2, <1>3, <1>4 DEF Waits

LEMMA DoesNotLose ==
    ASSUME TypeInv, Listing, NEW queue \in Seq(Jobs), Does(queue), NEW id,
           Waits(queue, fulfil, id)
    PROVE  Waits(jobs', fulfil', id)
<1>1. CASE Settles(queue)
  <2>1. PICK p \in Promises, to \in {"fulfilled", "rejected"}, value \in Data :
            Settle(p, to, value, queue, stack')
    BY <1>1 DEF Settles
  <2> DEFINE taken == IF to = "fulfilled" THEN fulfil[p] ELSE reject[p]
  <2>2. taken \in Seq(Reactions) /\ jobs' = queue \o JobsOf(taken, value)
    BY <2>1, ListsTyped DEF Settle
  <2>3. /\ \A o \in Promises : o # p => fulfil'[o] = fulfil[o]
        /\ Len(taken) = Len(fulfil[p]) /\ fulfil[p] \in Seq(Reactions)
        /\ \A i \in DOMAIN fulfil[p] : taken[i].id = fulfil[p][i].id
    BY <2>1, ListsTyped DEF Settle, Listing, Listed, Twins, TypeInv, TypeOK
  <2> HIDE DEF taken
  <2>4. Joined(jobs', queue, taken, value) /\ DOMAIN queue = 1..Len(queue)
        /\ Len(queue) \in Nat /\ Len(taken) \in Nat
    BY <2>2, JobsAre
  <2>5. CASE \E i \in DOMAIN queue : IsReaction(queue, i) /\ queue[i].reaction.id = id
    <3>1. PICK i \in DOMAIN queue : IsReaction(queue, i) /\ queue[i].reaction.id = id
      BY <2>5
    <3>2. i \in DOMAIN jobs' /\ jobs'[i] = queue[i]
      BY <2>4 DEF Joined
    <3> QED BY <3>1, <3>2 DEF Waits, IsReaction
  <2>6. CASE \E i \in DOMAIN fulfil[p] : fulfil[p][i].id = id
    <3>1. PICK i \in DOMAIN fulfil[p] : fulfil[p][i].id = id
      BY <2>6
    <3>2. i \in 1..Len(taken) /\ taken[i].id = id
      BY <2>3, <3>1
    <3>3. Len(queue) + i \in DOMAIN jobs' /\ jobs'[Len(queue) + i] = ReactionJob(taken[i], value)
      BY <2>4, <3>2 DEF Joined
    <3>4. IsReaction(jobs', Len(queue) + i) /\ jobs'[Len(queue) + i].reaction.id = id
      BY <3>2, <3>3 DEF IsReaction, ReactionJob
    <3> QED BY <3>3, <3>4 DEF Waits
  <2>7. CASE \E o \in Promises \ {p} : \E i \in DOMAIN fulfil[o] : fulfil[o][i].id = id
    BY <2>3, <2>7 DEF Waits
  <2> QED BY <2>5, <2>6, <2>7 DEF Waits
<1>2. CASE Registers(queue) \/ SettlesNone(queue)
  <2>1. /\ jobs' = queue \/ \E job : jobs' = Append(queue, job)
        /\ \/ fulfil' = fulfil
           \/ \E p \in Promises : \E r : fulfil' = [fulfil EXCEPT ![p] = Append(@, r)]
    BY <1>2, ZenonT(60) DEF Registers, SettlesNone, PerformThen
  <2>2. \A i \in DOMAIN queue : i \in DOMAIN jobs' /\ jobs'[i] = queue[i]
    BY <2>1
  <2>3. ASSUME NEW p \in Promises, NEW i \in DOMAIN fulfil[p]
        PROVE  i \in DOMAIN fulfil'[p] /\ fulfil'[p][i] = fulfil[p][i]
    <3>1. fulfil \in [Promises -> Seq(Reactions)] /\ fulfil[p] \in Seq(Reactions)
      BY DEF TypeInv, TypeOK
    <3>2. fulfil'[p] = fulfil[p] \/ \E r : fulfil'[p] = Append(fulfil[p], r)
      BY <2>1, <3>1
    <3> QED BY <3>1, <3>2
  <2> QED BY <2>2, <2>3 DEF Waits, IsReaction
<1> QED BY <1>1, <1>2 DEF Does, Keeps

(* A registered handler, listed or queued, is dropped by nothing: it stops *)
(* waiting when the drain runs it and at no other step.                    *)
THEOREM NoneLost == Spec => NoReactionLost
<1> DEFINE Kept == \A id \in WaitingIds \ WaitingIds' :
                      Draining("reaction") /\ Head(jobs).reaction.id = id
<1>1. (TypeInv /\ Listing => \A id : id \in WaitingIds <=> Waits(jobs, fulfil, id))'
  <2>1. TypeInv /\ Listing => \A id : id \in WaitingIds <=> Waits(jobs, fulfil, id)
    BY WaitingAre
  <2> QED BY <2>1, PTL
<1>2. ReactionInv /\ ReactionInv' /\ [Next]_vars => Kept
  <2> SUFFICES ASSUME ReactionInv, ReactionInv', [Next]_vars,
                      NEW id, id \in WaitingIds, id \notin WaitingIds'
               PROVE  Draining("reaction") /\ Head(jobs).reaction.id = id
    OBVIOUS
  <2>1. Waits(jobs, fulfil, id)
    BY WaitingAre DEF ReactionInv
  <2>2. ~Waits(jobs', fulfil', id)
    BY <1>1 DEF ReactionInv
  <2>3. PICK queue \in Seq(Jobs) :
           /\ Does(queue)
           /\ \/ queue = jobs
              \/ jobs # <<>> /\ queue = Tail(jobs) /\ Draining(Head(jobs).job)
    BY QueueOfStep
  <2>4. ~Waits(queue, fulfil, id)
    BY <2>2, <2>3, DoesNotLose DEF ReactionInv
  <2>5. jobs # <<>> /\ queue = Tail(jobs) /\ Draining(Head(jobs).job)
    BY <2>1, <2>3, <2>4
  <2>6. IsReaction(jobs, 1) /\ jobs[1].reaction.id = id /\ Head(jobs) = jobs[1]
    <3>1. jobs \in Seq(Jobs)
      BY DEF ReactionInv, TypeInv, TypeOK, Jobs
    <3>2. /\ \A i \in DOMAIN jobs : i # 1 =>
                 i - 1 \in DOMAIN Tail(jobs) /\ Tail(jobs)[i - 1] = jobs[i]
          /\ Head(jobs) = jobs[1]
      BY <2>5, <3>1, HeadTailProperties
    <3>3. PICK i \in DOMAIN jobs : IsReaction(jobs, i) /\ jobs[i].reaction.id = id
      BY <2>1, <2>4 DEF Waits
    <3>4. i = 1
      BY <2>4, <2>5, <3>2, <3>3 DEF Waits, IsReaction
    <3> QED BY <3>2, <3>3, <3>4
  <2> QED BY <2>5, <2>6 DEF IsReaction
<1>3. Spec => [][Kept]_vars
  BY <1>2, ReactionsHold, PTL DEF Spec
<1> QED BY <1>3 DEF NoReactionLost

-----------------------------------------------------------------------------
(* What the host reads.                                                    *)

LEMMA DoesReport ==
    ASSUME TypeInv, NEW queue, Does(queue), ReportedAreUnhandled
    PROVE  ReportedAreUnhandled' /\ UnhandledAreReported
<1>1. /\ state \in [Promises -> {"absent", "pending", "fulfilled", "rejected"}]
      /\ handled \in [Promises -> BOOLEAN] /\ unhandled \subseteq Promises
  BY DEF TypeInv, TypeOK
<1>2. CASE Settles(queue)
  <2>1. PICK p \in Promises, to \in {"fulfilled", "rejected"}, value \in Data :
            state[p] = "pending" /\ Settle(p, to, value, queue, stack')
    BY <1>2 DEF Settles
  <2>2. /\ state' = [state EXCEPT ![p] = to] /\ handled' = handled
        /\ unhandled' = IF to = "rejected" /\ ~handled[p] THEN unhandled \cup {p} ELSE unhandled
    BY <2>1 DEF Settle, Reports
  <2>3. p \notin unhandled
    BY <2>1 DEF ReportedAreUnhandled
  <2>4. ReportedAreUnhandled'
    BY <1>1, <2>2, <2>3 DEF ReportedAreUnhandled
  <2>5. UnhandledAreReported
    BY <1>1, <2>2 DEF UnhandledAreReported
  <2> QED BY <2>4, <2>5
<1>3. CASE Registers(queue)
  <2>1. PICK p \in Promises :
           handled' = [handled EXCEPT ![p] = TRUE] /\ unhandled' = unhandled \ {p}
    BY <1>3 DEF Registers, PerformThen, MarkHandled
  <2>2. \A o \in Promises : \/ state'[o] = state[o]
                            \/ state[o] = "absent" /\ state'[o] = "pending"
    BY <1>1, <1>3 DEF Registers, OneMore, FreshPromises
  <2>3. \A o \in Promises : handled'[o] = (o = p \/ handled[o])
    BY <1>1, <2>1
  <2> QED BY <1>1, <2>1, <2>2, <2>3 DEF ReportedAreUnhandled, UnhandledAreReported
<1>4. CASE SettlesNone(queue)
  <2>1. \A o \in Promises : \/ state'[o] = state[o]
                            \/ state[o] = "absent" /\ state'[o] = "pending"
    BY <1>1, <1>4 DEF SettlesNone, OneMore, FreshPromises
  <2>2. /\ handled' = handled
        /\ \/ unhandled' = unhandled
           \/ unhandled' = {} /\ runs' # runs
    BY <1>4 DEF SettlesNone
  <2> QED BY <1>1, <2>1, <2>2 DEF ReportedAreUnhandled, UnhandledAreReported
<1> QED BY <1>2, <1>3, <1>4 DEF Does, Keeps

(* What a host reads after a run is exactly the promises rejected in it    *)
(* that nothing has asked about: none is reported that was asked about,    *)
(* and none stops being reported but by being asked about or by the next   *)
(* run.                                                                    *)
THEOREM ReportsExactly == Spec => ReportIsExact
<1>1. Init => ReportedAreUnhandled
  BY DEF Init, ReportedAreUnhandled
<1>2. ReactionInv /\ ReportedAreUnhandled /\ [Next]_vars =>
          ReportedAreUnhandled' /\ UnhandledAreReported
  <2> SUFFICES ASSUME ReactionInv, ReportedAreUnhandled, [Next]_vars
               PROVE  ReportedAreUnhandled' /\ UnhandledAreReported
    OBVIOUS
  <2>1. PICK queue \in Seq(Jobs) : Does(queue)
    BY QueueOfStep
  <2> QED BY <2>1, DoesReport DEF ReactionInv
<1>3. Spec => []ReportedAreUnhandled
  BY <1>1, <1>2, ReactionsHold, PTL DEF Spec
<1>4. Spec => [][ReportedAreUnhandled' /\ UnhandledAreReported]_vars
  BY <1>2, <1>3, ReactionsHold, PTL DEF Spec
<1> QED BY <1>4 DEF ReportIsExact

-----------------------------------------------------------------------------
(* Who answers through which pair.  A capability is spoken for by the      *)
(* reaction that has it, in the queue or in a list, and then by the frame  *)
(* of that reaction's handler; the pair an adoption registers is named by  *)
(* the handlers of one reaction; every other pair is held by a script.     *)

(* Of the two lists one is enough, since their reactions are twins.        *)
WaitsAs(q, lists, r) ==
    \/ \E i \in DOMAIN q : IsReaction(q, i) /\ q[i].reaction = r
    \/ \E p \in Promises : \E i \in DOMAIN lists[p] : lists[p][i] = r
Matches(r, w) == Twins(r, w) /\ r.of = w.of

Openers(po, rs) == {s \in Settlers : Open(po, rs, s)}
Caps(q, lists) == {s \in Settlers : \E r : WaitsAs(q, lists, r) /\ r.capability = s}
Hands(q, lists) ==
    {s \in Settlers : \E r : WaitsAs(q, lists, r) /\ r.handler.settler = s}
Speaks(f) == f.code \in {"handler", "native"}
Talking(k) == {s \in Settlers : \E i \in DOMAIN k : Speaks(k[i]) /\ k[i].settler = s}

(* Every unclaimed pair has somebody, and one that is spoken for is        *)
(* unclaimed and is nobody else's.                                         *)
Spoken(open, given, caps, hands, talking) ==
    /\ open \subseteq given \cup caps \cup hands \cup talking
    /\ caps \cup talking \subseteq open
    /\ (caps \cup talking) \cap (given \cup hands) = {}
    /\ caps \cap talking = {}

LEMMA SpokenGrows ==
    ASSUME NEW open, NEW given, NEW caps, NEW hands, NEW talking, NEW s,
           Spoken(open, given, caps, hands, talking),
           s \notin given, s \notin hands, s \notin talking
    PROVE  Spoken(open \cup {s}, given, caps \cup {s}, hands, talking)
BY DEF Spoken

(* Nothing else waits with the same capability.                            *)
SoleCap(q, lists) ==
    \A r, w : WaitsAs(q, lists, r) /\ WaitsAs(q, lists, w) =>
        /\ r.id = w.id => r.of = w.of
        /\ r.capability = w.capability /\ r.capability # None => r.id = w.id

(* Only a `then` getter is ever entered from something else, and what is   *)
(* called through a foreign `then` was given its pair.                     *)
Shape(k, given, ph) ==
    /\ \A i \in DOMAIN k : k[i].code # "getThen" => i = 1
    /\ \A i \in DOMAIN k : k[i].code = "callThen" => k[i].settler \in given
    /\ \A i \in DOMAIN k : k[i].code \in {"getThen", "script"} => k[i].settler = None
    /\ ph = "idle" => k = <<>>

(* A pair that is not made has not been claimed.                           *)
UnmadeFree(po, rs) == \A s \in Settlers : po[s] = None => ~rs[s]

(* A pending promise has a way to be settled.                              *)
Adopts(q, p) == \E i \in DOMAIN q : ThenableFor(q, i, p)
Reads(k, p) == \E i \in DOMAIN k : GetterFor(k, i, p)
HasWay(po, rs, q, k, p) == \/ \E s \in Settlers : Open(po, rs, s) /\ po[s] = p
                           \/ Adopts(q, p)
                           \/ Reads(k, p)
AllHaveWay(st, po, rs, q, k) ==
    \A p \in Promises : st[p] = "pending" => HasWay(po, rs, q, k, p)

-----------------------------------------------------------------------------
(* What a step does to what waits.                                         *)

LEMMA WaitingTyped ==
    ASSUME TypeInv, NEW queue \in Seq(MadeJobs(promiseOf)), NEW r,
           WaitsAs(queue, fulfil, r)
    PROVE  r \in MadeReactions(promiseOf) /\ r \in Reactions
<1>1. fulfil \in [Promises -> Seq(MadeReactions(promiseOf))]
  BY DEF TypeInv, ReactionsMade
<1>2. CASE \E i \in DOMAIN queue : IsReaction(queue, i) /\ queue[i].reaction = r
  <2>1. PICK i \in DOMAIN queue : IsReaction(queue, i) /\ queue[i].reaction = r
    BY <1>2
  <2>2. queue[i] \in MadeJobs(promiseOf) /\ queue[i].job = "reaction"
    BY <2>1 DEF IsReaction
  <2>3. queue[i].reaction \in MadeReactions(promiseOf)
    BY <2>2 DEF MadeJobs, ThenableJobs
  <2> QED BY <2>1, <2>3 DEF MadeReactions
<1>3. CASE \E p \in Promises : \E i \in DOMAIN fulfil[p] : fulfil[p][i] = r
  <2>1. PICK p \in Promises : \E i \in DOMAIN fulfil[p] : fulfil[p][i] = r
    BY <1>3
  <2>2. fulfil[p] \in Seq(MadeReactions(promiseOf))
    BY <1>1
  <2>3. r \in MadeReactions(promiseOf)
    BY <2>1, <2>2
  <2> QED BY <2>3 DEF MadeReactions
<1> QED BY <1>2, <1>3 DEF WaitsAs

(* Settling takes one list of a promise to the queue, and its twin is      *)
(* dropped.                                                                *)
LEMMA KeepsWaiting ==
    ASSUME TypeInv, Listing, NEW queue \in Seq(Jobs), Keeps(queue)
    PROVE  /\ \A r : WaitsAs(queue, fulfil, r) =>
                 \E w : WaitsAs(jobs', fulfil', w) /\ Matches(r, w)
           /\ \A w : WaitsAs(jobs', fulfil', w) =>
                 \E r : WaitsAs(queue, fulfil, r) /\ Matches(r, w)
<1>0. \A r : Matches(r, r)
  BY DEF Matches, Twins
<1>1. CASE Settles(queue)
  <2>1. PICK p \in Promises, to \in {"fulfilled", "rejected"}, value \in Data :
            Settle(p, to, value, queue, stack')
    BY <1>1 DEF Settles
  <2> DEFINE taken == IF to = "fulfilled" THEN fulfil[p] ELSE reject[p]
  <2>2. taken \in Seq(Reactions) /\ jobs' = queue \o JobsOf(taken, value)
    BY <2>1, ListsTyped DEF Settle
  <2>3. /\ \A o \in Promises : o # p => fulfil'[o] = fulfil[o]
        /\ fulfil'[p] = <<>> /\ DOMAIN fulfil'[p] = {}
        /\ Len(taken) = Len(fulfil[p]) /\ fulfil[p] \in Seq(Reactions)
        /\ \A i \in DOMAIN fulfil[p] : Matches(fulfil[p][i], taken[i])
    <3>1. fulfil[p] \in Seq(Reactions) /\ reject[p] \in Seq(Reactions) /\ Listed(p)
      BY ListsTyped DEF Listing
    <3>2. /\ Len(taken) = Len(fulfil[p])
          /\ \A i \in DOMAIN fulfil[p] : Matches(fulfil[p][i], taken[i])
      BY <3>1, <1>0 DEF Listed, Orderly, Matches
    <3>3. /\ \A o \in Promises : o # p => fulfil'[o] = fulfil[o]
          /\ fulfil'[p] = <<>>
      BY <2>1 DEF Settle, TypeInv, TypeOK
    <3> QED BY <3>1, <3>2, <3>3
  <2> HIDE DEF taken
  <2>4. Joined(jobs', queue, taken, value) /\ DOMAIN queue = 1..Len(queue)
        /\ Len(queue) \in Nat /\ Len(taken) \in Nat
    BY <2>2, JobsAre
  <2>5. \A i \in DOMAIN queue : i \in DOMAIN jobs' /\ jobs'[i] = queue[i]
    BY <2>4 DEF Joined
  <2>6. ASSUME NEW i \in DOMAIN fulfil[p]
        PROVE  /\ Len(queue) + i \in DOMAIN jobs' /\ IsReaction(jobs', Len(queue) + i)
               /\ jobs'[Len(queue) + i].reaction = taken[i]
    <3>1. i \in 1..Len(taken)
      BY <2>3
    <3>2. Len(queue) + i \in DOMAIN jobs' /\ jobs'[Len(queue) + i] = ReactionJob(taken[i], value)
      BY <2>4, <3>1 DEF Joined
    <3> QED BY <3>2 DEF IsReaction, ReactionJob
  <2>7. ASSUME NEW r, WaitsAs(queue, fulfil, r)
        PROVE  \E w : WaitsAs(jobs', fulfil', w) /\ Matches(r, w)
    <3>1. CASE \E i \in DOMAIN queue : IsReaction(queue, i) /\ queue[i].reaction = r
      BY <1>0, <2>5, <3>1 DEF WaitsAs, IsReaction
    <3>2. CASE \E o \in Promises \ {p} : \E i \in DOMAIN fulfil[o] : fulfil[o][i] = r
      BY <1>0, <2>3, <3>2 DEF WaitsAs
    <3>3. CASE \E i \in DOMAIN fulfil[p] : fulfil[p][i] = r
      <4>1. PICK i \in DOMAIN fulfil[p] : fulfil[p][i] = r
        BY <3>3
      <4>2. WaitsAs(jobs', fulfil', taken[i]) /\ Matches(r, taken[i])
        BY <2>3, <2>6, <4>1 DEF WaitsAs
      <4> QED BY <4>2
    <3> QED BY <2>7, <3>1, <3>2, <3>3 DEF WaitsAs
  <2>8. ASSUME NEW w, WaitsAs(jobs', fulfil', w)
        PROVE  \E r : WaitsAs(queue, fulfil, r) /\ Matches(r, w)
    <3>1. CASE \E i \in DOMAIN jobs' : IsReaction(jobs', i) /\ jobs'[i].reaction = w
      <4>1. PICK i \in DOMAIN jobs' : IsReaction(jobs', i) /\ jobs'[i].reaction = w
        BY <3>1
      <4>2. CASE i \in DOMAIN queue
        BY <1>0, <2>5, <4>1, <4>2 DEF WaitsAs, IsReaction
      <4>3. CASE \E j \in 1..Len(taken) : i = Len(queue) + j
        <5>1. PICK j \in 1..Len(taken) : i = Len(queue) + j
          BY <4>3
        <5>2. j \in DOMAIN fulfil[p]
          BY <2>3, <5>1
        <5>3. w = taken[j] /\ Matches(fulfil[p][j], w)
          BY <2>3, <2>6, <4>1, <5>1, <5>2
        <5> QED BY <5>2, <5>3 DEF WaitsAs
      <4> QED BY <2>4, <4>2, <4>3 DEF Joined
    <3>2. CASE \E o \in Promises : \E i \in DOMAIN fulfil'[o] : fulfil'[o][i] = w
      BY <1>0, <2>3, <3>2 DEF WaitsAs
    <3> QED BY <2>8, <3>1, <3>2 DEF WaitsAs
  <2> QED BY <2>7, <2>8
<1>2. CASE SettlesNone(queue)
  <2>1. /\ fulfil' = fulfil
        /\ \/ jobs' = queue
           \/ \E job \in Jobs : job.job # "reaction" /\ jobs' = Append(queue, job)
    BY <1>2 DEF SettlesNone, Jobs, ThenableJobs
  <2>2. /\ \A i \in DOMAIN queue : i \in DOMAIN jobs' /\ jobs'[i] = queue[i]
        /\ \A i \in DOMAIN jobs' : i \in DOMAIN queue \/ jobs'[i].job # "reaction"
    BY <2>1
  <2>3. \A r : WaitsAs(queue, fulfil, r) <=> WaitsAs(jobs', fulfil', r)
    BY <2>1, <2>2 DEF WaitsAs, IsReaction
  <2> QED BY <1>0, <2>3
<1> QED BY <1>1, <1>2 DEF Keeps

LEMMA KeepsCaps ==
    ASSUME TypeInv, Listing, NEW queue \in Seq(Jobs), Keeps(queue)
    PROVE  /\ Caps(jobs', fulfil') = Caps(queue, fulfil)
           /\ Hands(jobs', fulfil') = Hands(queue, fulfil)
           /\ SoleCap(queue, fulfil) => SoleCap(jobs', fulfil')
<1>1. /\ \A r : WaitsAs(queue, fulfil, r) =>
            \E w : WaitsAs(jobs', fulfil', w) /\ Matches(r, w)
      /\ \A w : WaitsAs(jobs', fulfil', w) =>
            \E r : WaitsAs(queue, fulfil, r) /\ Matches(r, w)
  BY KeepsWaiting
<1>2. \A r, w : Matches(r, w) => /\ r.capability = w.capability /\ r.id = w.id /\ r.of = w.of
                                 /\ r.handler.settler = w.handler.settler
  BY DEF Matches, Twins
<1>3. Caps(jobs', fulfil') = Caps(queue, fulfil)
  BY <1>1, <1>2 DEF Caps
<1>4. Hands(jobs', fulfil') = Hands(queue, fulfil)
  BY <1>1, <1>2 DEF Hands
<1>5. ASSUME SoleCap(queue, fulfil) PROVE SoleCap(jobs', fulfil')
  <2> SUFFICES ASSUME NEW r, NEW w, WaitsAs(jobs', fulfil', r), WaitsAs(jobs', fulfil', w)
               PROVE  /\ r.id = w.id => r.of = w.of
                      /\ r.capability = w.capability /\ r.capability # None => r.id = w.id
    BY DEF SoleCap
  <2>1. PICK a : WaitsAs(queue, fulfil, a) /\ Matches(a, r)
    BY <1>1
  <2>2. PICK b : WaitsAs(queue, fulfil, b) /\ Matches(b, w)
    BY <1>1
  <2> QED BY <1>2, <1>5, <2>1, <2>2 DEF SoleCap
<1> QED BY <1>3, <1>4, <1>5

(* What waits was registered before, through a pair that is made.          *)
LEMMA WaitingOld ==
    ASSUME TypeInv, Listing, NEW queue \in Seq(MadeJobs(promiseOf)), Following(queue),
           NEW r, WaitsAs(queue, fulfil, r)
    PROVE  /\ r.id \in Nat /\ r.id < made
           /\ r.capability \in Made(promiseOf) \cup {None}
           /\ r.handler.settler \in Made(promiseOf) \cup {None}
<1>1. r \in MadeReactions(promiseOf) /\ r \in Reactions
  BY WaitingTyped
<1>2. r.id < made
  <2>1. CASE \E i \in DOMAIN queue : IsReaction(queue, i) /\ queue[i].reaction = r
    BY <2>1 DEF Following, Truthful, TrueOf, Tells
  <2>2. CASE \E p \in Promises : \E i \in DOMAIN fulfil[p] : fulfil[p][i] = r
    BY <2>2 DEF Listing, Listed, Orderly
  <2> QED BY <2>1, <2>2 DEF WaitsAs
<1> QED BY <1>1, <1>2 DEF MadeReactions, Reactions

(* A registration adds the one reaction, with a new number and, if it has  *)
(* a capability, a new pair.                                               *)
LEMMA RegistersCaps ==
    ASSUME TypeInv, Listing, NEW queue \in Seq(MadeJobs(promiseOf)), Following(queue),
           NEW p \in Promises, NEW f \in Handlers, NEW g \in Handlers, f.settler = g.settler,
           NEW s \in FreshSettlers \cup {None}, PerformThen(p, f, g, s, queue)
    PROVE  /\ Caps(jobs', fulfil') = Caps(queue, fulfil) \cup ({s} \cap Settlers)
           /\ Hands(jobs', fulfil') = Hands(queue, fulfil) \cup ({f.settler} \cap Settlers)
           /\ SoleCap(queue, fulfil) => SoleCap(jobs', fulfil')
<1> DEFINE r == [id |-> made, of |-> p, kind |-> "fulfil", handler |-> f, capability |-> s]
           w == [id |-> made, of |-> p, kind |-> "reject", handler |-> g, capability |-> s]
           v == ReactionTo(p, r, w)
           new == IF state[p] = "pending" THEN r ELSE v
<1>1. /\ new.id = made /\ new.of = p /\ new.capability = s /\ new.handler.settler = f.settler
  BY DEF ReactionTo
<1>2. /\ fulfil \in [Promises -> Seq(Reactions)] /\ made \in Nat
  BY DEF TypeInv, TypeOK
<1>3. \/ /\ state[p] = "pending"
         /\ fulfil' = [fulfil EXCEPT ![p] = Append(@, new)]
         /\ jobs' = queue
      \/ /\ state[p] # "pending"
         /\ jobs' = Append(queue, ReactionJob(new, result[p]))
         /\ fulfil' = fulfil
  BY DEF PerformThen
<1> HIDE DEF new
<1>4. \A x : WaitsAs(jobs', fulfil', x) <=> WaitsAs(queue, fulfil, x) \/ x = new
  <2>1. CASE /\ fulfil' = [fulfil EXCEPT ![p] = Append(@, new)]
             /\ jobs' = queue
    <3>1. /\ fulfil[p] \in Seq(Reactions) /\ fulfil'[p] = Append(fulfil[p], new)
          /\ \A o \in Promises : o # p => fulfil'[o] = fulfil[o]
      BY <1>2, <2>1
    <3>2. \A x : (\E i \in DOMAIN fulfil'[p] : fulfil'[p][i] = x)
                    <=> (\E i \in DOMAIN fulfil[p] : fulfil[p][i] = x) \/ x = new
      <4> DEFINE list == fulfil[p]
                 more == Append(list, new)
      <4>1. /\ DOMAIN more = 1..(Len(list) + 1) /\ DOMAIN list = 1..Len(list)
            /\ Len(list) \in Nat /\ more[Len(list) + 1] = new
            /\ \A i \in 1..Len(list) : more[i] = list[i]
        BY <3>1
      <4>2. fulfil'[p] = more
        BY <3>1
      <4> HIDE DEF list, more
      <4>3. \A i \in DOMAIN more : i \in DOMAIN list \/ i = Len(list) + 1
        BY <4>1
      <4>4. \A x : (\E i \in DOMAIN more : more[i] = x)
                      <=> (\E i \in DOMAIN list : list[i] = x) \/ x = new
        BY <4>1, <4>3
      <4> QED BY <4>2, <4>4 DEF list
    <3> QED BY <2>1, <3>1, <3>2 DEF WaitsAs
  <2>2. CASE /\ jobs' = Append(queue, ReactionJob(new, result[p]))
             /\ fulfil' = fulfil
    <3>1. /\ DOMAIN jobs' = 1..(Len(queue) + 1) /\ DOMAIN queue = 1..Len(queue)
          /\ Len(queue) \in Nat
          /\ jobs'[Len(queue) + 1] = ReactionJob(new, result[p])
          /\ \A i \in 1..Len(queue) : jobs'[i] = queue[i]
      BY <2>2
    <3>2. /\ IsReaction(jobs', Len(queue) + 1)
          /\ jobs'[Len(queue) + 1].reaction = new
      BY <3>1 DEF IsReaction, ReactionJob
    <3>3. \A i \in DOMAIN jobs' : i \in DOMAIN queue \/ i = Len(queue) + 1
      BY <3>1
    <3>4. \A x : (\E i \in DOMAIN jobs' : IsReaction(jobs', i) /\ jobs'[i].reaction = x)
             <=> \/ \E i \in DOMAIN queue : IsReaction(queue, i) /\ queue[i].reaction = x
                 \/ x = new
      BY <3>1, <3>2, <3>3 DEF IsReaction
    <3> QED BY <2>2, <3>4 DEF WaitsAs
  <2> QED BY <1>3, <2>1, <2>2
<1>5. Caps(jobs', fulfil') = Caps(queue, fulfil) \cup ({s} \cap Settlers)
  BY <1>1, <1>4 DEF Caps
<1>6. Hands(jobs', fulfil') = Hands(queue, fulfil) \cup ({f.settler} \cap Settlers)
  BY <1>1, <1>4 DEF Hands
<1>7. ASSUME SoleCap(queue, fulfil) PROVE SoleCap(jobs', fulfil')
  <2>1. \A x : WaitsAs(queue, fulfil, x) =>
            x.id # made /\ (x.capability = s => s = None)
    <3> SUFFICES ASSUME NEW x, WaitsAs(queue, fulfil, x)
                 PROVE  x.id # made /\ (x.capability = s => s = None)
      OBVIOUS
    <3>1. /\ x.id \in Nat /\ x.id < made /\ x.capability \in Made(promiseOf) \cup {None}
      BY WaitingOld
    <3> QED BY <1>2, <3>1 DEF Made, FreshSettlers
  <2> QED BY <1>1, <1>4, <1>7, <2>1 DEF SoleCap
<1> QED BY <1>5, <1>6, <1>7

(* What is taken from the front no longer waits, and its capability is     *)
(* nobody else's.                                                          *)
LEMMA TailCaps ==
    ASSUME TypeInv, Listing, Following(jobs), SoleCap(jobs, fulfil), jobs # <<>>
    PROVE  /\ SoleCap(Tail(jobs), fulfil)
           /\ Head(jobs).job # "reaction" =>
                 /\ Caps(Tail(jobs), fulfil) = Caps(jobs, fulfil)
                 /\ Hands(Tail(jobs), fulfil) = Hands(jobs, fulfil)
           /\ Head(jobs).job = "reaction" =>
                 LET r == Head(jobs).reaction
                 IN  /\ Caps(jobs, fulfil) = Caps(Tail(jobs), fulfil) \cup ({r.capability} \cap Settlers)
                     /\ r.capability \notin Caps(Tail(jobs), fulfil)
                     /\ Hands(jobs, fulfil) = Hands(Tail(jobs), fulfil)
                                                 \cup ({r.handler.settler} \cap Settlers)
<1> DEFINE q == Tail(jobs)
           r == Head(jobs).reaction
<1>1. jobs \in Seq(Jobs)
  BY DEF TypeInv, TypeOK, Jobs
<1>2. /\ Head(jobs) = jobs[1] /\ 1 \in DOMAIN jobs
      /\ \A i \in DOMAIN q : i \in Nat /\ i + 1 \in DOMAIN jobs /\ q[i] = jobs[i + 1] /\ 1 < i + 1
      /\ \A i \in DOMAIN jobs : i # 1 => i - 1 \in DOMAIN q /\ q[i - 1] = jobs[i]
  BY <1>1, HeadTailProperties
<1> HIDE DEF q
<1>3. /\ \A x : WaitsAs(q, fulfil, x) => WaitsAs(jobs, fulfil, x)
      /\ \A x : WaitsAs(jobs, fulfil, x) =>
             WaitsAs(q, fulfil, x) \/ (Head(jobs).job = "reaction" /\ x = r)
      /\ Head(jobs).job = "reaction" => WaitsAs(jobs, fulfil, r)
  BY <1>2 DEF WaitsAs, IsReaction
<1>4. SoleCap(q, fulfil)
  BY <1>3 DEF SoleCap
<1>5. ASSUME Head(jobs).job # "reaction"
      PROVE  Caps(q, fulfil) = Caps(jobs, fulfil) /\ Hands(q, fulfil) = Hands(jobs, fulfil)
  BY <1>3, <1>5 DEF Caps, Hands
<1>6. ASSUME Head(jobs).job = "reaction"
      PROVE  /\ Caps(jobs, fulfil) = Caps(q, fulfil) \cup ({r.capability} \cap Settlers)
             /\ r.capability \notin Caps(q, fulfil)
             /\ Hands(jobs, fulfil) = Hands(q, fulfil) \cup ({r.handler.settler} \cap Settlers)
  <2>1. Caps(jobs, fulfil) = Caps(q, fulfil) \cup ({r.capability} \cap Settlers)
    BY <1>3, <1>6 DEF Caps
  <2>2. Hands(jobs, fulfil) = Hands(q, fulfil) \cup ({r.handler.settler} \cap Settlers)
    BY <1>3, <1>6 DEF Hands
  <2>3. ASSUME r.capability \in Caps(q, fulfil) PROVE FALSE
    <3>1. PICK w : WaitsAs(q, fulfil, w) /\ w.capability = r.capability
      BY <2>3 DEF Caps
    <3>2. r.capability # None
      BY <2>3, NoneAssumption DEF Caps
    <3>3. w.id = r.id /\ w.of = r.of
      BY <1>3, <1>6, <3>1, <3>2 DEF SoleCap
    <3>4. /\ IsReaction(jobs, 1) /\ jobs[1].reaction = r
          /\ r.id \in Nat /\ state[r.of] \in {"fulfilled", "rejected"}
      <4>1. IsReaction(jobs, 1) /\ jobs[1].reaction = r
        BY <1>2, <1>6 DEF IsReaction
      <4>2. r \in Reactions
        BY <1>6, HeadType DEF MadeReactions
      <4> QED BY <1>1, <1>2, <4>1, <4>2, QueuedSettled DEF Reactions, Following
    <3>5. CASE \E i \in DOMAIN q : IsReaction(q, i) /\ q[i].reaction = w
      <4>1. PICK i \in DOMAIN q : IsReaction(q, i) /\ q[i].reaction = w
        BY <3>5
      <4>2. r.id < w.id
        BY <1>2, <3>3, <3>4, <4>1 DEF Following, InTurn, IsReaction
      <4> QED BY <3>3, <3>4, <4>2
    <3>6. CASE \E p \in Promises : \E i \in DOMAIN fulfil[p] : fulfil[p][i] = w
      <4>1. PICK p \in Promises : \E i \in DOMAIN fulfil[p] : fulfil[p][i] = w
        BY <3>6
      <4>2. w.of = p /\ state[p] = "pending"
        <5>1. fulfil[p] \in Seq(Reactions) /\ Listed(p)
          BY ListsTyped DEF Listing
        <5> QED BY <4>1, <5>1 DEF Listed, Orderly
      <4> QED BY <3>3, <3>4, <4>2
    <3> QED BY <3>1, <3>5, <3>6 DEF WaitsAs
  <2> QED BY <2>1, <2>2, <2>3
<1> QED BY <1>4, <1>5, <1>6 DEF q

-----------------------------------------------------------------------------
(* Frames.                                                                 *)

LEMMA GetterTalksNot ==
    ASSUME NEW rest \in Seq(Frames), NEW k,
           \E o : k = Append(rest, Frame("getThen", None, o))
    PROVE  /\ Talking(k) = Talking(rest)
           /\ \A given, ph : ph # "idle" /\ Shape(rest, given, ph) => Shape(k, given, ph)
           /\ \A o : Reads(rest, o) => Reads(k, o)
           /\ \A p : k = Append(rest, Frame("getThen", None, p)) => Reads(k, p)
<1>0. PICK p : k = Append(rest, Frame("getThen", None, p))
  OBVIOUS
<1>1. /\ DOMAIN k = 1..(Len(rest) + 1) /\ DOMAIN rest = 1..Len(rest) /\ Len(rest) \in Nat
      /\ k[Len(rest) + 1] = Frame("getThen", None, p)
      /\ \A i \in DOMAIN rest : k[i] = rest[i]
  BY <1>0
<1>2. \A i \in DOMAIN k : i \in DOMAIN rest \/ i = Len(rest) + 1
  BY <1>1
<1>3. /\ k[Len(rest) + 1].code = "getThen" /\ k[Len(rest) + 1].settler = None
      /\ k[Len(rest) + 1].promise = p
  BY <1>1 DEF Frame
<1>4. Talking(k) = Talking(rest)
  BY <1>1, <1>2, <1>3 DEF Talking, Speaks
<1>5. ASSUME NEW given, NEW ph, ph # "idle", Shape(rest, given, ph)
      PROVE  Shape(k, given, ph)
  BY <1>1, <1>2, <1>3, <1>5 DEF Shape
<1>6. \A o : Reads(rest, o) => Reads(k, o)
  BY <1>1 DEF Reads, GetterFor
<1>7. ASSUME NEW o, k = Append(rest, Frame("getThen", None, o)) PROVE Reads(k, o)
  <2>1. Len(rest) + 1 \in DOMAIN k /\ k[Len(rest) + 1] = Frame("getThen", None, o)
    BY <1>1, <1>7
  <2> QED BY <2>1 DEF Reads, GetterFor, Frame
<1> QED BY <1>4, <1>5, <1>6, <1>7

(* The frame on top is the last to go, and the only one if it speaks.      *)
LEMMA PopTalks ==
    ASSUME TypeInv, stack # <<>>, Shape(stack, held, phase)
    PROVE  /\ Shape(Pop(stack), held, phase) /\ phase # "idle"
           /\ Top.code # "getThen" => Pop(stack) = <<>>
           /\ Speaks(Top) => Talking(stack) = {Top.settler} \cap Settlers
           /\ ~Speaks(Top) => Talking(stack) = Talking(Pop(stack))
           /\ Top.code = "callThen" => Top.settler \in held
           /\ \A p : Reads(stack, p) => \/ Reads(Pop(stack), p)
                                        \/ Top.code = "getThen" /\ Top.promise = p
<1> DEFINE k == Pop(stack)
<1>1. /\ stack \in Seq(Frames) /\ Len(stack) \in Nat \ {0} /\ Len(stack) \in DOMAIN stack
      /\ k \in Seq(Frames) /\ Len(k) = Len(stack) - 1
      /\ \A i \in DOMAIN k : i \in DOMAIN stack /\ k[i] = stack[i]
      /\ \A i \in DOMAIN stack : i \in DOMAIN k \/ i = Len(stack)
      /\ DOMAIN stack = 1..Len(stack)
  <2>1. /\ stack \in Seq(Frames) /\ Len(stack) \in Nat \ {0} /\ Len(stack) \in DOMAIN stack
        /\ DOMAIN stack = 1..Len(stack)
    BY DEF TypeInv, TypeOK
  <2>2. k \in Seq(Frames) /\ k = SubSeq(stack, 1, Len(stack) - 1)
    BY <2>1, PopType DEF Pop
  <2>3. /\ Len(k) = Len(stack) - 1 /\ DOMAIN k = 1..(Len(stack) - 1)
        /\ \A i \in 1..(Len(stack) - 1) : k[i] = stack[i]
    BY <2>1, <2>2
  <2> HIDE DEF k
  <2> QED BY <2>1, <2>2, <2>3
<1> HIDE DEF k
<1>2. phase # "idle" /\ Shape(k, held, phase)
  BY <1>1 DEF Shape
<1>3. ASSUME Top.code # "getThen" PROVE k = <<>> /\ DOMAIN stack = {Len(stack)}
  <2>1. Len(stack) = 1
    BY <1>1, <1>3 DEF Shape, Top
  <2> QED BY <1>1, <2>1
<1>4. Speaks(Top) => Talking(stack) = {Top.settler} \cap Settlers
  BY <1>1, <1>3 DEF Talking, Speaks, Top
<1>5. ~Speaks(Top) => Talking(stack) = Talking(k)
  BY <1>1 DEF Talking, Top
<1>6. Top.code = "callThen" => Top.settler \in held
  BY <1>1 DEF Shape, Top
<1>7. \A p : Reads(stack, p) => \/ Reads(k, p)
                                \/ Top.code = "getThen" /\ Top.promise = p
  BY <1>1 DEF Reads, GetterFor, Top
<1> QED BY <1>2, <1>3, <1>4, <1>5, <1>6, <1>7 DEF k

LEMMA OneFrame ==
    ASSUME NEW f \in Frames, f.code # "getThen", NEW k, k = <<f>>
    PROVE  /\ Talking(k) = IF Speaks(f) THEN {f.settler} \cap Settlers ELSE {}
           /\ \A given, ph :
                 /\ ph # "idle"
                 /\ f.code = "callThen" => f.settler \in given
                 /\ f.code = "script" => f.settler = None
                 => Shape(k, given, ph)
<1>1. DOMAIN k = {1} /\ k[1] = f
  OBVIOUS
<1> QED BY <1>1 DEF Talking, Shape

LEMMA NoFrame ==
    /\ Talking(<<>>) = {} /\ \A given, ph : Shape(<<>>, given, ph)
    /\ \A p : ~Reads(<<>>, p)
  BY DEF Talking, Shape, Reads

-----------------------------------------------------------------------------
(* A call of a resolving function, whoever makes it: the pair is claimed,  *)
(* and its promise is settled or has found another way.                    *)

LEMMA SettleWays ==
    ASSUME TypeInv, NEW p \in Promises, NEW to \in {"fulfilled", "rejected"}, NEW value,
           NEW queue \in Seq(Jobs), NEW rest, Settle(p, to, value, queue, rest)
    PROVE  /\ \A o : Adopts(queue, o) => Adopts(jobs', o)
           /\ stack' = rest /\ state'[p] # "pending"
           /\ \A o \in Promises : o # p => state'[o] = state[o]
<1> DEFINE taken == IF to = "fulfilled" THEN fulfil[p] ELSE reject[p]
<1>1. taken \in Seq(Reactions) /\ jobs' = queue \o JobsOf(taken, value)
  BY ListsTyped DEF Settle
<1> HIDE DEF taken
<1>2. Joined(jobs', queue, taken, value) /\ DOMAIN queue = 1..Len(queue)
      /\ Len(queue) \in Nat /\ Len(taken) \in Nat
  BY <1>1, JobsAre
<1>3. \A i \in DOMAIN queue : i \in DOMAIN jobs' /\ jobs'[i] = queue[i]
  BY <1>2 DEF Joined
<1>4. \A o : Adopts(queue, o) => Adopts(jobs', o)
  BY <1>3 DEF Adopts, ThenableFor
<1> QED BY <1>4 DEF Settle, TypeInv, TypeOK

LEMMA AppendAdopts ==
    ASSUME NEW queue \in Seq(Jobs), NEW job \in Jobs, NEW q, q = Append(queue, job)
    PROVE  /\ \A o : Adopts(queue, o) => Adopts(q, o)
           /\ job.job = "thenable" => Adopts(q, job.promise)
<1>1. /\ \A i \in DOMAIN queue : i \in DOMAIN q /\ q[i] = queue[i]
      /\ Len(queue) + 1 \in DOMAIN q /\ q[Len(queue) + 1] = job
  OBVIOUS
<1> QED BY <1>1 DEF Adopts, ThenableFor

LEMMA ResolvePromiseAnswers ==
    ASSUME TypeInv, NEW p \in Promises, NEW x \in Data \cup Promises,
           NEW queue \in Seq(Jobs), NEW rest \in Seq(Frames),
           \/ ResolvePromise(p, x, queue, rest)
           \/ x \in Data /\ Settle(p, "rejected", x, queue, rest)
    PROVE  /\ \/ stack' = rest
              \/ \E o : stack' = Append(rest, Frame("getThen", None, o))
           /\ \A o : Adopts(queue, o) => Adopts(jobs', o)
           /\ \A o : Reads(rest, o) => Reads(stack', o)
           /\ \A o \in Promises : o # p => state'[o] = state[o]
           /\ state'[p] # "pending" \/ Adopts(jobs', p) \/ Reads(stack', p)
<1>1. CASE \E to \in {"fulfilled", "rejected"} : \E value : Settle(p, to, value, queue, rest)
  BY <1>1, SettleWays
<1>2. CASE /\ x \in Promises \ {p}
           /\ NothingSettled(Append(queue, [job |-> "thenable", promise |-> p,
                                            thenable |-> x]), rest)
  <2> DEFINE job == [job |-> "thenable", promise |-> p, thenable |-> x]
  <2>1. job \in Jobs /\ job.job = "thenable" /\ job.promise = p
    BY <1>2 DEF Jobs, ThenableJobs
  <2>2. jobs' = Append(queue, job) /\ stack' = rest /\ state' = state
    BY <1>2 DEF NothingSettled, promiseVars
  <2> HIDE DEF job
  <2>3. (\A o : Adopts(queue, o) => Adopts(jobs', o)) /\ Adopts(jobs', p)
    BY <2>1, <2>2, AppendAdopts
  <2> QED BY <2>2, <2>3
<1>3. CASE NothingSettled(queue, Append(rest, Frame("getThen", None, p)))
  <2>1. /\ jobs' = queue /\ stack' = Append(rest, Frame("getThen", None, p))
        /\ state' = state
    BY <1>3 DEF NothingSettled, promiseVars
  <2>2. PICK k : k = stack'
    OBVIOUS
  <2>3. (\A o : Reads(rest, o) => Reads(k, o)) /\ Reads(k, p)
    BY <2>1, <2>2, GetterTalksNot
  <2> QED BY <2>1, <2>2, <2>3
<1>4. \/ \E to \in {"fulfilled", "rejected"} : \E value : Settle(p, to, value, queue, rest)
      \/ /\ x \in Promises \ {p}
         /\ NothingSettled(Append(queue, [job |-> "thenable", promise |-> p,
                                          thenable |-> x]), rest)
      \/ NothingSettled(queue, Append(rest, Frame("getThen", None, p)))
  BY DEF ResolvePromise
<1> QED BY <1>1, <1>2, <1>3, <1>4

LEMMA FunctionAnswers ==
    ASSUME TypeInv, NEW s \in Made(promiseOf), NEW x \in Data \cup Promises,
           NEW queue \in Seq(Jobs), NEW rest \in Seq(Frames), promiseOf' = promiseOf,
           Resolve(s, x, queue, rest) \/ (x \in Data /\ Reject(s, x, queue, rest))
    PROVE  /\ Openers(promiseOf', resolved') = Openers(promiseOf, resolved) \ {s}
           /\ \A t \in Settlers : t # s => resolved'[t] = resolved[t]
           /\ \/ stack' = rest
              \/ \E o : stack' = Append(rest, Frame("getThen", None, o))
           /\ AllHaveWay(state, promiseOf, resolved, queue, rest) =>
                 AllHaveWay(state', promiseOf', resolved', jobs', stack')
<1>1. /\ s \in Settlers /\ promiseOf[s] \in Promises /\ promiseOf[s] # None
      /\ resolved \in [Settlers -> BOOLEAN]
  BY DEF Made, TypeInv, TypeOK
<1>2. CASE resolved[s]
  <2>1. NothingSettled(queue, rest) /\ resolved' = resolved
    BY <1>2 DEF Resolve, Reject
  <2> QED BY <1>1, <1>2, <2>1 DEF NothingSettled, promiseVars, Openers, Open
<1>3. CASE ~resolved[s]
  <2> DEFINE p == promiseOf[s]
  <2>1. /\ resolved' = [resolved EXCEPT ![s] = TRUE]
        /\ \/ ResolvePromise(p, x, queue, rest)
           \/ x \in Data /\ Settle(p, "rejected", x, queue, rest)
    BY <1>3 DEF Resolve, Reject
  <2>2. /\ \/ stack' = rest
           \/ \E o : stack' = Append(rest, Frame("getThen", None, o))
        /\ \A o : Adopts(queue, o) => Adopts(jobs', o)
        /\ \A o : Reads(rest, o) => Reads(stack', o)
        /\ \A o \in Promises : o # p => state'[o] = state[o]
        /\ state'[p] # "pending" \/ Adopts(jobs', p) \/ Reads(stack', p)
    BY <1>1, <2>1, ResolvePromiseAnswers
  <2>3. \A t \in Settlers : Open(promiseOf', resolved', t)
                                <=> Open(promiseOf, resolved, t) /\ t # s
    BY <1>1, <2>1 DEF Open
  <2>4. Openers(promiseOf', resolved') = Openers(promiseOf, resolved) \ {s}
    BY <2>3 DEF Openers
  <2>5. ASSUME AllHaveWay(state, promiseOf, resolved, queue, rest)
        PROVE  AllHaveWay(state', promiseOf', resolved', jobs', stack')
    <3> SUFFICES ASSUME NEW o \in Promises, state'[o] = "pending"
                 PROVE  HasWay(promiseOf', resolved', jobs', stack', o)
      BY DEF AllHaveWay
    <3>1. CASE o = p
      BY <2>2, <3>1 DEF HasWay
    <3>2. CASE o # p
      <4>1. HasWay(promiseOf, resolved, queue, rest, o)
        BY <2>2, <2>5, <3>2 DEF AllHaveWay
      <4> QED BY <2>2, <2>3, <3>2, <4>1 DEF HasWay
    <3> QED BY <3>1, <3>2
  <2> QED BY <1>1, <2>1, <2>2, <2>4, <2>5
<1> QED BY <1>2, <1>3

-----------------------------------------------------------------------------
(* The invariant, and that each action keeps it.                           *)

Answering ==
    /\ Shape(stack, held, phase)
    /\ SoleCap(jobs, fulfil)
    /\ UnmadeFree(promiseOf, resolved)
    /\ Spoken(Openers(promiseOf, resolved), held, Caps(jobs, fulfil),
              Hands(jobs, fulfil), Talking(stack))
    /\ AllHaveWay(state, promiseOf, resolved, jobs, stack)

AnswerInv == ReactionInv /\ Answering

LEMMA Assemble ==
    ASSUME TypeInv, Listing, NEW queue \in Seq(Jobs), Keeps(queue),
           SoleCap(queue, fulfil), Shape(stack', held', phase'),
           UnmadeFree(promiseOf', resolved'),
           Spoken(Openers(promiseOf', resolved'), held', Caps(queue, fulfil),
                  Hands(queue, fulfil), Talking(stack')),
           AllHaveWay(state', promiseOf', resolved', jobs', stack')
    PROVE  Answering'
<1>1. /\ Caps(jobs', fulfil') = Caps(queue, fulfil)
      /\ Hands(jobs', fulfil') = Hands(queue, fulfil)
      /\ SoleCap(jobs', fulfil')
  BY KeepsCaps
<1> QED BY <1>1 DEF Answering

(* A reaction's capability, or a function of a pair, is called.            *)
LEMMA CallStep ==
    ASSUME TypeInv, OneResolver, Listing, NEW s \in Made(promiseOf) \cup {None},
           NEW x \in Data \cup Promises, x \in Promises => Exists(x),
           NEW queue \in Seq(Jobs), NEW rest \in Seq(Frames),
           UNCHANGED <<promiseOf, held, phase, made, runs>>,
           \/ ResolveCapability(s, x, queue, rest)
           \/ x \in Data /\ RejectCapability(s, x, queue, rest)
           \/ s # None /\ Resolve(s, x, queue, rest)
           \/ s # None /\ x \in Data /\ Reject(s, x, queue, rest),
           SoleCap(queue, fulfil), UnmadeFree(promiseOf, resolved),
           Shape(rest, held, phase), phase # "idle",
           Spoken(Openers(promiseOf, resolved) \ {s}, held, Caps(queue, fulfil),
                  Hands(queue, fulfil), Talking(rest)),
           AllHaveWay(state, promiseOf, resolved, queue, rest)
    PROVE  Answering'
<1>1. CASE s = None
  <2>1. NothingSettled(queue, rest) /\ resolved' = resolved
    BY <1>1 DEF ResolveCapability, RejectCapability
  <2>2. Keeps(queue)
    BY <2>1, NothingDone DEF Keeps
  <2>3. Openers(promiseOf, resolved) \ {s} = Openers(promiseOf, resolved)
    BY <1>1, NoneAssumption DEF Openers
  <2>4. jobs' = queue /\ stack' = rest /\ state' = state
    BY <2>1 DEF NothingSettled, promiseVars
  <2> QED BY <2>1, <2>2, <2>3, <2>4, Assemble
<1>2. CASE s # None
  <2>1. s \in Made(promiseOf)
        /\ (Resolve(s, x, queue, rest) \/ (x \in Data /\ Reject(s, x, queue, rest)))
    BY <1>2 DEF ResolveCapability, RejectCapability
  <2>2. Keeps(queue)
    BY <2>1, FunctionDoes
  <2>3. /\ Openers(promiseOf', resolved') = Openers(promiseOf, resolved) \ {s}
        /\ \A t \in Settlers : t # s => resolved'[t] = resolved[t]
        /\ \/ stack' = rest
           \/ \E o : stack' = Append(rest, Frame("getThen", None, o))
        /\ AllHaveWay(state', promiseOf', resolved', jobs', stack')
    BY <2>1, FunctionAnswers
  <2>4. Shape(stack', held', phase') /\ Talking(stack') = Talking(rest)
    <3>1. CASE stack' = rest
      BY <3>1
    <3>2. CASE \E o : stack' = Append(rest, Frame("getThen", None, o))
      <4>1. PICK k : k = stack'
        OBVIOUS
      <4>2. Talking(k) = Talking(rest) /\ Shape(k, held, phase)
        BY <3>2, <4>1, GetterTalksNot
      <4> QED BY <4>1, <4>2
    <3> QED BY <2>3, <3>1, <3>2
  <2>5. UnmadeFree(promiseOf', resolved')
    BY <2>1, <2>3 DEF UnmadeFree, Made
  <2> QED BY <2>2, <2>3, <2>4, <2>5, Assemble
<1> QED BY <1>1, <1>2

LEMMA AnswerParts ==
    ASSUME AnswerInv
    PROVE  /\ TypeInv /\ OneResolver /\ NamedExist /\ Listing /\ Following(jobs)
           /\ jobs \in Seq(Jobs) /\ jobs \in Seq(MadeJobs(promiseOf)) /\ stack \in Seq(Frames)
           /\ \A x \in Answers : x \in Data \cup Promises /\ (x \in Promises => Exists(x))
           /\ \A x \in ScriptValues \cup {UndefinedValue, ForeignObject} :
                 x \in Data /\ x \notin Promises
<1>1. TypeInv /\ OneResolver /\ NamedExist /\ Listing /\ Following(jobs)
  BY DEF AnswerInv, ReactionInv
<1>2. jobs \in Seq(Jobs) /\ jobs \in Seq(MadeJobs(promiseOf)) /\ stack \in Seq(Frames)
  BY <1>1 DEF TypeInv, TypeOK, JobsMade, Jobs
<1>3. known \subseteq Promises
  BY <1>1 DEF TypeInv, TypeOK
<1> QED BY <1>1, <1>2, <1>3, ValuesAssumption DEF Answers, Data, NamedExist

LEMMA CallAnswers ==
    ASSUME AnswerInv, \/ \E s \in Settlers, x \in Answers : CallResolve(s, x)
                      \/ \E s \in Settlers, reason \in ScriptValues : CallReject(s, reason)
    PROVE  Answering'
<1>1. PICK s \in Settlers, x \in Answers \cup ScriptValues :
          /\ ScriptRuns /\ s \in held
          /\ Resolve(s, x, jobs, stack) \/ (x \in ScriptValues /\ Reject(s, x, jobs, stack))
          /\ UNCHANGED <<promiseOf, scriptVars, runVars, made>>
  BY DEF CallResolve, CallReject
<1>2. s \in Made(promiseOf) /\ s # None
  BY <1>1, NoneAssumption, AnswerParts DEF TypeInv, HeldMade
<1>3. /\ x \in Data \cup Promises /\ (x \in Promises => Exists(x))
      /\ x \in ScriptValues => x \in Data
  BY AnswerParts
<1>4. phase # "idle" /\ Shape(stack, held, phase)
  BY <1>1 DEF AnswerInv, Answering, Shape, ScriptRuns
<1>5. Spoken(Openers(promiseOf, resolved) \ {s}, held, Caps(jobs, fulfil),
             Hands(jobs, fulfil), Talking(stack))
  BY <1>1 DEF AnswerInv, Answering, Spoken
<1> QED BY <1>1, <1>2, <1>3, <1>4, <1>5, AnswerParts, CallStep
        DEF AnswerInv, Answering, scriptVars, runVars

LEMMA HandlerAnswers ==
    ASSUME AnswerInv, \/ \E x \in Answers : HandlerReturns(x)
                      \/ \E reason \in ScriptValues : HandlerThrows(reason)
                      \/ NativeReturns
    PROVE  Answering'
<1>1. PICK x \in Answers \cup ScriptValues \cup {UndefinedValue} :
          /\ stack # <<>> /\ Speaks(Top)
          /\ \/ ResolveCapability(Top.settler, x, jobs, Pop(stack))
             \/ x \in ScriptValues /\ RejectCapability(Top.settler, x, jobs, Pop(stack))
          /\ UNCHANGED <<promiseOf, scriptVars, runVars, made>>
  BY DEF HandlerReturns, HandlerThrows, NativeReturns, Speaks
<1>2. Top.settler \in Made(promiseOf) \cup {None}
  BY <1>1, AnswerParts, TopType
<1>3. /\ x \in Data \cup Promises /\ (x \in Promises => Exists(x))
      /\ x \in ScriptValues => x \in Data
  BY AnswerParts
<1>4. /\ Shape(Pop(stack), held, phase) /\ phase # "idle" /\ Pop(stack) = <<>>
      /\ Talking(stack) = {Top.settler} \cap Settlers
      /\ \A p : Reads(stack, p) => Reads(Pop(stack), p)
  BY <1>1, AnswerParts, PopTalks DEF AnswerInv, Answering, Speaks
<1>5. Spoken(Openers(promiseOf, resolved) \ {Top.settler}, held, Caps(jobs, fulfil),
             Hands(jobs, fulfil), Talking(Pop(stack)))
  BY <1>4, NoFrame DEF AnswerInv, Answering, Spoken, Caps
<1>6. AllHaveWay(state, promiseOf, resolved, jobs, Pop(stack))
  BY <1>4 DEF AnswerInv, Answering, AllHaveWay, HasWay
<1>7. Pop(stack) \in Seq(Frames)
  BY <1>4
<1> QED BY <1>1, <1>2, <1>3, <1>4, <1>5, <1>6, <1>7, AnswerParts, CallStep
        DEF AnswerInv, Answering, scriptVars, runVars

LEMMA ThenMethodAnswers ==
    ASSUME AnswerInv, \/ ThenMethodReturns
                      \/ \E reason \in ScriptValues : ThenMethodThrows(reason)
    PROVE  Answering'
<1>1. stack # <<>> /\ Top.code = "callThen"
  BY DEF ThenMethodReturns, ThenMethodThrows
<1>2. /\ Shape(Pop(stack), held, phase) /\ phase # "idle" /\ Pop(stack) = <<>>
      /\ Talking(stack) = Talking(Pop(stack)) /\ Top.settler \in held
      /\ \A p : Reads(stack, p) => Reads(Pop(stack), p)
  BY <1>1, AnswerParts, PopTalks DEF AnswerInv, Answering, Speaks
<1>3. AllHaveWay(state, promiseOf, resolved, jobs, Pop(stack))
  BY <1>2 DEF AnswerInv, Answering, AllHaveWay, HasWay
<1>4. CASE ThenMethodReturns
  <2>1. /\ NothingSettled(jobs, Pop(stack))
        /\ UNCHANGED <<settlerVars, scriptVars, runVars, made>>
    BY <1>4 DEF ThenMethodReturns
  <2>2. Keeps(jobs)
    BY <2>1, NothingDone DEF Keeps, runVars
  <2>3. /\ jobs' = jobs /\ stack' = Pop(stack) /\ state' = state
        /\ promiseOf' = promiseOf /\ resolved' = resolved /\ held' = held /\ phase' = phase
    BY <2>1 DEF NothingSettled, promiseVars, settlerVars, scriptVars, runVars
  <2> QED BY <1>2, <1>3, <2>2, <2>3, AnswerParts, Assemble DEF AnswerInv, Answering
<1>5. CASE \E reason \in ScriptValues : ThenMethodThrows(reason)
  <2>1. PICK reason \in ScriptValues :
           /\ Reject(Top.settler, reason, jobs, Pop(stack))
           /\ UNCHANGED <<promiseOf, scriptVars, runVars, made>>
    BY <1>5 DEF ThenMethodThrows
  <2>2. Top.settler \in Made(promiseOf) /\ Top.settler # None
    BY <1>1, <1>2, NoneAssumption, AnswerParts DEF TypeInv, HeldMade, Made
  <2>3. Spoken(Openers(promiseOf, resolved) \ {Top.settler}, held, Caps(jobs, fulfil),
               Hands(jobs, fulfil), Talking(Pop(stack)))
    BY <1>2 DEF AnswerInv, Answering, Spoken
  <2>4. Pop(stack) \in Seq(Frames)
    BY <1>2
  <2>5. reason \in Data /\ reason \notin Promises
    BY AnswerParts
  <2> QED BY <1>2, <1>3, <2>1, <2>2, <2>3, <2>4, <2>5, AnswerParts, CallStep
          DEF AnswerInv, Answering, scriptVars, runVars
<1> QED BY <1>4, <1>5

LEMMA GetterAnswers ==
    ASSUME AnswerInv, \/ GetterReturnsFunction \/ GetterReturnsOther
                      \/ \E reason \in ScriptValues : GetterThrows(reason)
    PROVE  Answering'
<1>1. /\ stack # <<>> /\ Top.code = "getThen"
      /\ UNCHANGED <<settlerVars, scriptVars, runVars, made>>
  BY DEF GetterReturnsFunction, GetterReturnsOther, GetterThrows
<1>2. /\ promiseOf' = promiseOf /\ resolved' = resolved /\ held' = held /\ phase' = phase
      /\ made' = made /\ runs' = runs
  BY <1>1 DEF settlerVars, scriptVars, runVars
<1> DEFINE p == Top.promise
<1>3. p \in Promises /\ state[p] = "pending"
  <2>1. p \in Promises /\ Len(stack) \in DOMAIN stack
    BY <1>1, AnswerParts, TopType DEF TypeInv, TypeOK
  <2> QED BY <1>1, <2>1, AnswerParts DEF Top, OneResolver, OnlyPendingIsResolvable, IsGetter
<1>4. /\ Shape(Pop(stack), held, phase) /\ Talking(stack) = Talking(Pop(stack))
      /\ \A o : Reads(stack, o) => Reads(Pop(stack), o) \/ o = p
  BY <1>1, AnswerParts, PopTalks DEF AnswerInv, Answering, Speaks
<1> HIDE DEF p
<1>5. /\ Keeps(jobs) /\ stack' = Pop(stack)
      /\ \A o : Adopts(jobs, o) => Adopts(jobs', o)
      /\ \A o \in Promises : o # p => state'[o] = state[o]
      /\ state'[p] # "pending" \/ Adopts(jobs', p)
  <2>1. CASE GetterReturnsFunction
    <3> DEFINE job == [job |-> "thenable", promise |-> p, thenable |-> ForeignObject]
    <3>1. /\ NothingSettled(Append(jobs, job), Pop(stack))
      BY <2>1 DEF GetterReturnsFunction, p
    <3>2. job \in ThenableJobs /\ job \in Jobs /\ job.job = "thenable" /\ job.promise = p
          /\ job.thenable \notin Promises
      <4>1. ForeignObject \notin Promises
        BY AnswerParts
      <4> QED BY <1>3, <4>1 DEF ThenableJobs, Jobs
    <3> HIDE DEF job
    <3>3. jobs' = Append(jobs, job) /\ stack' = Pop(stack) /\ state' = state
      BY <3>1 DEF NothingSettled, promiseVars
    <3>4. Keeps(jobs)
      BY <1>2, <3>1, <3>2 DEF NothingSettled, Keeps, SettlesNone, promiseVars, OneMore
    <3>5. (\A o : Adopts(jobs, o) => Adopts(jobs', o)) /\ Adopts(jobs', p)
      BY <3>2, <3>3, AnswerParts, AppendAdopts
    <3> QED BY <3>3, <3>4, <3>5
  <2>2. CASE GetterReturnsOther \/ \E reason \in ScriptValues : GetterThrows(reason)
    <3>1. PICK to \in {"fulfilled", "rejected"}, value \in Data :
             Settle(p, to, value, jobs, Pop(stack))
      BY <2>2, AnswerParts DEF GetterReturnsOther, GetterThrows, p
    <3>2. /\ \A o : Adopts(jobs, o) => Adopts(jobs', o)
          /\ stack' = Pop(stack) /\ state'[p] # "pending"
          /\ \A o \in Promises : o # p => state'[o] = state[o]
      BY <1>3, <3>1, AnswerParts, SettleWays
    <3>3. Keeps(jobs)
      BY <1>2, <1>3, <3>1, <3>2 DEF Keeps, Settles
    <3> QED BY <3>2, <3>3
  <2> QED BY <2>1, <2>2
<1>6. AllHaveWay(state', promiseOf', resolved', jobs', stack')
  BY <1>2, <1>4, <1>5 DEF AnswerInv, Answering, AllHaveWay, HasWay
<1> QED BY <1>2, <1>4, <1>5, <1>6, AnswerParts, Assemble DEF AnswerInv, Answering

(* A pair just made is nobody's yet, and unclaimed.                        *)
LEMMA FreshIsNobodys ==
    ASSUME AnswerInv, NEW s \in FreshSettlers
    PROVE  /\ s \in Settlers /\ s # None
           /\ s \notin Openers(promiseOf, resolved) /\ s \notin held
           /\ s \notin Caps(jobs, fulfil) /\ s \notin Hands(jobs, fulfil)
           /\ s \notin Talking(stack)
<1>1. s \in Settlers /\ promiseOf[s] = None /\ s # None /\ s \notin Made(promiseOf)
  BY NoneAssumption DEF FreshSettlers, Made
<1>2. s \notin held
  BY <1>1, AnswerParts DEF TypeInv, HeldMade
<1>3. \A r : WaitsAs(jobs, fulfil, r) => /\ r.capability \in Made(promiseOf) \cup {None}
                                        /\ r.handler.settler \in Made(promiseOf) \cup {None}
  BY AnswerParts, WaitingOld
<1>4. s \notin Caps(jobs, fulfil) /\ s \notin Hands(jobs, fulfil)
  BY <1>1, <1>3 DEF Caps, Hands
<1>5. s \notin Openers(promiseOf, resolved)
  BY <1>1 DEF Openers, Open
<1>6. s \notin Talking(stack)
  BY <1>5 DEF AnswerInv, Answering, Spoken
<1> QED BY <1>1, <1>2, <1>4, <1>5, <1>6

LEMMA PairOpens ==
    ASSUME AnswerInv, NEW s \in FreshSettlers, NEW p \in Promises,
           promiseOf' = [promiseOf EXCEPT ![s] = p], resolved' = resolved
    PROVE  /\ Openers(promiseOf', resolved') = Openers(promiseOf, resolved) \cup {s}
           /\ UnmadeFree(promiseOf', resolved')
           /\ Open(promiseOf', resolved', s) /\ promiseOf'[s] = p
           /\ \A t \in Settlers : Open(promiseOf, resolved, t) =>
                 Open(promiseOf', resolved', t) /\ promiseOf'[t] = promiseOf[t]
<1>1. /\ s \in Settlers /\ promiseOf[s] = None /\ p # None /\ ~resolved[s]
      /\ promiseOf \in [Settlers -> Promises \cup {None}]
  BY AnswerParts, NoneAssumption
     DEF FreshSettlers, TypeInv, TypeOK, AnswerInv, Answering, UnmadeFree
<1>2. promiseOf'[s] = p /\ \A t \in Settlers : t # s => promiseOf'[t] = promiseOf[t]
  BY <1>1
<1>3. \A t \in Settlers :
         Open(promiseOf', resolved', t) <=> Open(promiseOf, resolved, t) \/ t = s
  BY <1>1, <1>2 DEF Open
<1>4. UnmadeFree(promiseOf', resolved')
  BY <1>1, <1>2 DEF AnswerInv, Answering, UnmadeFree
<1> QED BY <1>1, <1>2, <1>3, <1>4 DEF Openers, Open

LEMMA PerformAdopts ==
    ASSUME TypeInv, NEW p \in Promises, NEW f \in Handlers, NEW g \in Handlers,
           NEW s \in Settlers \cup {None},
           NEW queue \in Seq(Jobs), PerformThen(p, f, g, s, queue)
    PROVE  \A o : Adopts(queue, o) => Adopts(jobs', o)
<1> DEFINE r == [id |-> made, of |-> p, kind |-> "fulfil", handler |-> f, capability |-> s]
           w == [id |-> made, of |-> p, kind |-> "reject", handler |-> g, capability |-> s]
           v == ReactionTo(p, r, w)
<1>1. v \in Reactions
  BY DEF ReactionTo, Reactions, TypeInv, TypeOK
<1>2. jobs' = queue \/ jobs' = Append(queue, ReactionJob(v, result[p]))
  BY DEF PerformThen
<1> HIDE DEF v
<1>3. \A i \in DOMAIN queue : i \in DOMAIN jobs' /\ jobs'[i] = queue[i]
  BY <1>2
<1> QED BY <1>3 DEF Adopts, ThenableFor

LEMMA TailAdopts ==
    ASSUME TypeInv, jobs # <<>>, NEW o, Adopts(jobs, o)
    PROVE  Adopts(Tail(jobs), o) \/ (Head(jobs).job = "thenable" /\ Head(jobs).promise = o)
<1>1. jobs \in Seq(Jobs)
  BY DEF TypeInv, TypeOK, Jobs
<1>2. /\ Head(jobs) = jobs[1]
      /\ \A i \in DOMAIN jobs : i # 1 => i - 1 \in DOMAIN Tail(jobs) /\ Tail(jobs)[i - 1] = jobs[i]
  BY <1>1, HeadTailProperties
<1> QED BY <1>2 DEF Adopts, ThenableFor

LEMMA ConstructAnswers == AnswerInv /\ Construct => Answering'
<1> SUFFICES ASSUME AnswerInv, Construct PROVE Answering'
  OBVIOUS
<1> DEFINE s == NewSettler
           p == NewPromise
<1>1. /\ p \in FreshPromises /\ p \in Promises /\ s \in FreshSettlers
      /\ state' = [state EXCEPT ![p] = "pending"]
      /\ promiseOf' = [promiseOf EXCEPT ![s] = p]
      /\ held' = held \cup {s}
      /\ jobs' = jobs /\ fulfil' = fulfil /\ stack' = stack /\ resolved' = resolved
      /\ phase' = phase
  BY AnswerParts, MakeType DEF Construct, Make, runVars, FreshPromises
<1> HIDE DEF s, p
<1>2. /\ s \in Settlers /\ s \notin Caps(jobs, fulfil) /\ s \notin Talking(stack)
  BY <1>1, FreshIsNobodys
<1>3. /\ Openers(promiseOf', resolved') = Openers(promiseOf, resolved) \cup {s}
      /\ UnmadeFree(promiseOf', resolved')
      /\ Open(promiseOf', resolved', s) /\ promiseOf'[s] = p
      /\ \A t \in Settlers : Open(promiseOf, resolved, t) =>
            Open(promiseOf', resolved', t) /\ promiseOf'[t] = promiseOf[t]
  BY <1>1, PairOpens
<1>4. Spoken(Openers(promiseOf', resolved'), held', Caps(jobs', fulfil'),
             Hands(jobs', fulfil'), Talking(stack'))
  BY <1>1, <1>2, <1>3 DEF AnswerInv, Answering, Spoken
<1>5. AllHaveWay(state', promiseOf', resolved', jobs', stack')
  <2> SUFFICES ASSUME NEW o \in Promises, state'[o] = "pending"
               PROVE  HasWay(promiseOf', resolved', jobs', stack', o)
    BY DEF AllHaveWay
  <2>1. CASE o = p
    BY <1>2, <1>3, <2>1 DEF HasWay
  <2>2. CASE o # p
    <3>1. state[o] = "pending"
      BY <1>1, <2>2, AnswerParts DEF TypeInv, TypeOK
    <3>2. HasWay(promiseOf, resolved, jobs, stack, o)
      BY <3>1 DEF AnswerInv, Answering, AllHaveWay
    <3> QED BY <1>1, <1>3, <3>2 DEF HasWay
  <2> QED BY <2>1, <2>2
<1>6. Shape(stack', held', phase') /\ SoleCap(jobs', fulfil')
  BY <1>1 DEF AnswerInv, Answering, Shape
<1> QED BY <1>3, <1>4, <1>5, <1>6 DEF Answering

LEMMA ThenAnswers ==
    ASSUME AnswerInv,
           \E p \in Promises, f, g \in {ScriptHandler, NoHandler} : Then(p, f, g)
    PROVE  Answering'
<1>1. PICK q \in Promises, f \in {ScriptHandler, NoHandler},
           g \in {ScriptHandler, NoHandler} : Then(q, f, g)
  OBVIOUS
<1> DEFINE s == NewSettler
           p == NewPromise
<1>2. /\ p \in FreshPromises /\ p \in Promises /\ s \in FreshSettlers
      /\ state' = [state EXCEPT ![p] = "pending"]
      /\ promiseOf' = [promiseOf EXCEPT ![s] = p]
      /\ held' = held /\ stack' = stack /\ resolved' = resolved /\ phase' = phase
      /\ PerformThen(q, f, g, s, jobs)
  BY <1>1, AnswerParts, MakeType DEF Then, Make, runVars, FreshPromises
<1>3. f \in Handlers /\ g \in Handlers /\ f.settler = None /\ g.settler = None
  BY DEF ScriptHandler, NoHandler, Handlers
<1> HIDE DEF s, p
<1>4. /\ s \in Settlers /\ s \notin Openers(promiseOf, resolved) /\ s \notin held
      /\ s \notin Caps(jobs, fulfil) /\ s \notin Hands(jobs, fulfil)
      /\ s \notin Talking(stack)
  BY <1>2, FreshIsNobodys
<1>5. /\ Openers(promiseOf', resolved') = Openers(promiseOf, resolved) \cup {s}
      /\ UnmadeFree(promiseOf', resolved')
      /\ Open(promiseOf', resolved', s) /\ promiseOf'[s] = p
      /\ \A t \in Settlers : Open(promiseOf, resolved, t) =>
            Open(promiseOf', resolved', t) /\ promiseOf'[t] = promiseOf[t]
  BY <1>2, PairOpens
<1>6. /\ Caps(jobs', fulfil') = Caps(jobs, fulfil) \cup {s}
      /\ Hands(jobs', fulfil') = Hands(jobs, fulfil)
      /\ SoleCap(jobs', fulfil')
  <2>1. /\ Caps(jobs', fulfil') = Caps(jobs, fulfil) \cup ({s} \cap Settlers)
        /\ Hands(jobs', fulfil') = Hands(jobs, fulfil) \cup ({f.settler} \cap Settlers)
        /\ SoleCap(jobs, fulfil) => SoleCap(jobs', fulfil')
    BY <1>2, <1>3, AnswerParts, RegistersCaps
  <2> QED BY <1>3, <1>4, <2>1, NoneAssumption DEF AnswerInv, Answering
<1>7. Spoken(Openers(promiseOf', resolved'), held', Caps(jobs', fulfil'),
             Hands(jobs', fulfil'), Talking(stack'))
  <2>1. Spoken(Openers(promiseOf, resolved), held, Caps(jobs, fulfil),
               Hands(jobs, fulfil), Talking(stack))
    BY DEF AnswerInv, Answering
  <2>2. Spoken(Openers(promiseOf, resolved) \cup {s}, held, Caps(jobs, fulfil) \cup {s},
               Hands(jobs, fulfil), Talking(stack))
    BY ONLY <1>4, <2>1, SpokenGrows
  <2>3. held' = held /\ Talking(stack') = Talking(stack)
    BY <1>2
  <2> QED BY ONLY <1>5, <1>6, <2>2, <2>3
<1>8. \A o : Adopts(jobs, o) => Adopts(jobs', o)
  BY <1>2, <1>3, <1>4, AnswerParts, PerformAdopts
<1>9. AllHaveWay(state', promiseOf', resolved', jobs', stack')
  <2> SUFFICES ASSUME NEW o \in Promises, state'[o] = "pending"
               PROVE  HasWay(promiseOf', resolved', jobs', stack', o)
    BY DEF AllHaveWay
  <2>1. CASE o = p
    BY <1>4, <1>5, <2>1 DEF HasWay
  <2>2. CASE o # p
    <3>1. state[o] = "pending"
      BY <1>2, <2>2, AnswerParts DEF TypeInv, TypeOK
    <3>2. HasWay(promiseOf, resolved, jobs, stack, o)
      BY <3>1 DEF AnswerInv, Answering, AllHaveWay
    <3> QED BY <1>2, <1>5, <1>8, <3>2 DEF HasWay
  <2> QED BY <2>1, <2>2
<1>10. Shape(stack', held', phase')
  BY <1>2 DEF AnswerInv, Answering
<1> QED BY <1>5, <1>6, <1>7, <1>9, <1>10 DEF Answering

LEMMA AwaitAnswers ==
    ASSUME AnswerInv, \E p \in Promises : Await(p)
    PROVE  Answering'
<1>1. PICK q \in Promises : Await(q)
  OBVIOUS
<1>2. /\ state' = state /\ promiseOf' = promiseOf /\ resolved' = resolved
      /\ held' = held /\ stack' = stack /\ phase' = phase
      /\ PerformThen(q, ScriptHandler, ScriptHandler, None, jobs)
  BY <1>1 DEF Await, settlerVars, scriptVars, runVars
<1>3. ScriptHandler \in Handlers /\ ScriptHandler.settler = None
  BY DEF ScriptHandler, Handlers
<1>4. PICK f \in Handlers : f = ScriptHandler /\ f.settler = None
  BY <1>3
<1>5. /\ Caps(jobs', fulfil') = Caps(jobs, fulfil)
      /\ Hands(jobs', fulfil') = Hands(jobs, fulfil)
      /\ SoleCap(jobs', fulfil')
  <2>1. PICK s \in FreshSettlers \cup {None} : s = None
    OBVIOUS
  <2>2. PerformThen(q, f, f, s, jobs)
    BY <1>2, <1>4, <2>1
  <2>3. /\ Caps(jobs', fulfil') = Caps(jobs, fulfil) \cup ({s} \cap Settlers)
        /\ Hands(jobs', fulfil') = Hands(jobs, fulfil) \cup ({f.settler} \cap Settlers)
        /\ SoleCap(jobs, fulfil) => SoleCap(jobs', fulfil')
    BY <2>2, AnswerParts, RegistersCaps
  <2> QED BY <1>4, <2>1, <2>3, NoneAssumption DEF AnswerInv, Answering
<1>6. \A o : Adopts(jobs, o) => Adopts(jobs', o)
  BY <1>2, <1>3, AnswerParts, PerformAdopts
<1>7. AllHaveWay(state', promiseOf', resolved', jobs', stack')
  BY <1>2, <1>6 DEF AnswerInv, Answering, AllHaveWay, HasWay
<1> QED BY <1>2, <1>5, <1>7 DEF AnswerInv, Answering

LEMMA DrainingParts ==
    ASSUME AnswerInv, NEW job, Draining(job)
    PROVE  /\ jobs # <<>> /\ stack = <<>> /\ phase = "drain" /\ Head(jobs).job = job
           /\ Tail(jobs) \in Seq(Jobs) /\ Tail(jobs) \in Seq(MadeJobs(promiseOf))
           /\ Following(Tail(jobs)) /\ SoleCap(Tail(jobs), fulfil)
           /\ Talking(stack) = {} /\ \A o : ~Reads(stack, o)
<1>1. jobs # <<>> /\ stack = <<>> /\ phase = "drain" /\ Head(jobs).job = job
  BY DEF Draining
<1>2. Tail(jobs) \in Seq(Jobs) /\ Tail(jobs) \in Seq(MadeJobs(promiseOf))
  BY <1>1, AnswerParts, HeadType
<1>3. Following(Tail(jobs))
  BY <1>1, AnswerParts, TailFollows
<1>4. SoleCap(Tail(jobs), fulfil)
  BY <1>1, AnswerParts, TailCaps DEF AnswerInv, Answering
<1> QED BY <1>1, <1>2, <1>3, <1>4, NoFrame

LEMMA RunReactionAnswers == AnswerInv /\ RunReaction => Answering'
<1> SUFFICES ASSUME AnswerInv, RunReaction PROVE Answering'
  OBVIOUS
<1> DEFINE r == Head(jobs).reaction
           argument == Head(jobs).argument
           q == Tail(jobs)
           native == Frame("native", r.capability, None)
           handler == Frame("handler", r.capability, None)
           cap == r.capability
           hand == r.handler.settler
<1>1. Draining("reaction") /\ UNCHANGED <<promiseOf, scriptVars, runVars, made>>
  BY DEF RunReaction
<1>2. /\ jobs # <<>> /\ stack = <<>> /\ phase = "drain" /\ Head(jobs).job = "reaction"
      /\ q \in Seq(Jobs) /\ SoleCap(q, fulfil)
      /\ Talking(stack) = {} /\ \A o : ~Reads(stack, o)
  BY <1>1, DrainingParts
<1>3. r \in MadeReactions(promiseOf) /\ argument \in Data /\ argument \notin Promises
  BY <1>2, AnswerParts, HeadType, ValuesAssumption DEF Data
<1>4. /\ cap \in Made(promiseOf) \cup {None} /\ cap \in Settlers \cup {None}
      /\ r.handler.call \in {"script", "none"} => hand = None
      /\ r.handler.call \in {"resolve", "reject"} =>
            hand \in Made(promiseOf) /\ hand # None /\ hand \in Settlers
  BY <1>3, NoneAssumption DEF MadeReactions, Reactions, Handlers, Made
<1>5. /\ native \in Frames /\ native.code = "native" /\ native.settler = cap
      /\ handler \in Frames /\ handler.code = "handler" /\ handler.settler = cap
  BY <1>4 DEF Frame, Frames
<1>6. /\ Caps(jobs, fulfil) = Caps(q, fulfil) \cup ({cap} \cap Settlers)
      /\ cap \notin Caps(q, fulfil)
      /\ Hands(jobs, fulfil) = Hands(q, fulfil) \cup ({hand} \cap Settlers)
  BY <1>2, AnswerParts, TailCaps DEF AnswerInv, Answering
<1>7. Spoken(Openers(promiseOf, resolved), held, Caps(q, fulfil) \cup ({cap} \cap Settlers),
             Hands(q, fulfil) \cup ({hand} \cap Settlers), {})
  BY <1>2, <1>6 DEF AnswerInv, Answering
<1>8. \A o : Adopts(jobs, o) => Adopts(q, o)
  BY <1>2, AnswerParts, TailAdopts
<1>9. \A k : AllHaveWay(state, promiseOf, resolved, q, k)
  BY <1>2, <1>8 DEF AnswerInv, Answering, AllHaveWay, HasWay
<1>10. \/ /\ r.handler.call = "script"
          /\ NothingSettled(q, <<handler>>) /\ resolved' = resolved
       \/ /\ r.handler.call = "none"
          /\ \/ ResolveCapability(cap, argument, q, <<>>)
             \/ RejectCapability(cap, argument, q, <<>>)
       \/ /\ r.handler.call \in {"resolve", "reject"}
          /\ Resolve(hand, argument, q, <<native>>) \/ Reject(hand, argument, q, <<native>>)
  BY DEF RunReaction
<1>11. /\ UNCHANGED <<promiseOf, held, phase, made, runs>>
       /\ UnmadeFree(promiseOf, resolved)
  BY <1>1 DEF scriptVars, runVars, AnswerInv, Answering
<1>12. Hands(q, fulfil) \subseteq Settlers /\ Caps(q, fulfil) \subseteq Settlers
       /\ Openers(promiseOf, resolved) \subseteq Settlers
  BY DEF Hands, Caps, Openers
<1> HIDE DEF r, argument, q, native, handler, cap, hand
<1>13. CASE /\ r.handler.call = "script"
            /\ NothingSettled(q, <<handler>>) /\ resolved' = resolved
  <2>1. jobs' = q /\ stack' = <<handler>> /\ state' = state
    BY <1>13 DEF NothingSettled, promiseVars
  <2>2. Keeps(q)
    BY <1>11, <1>13, NothingDone DEF Keeps
  <2>3. PICK k : k = stack'
    OBVIOUS
  <2>4. Talking(k) = {cap} \cap Settlers /\ Shape(k, held, phase)
    BY <1>2, <1>5, <2>1, <2>3, OneFrame DEF Speaks
  <2>5. Spoken(Openers(promiseOf, resolved), held, Caps(q, fulfil), Hands(q, fulfil), Talking(k))
    BY <1>4, <1>6, <1>7, <1>13, <2>4, NoneAssumption DEF Spoken
  <2> QED BY <1>2, <1>9, <1>11, <1>13, <2>1, <2>2, <2>3, <2>4, <2>5, AnswerParts, Assemble
<1>14. CASE /\ r.handler.call = "none"
            /\ \/ ResolveCapability(cap, argument, q, <<>>)
               \/ RejectCapability(cap, argument, q, <<>>)
  <2>1. PICK rest \in Seq(Frames) : rest = <<>>
    BY EmptySeq
  <2>2. Talking(rest) = {} /\ Shape(rest, held, phase)
    BY <2>1, NoFrame
  <2>3. Spoken(Openers(promiseOf, resolved) \ {cap}, held, Caps(q, fulfil), Hands(q, fulfil),
               Talking(rest))
    BY <1>4, <1>6, <1>7, <1>12, <1>14, <2>2, NoneAssumption DEF Spoken
  <2> QED BY <1>2, <1>3, <1>4, <1>9, <1>11, <1>14, <2>1, <2>2, <2>3, AnswerParts, CallStep
<1>15. CASE /\ r.handler.call \in {"resolve", "reject"}
            /\ Resolve(hand, argument, q, <<native>>) \/ Reject(hand, argument, q, <<native>>)
  <2>0. <<native>> \in Seq(Frames)
    BY <1>5
  <2>1. PICK rest \in Seq(Frames) : rest = <<native>>
    BY <2>0
  <2>2. Talking(rest) = {cap} \cap Settlers /\ Shape(rest, held, phase)
    BY <1>2, <1>5, <2>1, OneFrame DEF Speaks
  <2>3. Spoken(Openers(promiseOf, resolved) \ {hand}, held, Caps(q, fulfil), Hands(q, fulfil),
               Talking(rest))
    BY <1>4, <1>6, <1>7, <1>12, <1>15, <2>2 DEF Spoken
  <2> QED BY <1>2, <1>3, <1>4, <1>9, <1>11, <1>15, <2>1, <2>2, <2>3, AnswerParts, CallStep
<1> QED BY <1>10, <1>13, <1>14, <1>15

LEMMA CallForeignThenAnswers == AnswerInv /\ CallForeignThen => Answering'
<1> SUFFICES ASSUME AnswerInv, CallForeignThen PROVE Answering'
  OBVIOUS
<1> DEFINE s == NewSettler
           p == Head(jobs).promise
           q == Tail(jobs)
           f == Frame("callThen", s, None)
<1>1. /\ Draining("thenable") /\ s \in FreshSettlers
      /\ promiseOf' = [promiseOf EXCEPT ![s] = p]
      /\ held' = held \cup {s} /\ resolved' = resolved /\ phase' = phase
      /\ made' = made /\ runs' = runs
      /\ NothingSettled(q, <<f>>)
  BY DEF CallForeignThen, NewSettler, runVars
<1>2. /\ jobs # <<>> /\ stack = <<>> /\ phase = "drain" /\ Head(jobs).job = "thenable"
      /\ q \in Seq(Jobs) /\ SoleCap(q, fulfil)
      /\ Talking(stack) = {} /\ \A o : ~Reads(stack, o)
  BY <1>1, DrainingParts
<1>3. p \in Promises
  BY <1>2, AnswerParts, HeadType
<1>4. /\ Caps(q, fulfil) = Caps(jobs, fulfil) /\ Hands(q, fulfil) = Hands(jobs, fulfil)
  BY <1>2, AnswerParts, TailCaps DEF AnswerInv, Answering
<1>5. \A o : Adopts(jobs, o) => Adopts(q, o) \/ o = p
  BY <1>2, AnswerParts, TailAdopts
<1> HIDE DEF s, p, q, f
<1>6. s \in Settlers /\ s \notin Caps(jobs, fulfil)
  BY <1>1, FreshIsNobodys
<1>7. f \in Frames /\ f.code = "callThen" /\ f.settler = s
  BY <1>6 DEF Frame, Frames, f
<1>8. /\ Openers(promiseOf', resolved') = Openers(promiseOf, resolved) \cup {s}
      /\ UnmadeFree(promiseOf', resolved')
      /\ Open(promiseOf', resolved', s) /\ promiseOf'[s] = p
      /\ \A t \in Settlers : Open(promiseOf, resolved, t) =>
            Open(promiseOf', resolved', t) /\ promiseOf'[t] = promiseOf[t]
  BY <1>1, <1>3, PairOpens
<1>9. jobs' = q /\ stack' = <<f>> /\ state' = state
  BY <1>1 DEF NothingSettled, promiseVars
<1>10. Keeps(q)
  BY <1>1, NothingDone DEF Keeps
<1>11. Talking(stack') = {} /\ Shape(stack', held', phase')
  <2>1. PICK k : k = stack'
    OBVIOUS
  <2>2. Talking(k) = {} /\ Shape(k, held', phase')
    BY <1>1, <1>2, <1>7, <1>9, <2>1, OneFrame DEF Speaks
  <2> QED BY <2>1, <2>2
<1>12. Spoken(Openers(promiseOf', resolved'), held', Caps(q, fulfil), Hands(q, fulfil),
              Talking(stack'))
  BY <1>1, <1>2, <1>4, <1>6, <1>8, <1>11, ZenonT(60) DEF AnswerInv, Answering, Spoken
<1>13. AllHaveWay(state', promiseOf', resolved', jobs', stack')
  <2> SUFFICES ASSUME NEW o \in Promises, state'[o] = "pending"
               PROVE  HasWay(promiseOf', resolved', jobs', stack', o)
    BY DEF AllHaveWay
  <2>1. CASE o = p
    BY <1>6, <1>8, <2>1 DEF HasWay
  <2>2. CASE o # p
    <3>1. HasWay(promiseOf, resolved, jobs, stack, o)
      BY <1>9 DEF AnswerInv, Answering, AllHaveWay
    <3> QED BY <1>2, <1>5, <1>8, <1>9, <2>2, <3>1 DEF HasWay
  <2> QED BY <2>1, <2>2
<1> QED BY <1>2, <1>8, <1>10, <1>11, <1>12, <1>13, AnswerParts, Assemble

LEMMA AdoptAnswers == AnswerInv /\ AdoptPromise => Answering'
<1> SUFFICES ASSUME AnswerInv, AdoptPromise PROVE Answering'
  OBVIOUS
<1> DEFINE s == NewSettler
           t == OtherSettler
           d == NewPromise
           p == Head(jobs).promise
           from == Head(jobs).thenable
           q == Tail(jobs)
           f == [call |-> "resolve", settler |-> s]
           g == [call |-> "reject", settler |-> s]
<1>1. /\ d \in FreshPromises /\ s \in FreshSettlers /\ t \in FreshSettlers \ {s}
  BY AnswerParts, AdoptType
<1>2. /\ Draining("thenable") /\ from \in Promises
      /\ promiseOf' = [promiseOf EXCEPT ![s] = p, ![t] = d]
      /\ state' = [state EXCEPT ![d] = "pending"]
      /\ PerformThen(from, f, g, t, q)
      /\ held' = held /\ resolved' = resolved /\ phase' = phase /\ stack' = stack
  BY DEF AdoptPromise, runVars, scriptVars
<1>3. /\ jobs # <<>> /\ stack = <<>> /\ phase = "drain" /\ Head(jobs).job = "thenable"
      /\ q \in Seq(Jobs) /\ q \in Seq(MadeJobs(promiseOf))
      /\ Following(q) /\ SoleCap(q, fulfil)
      /\ Talking(stack) = {} /\ \A o : ~Reads(stack, o)
  BY <1>2, DrainingParts
<1>4. p \in Promises /\ d \in Promises
  BY <1>1, <1>3, AnswerParts, HeadType DEF FreshPromises
<1>5. /\ Caps(q, fulfil) = Caps(jobs, fulfil) /\ Hands(q, fulfil) = Hands(jobs, fulfil)
  BY <1>3, AnswerParts, TailCaps DEF AnswerInv, Answering
<1>6. \A o : Adopts(jobs, o) => Adopts(q, o) \/ o = p
  BY <1>3, AnswerParts, TailAdopts
<1>7. f \in Handlers /\ g \in Handlers /\ f.settler = s /\ g.settler = s
  BY <1>1 DEF Handlers, FreshSettlers
<1> HIDE DEF s, t, d, p, from, q, f, g
<1>8. /\ s \in Settlers /\ s # None /\ s \notin Openers(promiseOf, resolved)
      /\ s \notin held /\ s \notin Caps(jobs, fulfil) /\ s \notin Hands(jobs, fulfil)
  BY <1>1, FreshIsNobodys
<1>9. /\ t \in Settlers /\ t # None /\ t # s /\ t \notin Openers(promiseOf, resolved)
      /\ t \notin held /\ t \notin Caps(jobs, fulfil) /\ t \notin Hands(jobs, fulfil)
  BY <1>1, FreshIsNobodys
<1>10. /\ Openers(promiseOf', resolved') = Openers(promiseOf, resolved) \cup {s, t}
       /\ UnmadeFree(promiseOf', resolved')
       /\ Open(promiseOf', resolved', s) /\ promiseOf'[s] = p
       /\ Open(promiseOf', resolved', t) /\ promiseOf'[t] = d
       /\ \A u \in Settlers : Open(promiseOf, resolved, u) =>
             Open(promiseOf', resolved', u) /\ promiseOf'[u] = promiseOf[u]
  <2>1. /\ promiseOf[s] = None /\ promiseOf[t] = None /\ p # None /\ d # None
        /\ ~resolved[s] /\ ~resolved[t]
        /\ promiseOf \in [Settlers -> Promises \cup {None}]
    BY <1>1, <1>4, AnswerParts, NoneAssumption
       DEF FreshSettlers, TypeInv, TypeOK, AnswerInv, Answering, UnmadeFree
  <2>2. /\ promiseOf'[s] = p /\ promiseOf'[t] = d
        /\ \A u \in Settlers : u \notin {s, t} => promiseOf'[u] = promiseOf[u]
    BY <1>2, <1>8, <1>9, <2>1
  <2>3. \A u \in Settlers :
           Open(promiseOf', resolved', u) <=> Open(promiseOf, resolved, u) \/ u \in {s, t}
    BY <1>2, <2>1, <2>2 DEF Open
  <2>4. UnmadeFree(promiseOf', resolved')
    BY <1>2, <2>1, <2>2 DEF AnswerInv, Answering, UnmadeFree
  <2>5. Openers(promiseOf', resolved') = Openers(promiseOf, resolved) \cup {s, t}
    BY <1>8, <1>9, <2>3 DEF Openers
  <2>6. \A u \in Settlers : Open(promiseOf, resolved, u) => u \notin {s, t}
    BY <2>1 DEF Open
  <2> QED BY <1>8, <1>9, <2>2, <2>3, <2>4, <2>5, <2>6
<1>11. /\ Caps(jobs', fulfil') = Caps(jobs, fulfil) \cup {t}
       /\ Hands(jobs', fulfil') = Hands(jobs, fulfil) \cup {s}
       /\ SoleCap(jobs', fulfil')
  <2>1. /\ Caps(jobs', fulfil') = Caps(q, fulfil) \cup ({t} \cap Settlers)
        /\ Hands(jobs', fulfil') = Hands(q, fulfil) \cup ({f.settler} \cap Settlers)
        /\ SoleCap(q, fulfil) => SoleCap(jobs', fulfil')
    BY <1>1, <1>2, <1>3, <1>7, AnswerParts, RegistersCaps
  <2> QED BY <1>3, <1>5, <1>7, <1>8, <1>9, <2>1
<1>12. Spoken(Openers(promiseOf', resolved'), held', Caps(jobs', fulfil'),
              Hands(jobs', fulfil'), Talking(stack'))
  <2>1. Spoken(Openers(promiseOf, resolved), held, Caps(jobs, fulfil), Hands(jobs, fulfil), {})
    BY <1>3 DEF AnswerInv, Answering
  <2>2. Spoken(Openers(promiseOf, resolved) \cup {s, t}, held, Caps(jobs, fulfil) \cup {t},
               Hands(jobs, fulfil) \cup {s}, {})
    BY <1>8, <1>9, <2>1 DEF Spoken
  <2> QED BY <1>2, <1>3, <1>10, <1>11, <2>2
<1>13. \A o : Adopts(q, o) => Adopts(jobs', o)
  BY <1>2, <1>3, <1>7, <1>9, AnswerParts, PerformAdopts
<1>14. AllHaveWay(state', promiseOf', resolved', jobs', stack')
  <2> SUFFICES ASSUME NEW o \in Promises, state'[o] = "pending"
               PROVE  HasWay(promiseOf', resolved', jobs', stack', o)
    BY DEF AllHaveWay
  <2>1. CASE o = p \/ o = d
    BY <1>8, <1>9, <1>10, <2>1 DEF HasWay
  <2>2. CASE o # p /\ o # d
    <3>1. state[o] = "pending"
      BY <1>2, <2>2, AnswerParts DEF TypeInv, TypeOK
    <3>2. HasWay(promiseOf, resolved, jobs, stack, o)
      BY <3>1 DEF AnswerInv, Answering, AllHaveWay
    <3> QED BY <1>3, <1>6, <1>10, <1>13, <2>2, <3>2 DEF HasWay
  <2> QED BY <2>1, <2>2
<1>15. Shape(stack', held', phase')
  BY <1>2, <1>3, NoFrame
<1> QED BY <1>10, <1>11, <1>12, <1>14, <1>15 DEF Answering

(* What begins and ends runs leaves the promises and the pairs alone.      *)
LEMMA RunStepAnswers ==
    ASSUME AnswerInv, StartRun \/ Stop \/ ScriptEnds \/ FinishDrain \/ UNCHANGED vars
    PROVE  Answering'
<1>1. /\ state' = state /\ promiseOf' = promiseOf /\ resolved' = resolved
      /\ jobs' = jobs /\ fulfil' = fulfil /\ held' = held
  BY DEF StartRun, BeginRun, Stop, ScriptEnds, FinishDrain, vars,
         promiseVars, settlerVars, scriptVars
<1>2. Shape(stack', held, phase') /\ Talking(stack') = Talking(stack)
      /\ \A o : Reads(stack, o) => Reads(stack', o)
  <2>1. CASE StartRun
    <3> DEFINE f == Frame("script", None, None)
    <3>1. stack = <<>> /\ stack' = <<f>> /\ phase' = "script"
      BY <2>1 DEF StartRun, BeginRun, AnswerInv, Answering, Shape
    <3>2. f \in Frames /\ f.code = "script" /\ f.settler = None
      BY DEF Frame, Frames
    <3> HIDE DEF f
    <3>3. PICK k : k = stack'
      OBVIOUS
    <3>4. Talking(k) = {} /\ Shape(k, held, phase')
      BY <3>1, <3>2, <3>3, OneFrame DEF Speaks
    <3> QED BY <3>1, <3>3, <3>4, NoFrame
  <2>2. CASE ScriptEnds
    <3>1. stack # <<>> /\ Top.code = "script" /\ stack' = Pop(stack)
      BY <2>2 DEF ScriptEnds
    <3>2. /\ Pop(stack) = <<>> /\ Talking(stack) = Talking(Pop(stack))
          /\ \A p : Reads(stack, p) => Reads(Pop(stack), p)
      BY <3>1, AnswerParts, PopTalks DEF AnswerInv, Answering, Speaks
    <3> QED BY <3>1, <3>2, NoFrame
  <2>3. CASE FinishDrain
    BY <2>3, NoFrame DEF FinishDrain
  <2>4. CASE Stop \/ UNCHANGED vars
    BY <2>4 DEF Stop, vars, runVars, AnswerInv, Answering
  <2> QED BY <2>1, <2>2, <2>3, <2>4
<1>3. AllHaveWay(state, promiseOf, resolved, jobs, stack')
  BY <1>2 DEF AnswerInv, Answering, AllHaveWay, HasWay
<1> QED BY <1>1, <1>2, <1>3 DEF AnswerInv, Answering

LEMMA NextAnswers == AnswerInv /\ [Next]_vars => AnswerInv'
<1> SUFFICES ASSUME AnswerInv, [Next]_vars PROVE AnswerInv'
  OBVIOUS
<1>1. ReactionInv'
  BY NextFollows DEF AnswerInv
<1>2. CASE StartRun \/ Stop \/ FinishDrain \/ UNCHANGED vars
  BY <1>1, <1>2, RunStepAnswers DEF AnswerInv
<1>3. CASE ScriptCalls
  BY <1>1, <1>3, ConstructAnswers, CallAnswers, ThenAnswers, AwaitAnswers
     DEF AnswerInv, ScriptCalls
<1>4. CASE ScriptAnswers
  BY <1>1, <1>4, GetterAnswers, HandlerAnswers, ThenMethodAnswers, RunStepAnswers
     DEF AnswerInv, ScriptAnswers
<1>5. CASE EngineSteps
  BY <1>1, <1>5, HandlerAnswers, RunReactionAnswers, AdoptAnswers, CallForeignThenAnswers,
     RunStepAnswers DEF AnswerInv, EngineSteps
<1> QED BY <1>2, <1>3, <1>4, <1>5 DEF Next

LEMMA InitAnswers == Init => AnswerInv
<1> SUFFICES ASSUME Init PROVE AnswerInv
  OBVIOUS
<1>1. /\ jobs = <<>> /\ stack = <<>> /\ \A p \in Promises : fulfil[p] = <<>> /\ state[p] = "absent"
      /\ \A s \in Settlers : promiseOf[s] = None /\ ~resolved[s]
  BY DEF Init
<1>2. \A r : ~WaitsAs(jobs, fulfil, r)
  BY <1>1 DEF WaitsAs
<1>3. /\ Caps(jobs, fulfil) = {} /\ Hands(jobs, fulfil) = {} /\ SoleCap(jobs, fulfil)
      /\ Talking(stack) = {} /\ Shape(stack, held, phase)
  BY <1>1, <1>2, NoFrame DEF Caps, Hands, SoleCap
<1>4. Openers(promiseOf, resolved) = {} /\ UnmadeFree(promiseOf, resolved)
  BY <1>1 DEF Openers, Open, UnmadeFree
<1>5. AllHaveWay(state, promiseOf, resolved, jobs, stack)
  BY <1>1 DEF AllHaveWay
<1> QED BY <1>3, <1>4, <1>5, InitFollows DEF AnswerInv, Answering, Spoken

(* The lists and the queue, as the property names what waits in them.      *)
LEMMA WaitingReactionsAre ==
    ASSUME TypeInv, Listing
    PROVE  /\ \A r : WaitsAs(jobs, fulfil, r) => r \in WaitingReactions
           /\ \A w \in WaitingReactions : \E r :
                 /\ WaitsAs(jobs, fulfil, r) /\ r.capability = w.capability
                 /\ r.handler.settler = w.handler.settler /\ r.of = w.of
<1>1. \A r : r \in QueuedReactions
          <=> \E i \in DOMAIN jobs : IsReaction(jobs, i) /\ r = jobs[i].reaction
  BY DEF QueuedReactions, IsReaction
<1>2. \A r : r \in WaitingReactions
          <=> \/ r \in QueuedReactions
              \/ \E p \in Promises : r \in ListsOf(p)
  BY DEF WaitingReactions
<1>3. \A p \in Promises : \A r :
         r \in ListsOf(p) <=> \/ \E i \in DOMAIN fulfil[p] : r = fulfil[p][i]
                              \/ \E i \in DOMAIN reject[p] : r = reject[p][i]
  BY DEF ListsOf, Range
<1>4. \A r : WaitsAs(jobs, fulfil, r) => r \in WaitingReactions
  BY <1>1, <1>2, <1>3 DEF WaitsAs
<1>5. ASSUME NEW w \in WaitingReactions
      PROVE  \E r : /\ WaitsAs(jobs, fulfil, r) /\ r.capability = w.capability
                    /\ r.handler.settler = w.handler.settler /\ r.of = w.of
  <2>1. CASE w \in QueuedReactions
    BY <1>1, <2>1 DEF WaitsAs
  <2>2. CASE \E p \in Promises : w \in ListsOf(p)
    <3>1. PICK p \in Promises : w \in ListsOf(p)
      BY <2>2
    <3>2. CASE \E i \in DOMAIN fulfil[p] : w = fulfil[p][i]
      BY <3>2 DEF WaitsAs
    <3>3. CASE \E i \in DOMAIN reject[p] : w = reject[p][i]
      <4>1. PICK i \in DOMAIN reject[p] : w = reject[p][i]
        BY <3>3
      <4>2. i \in DOMAIN fulfil[p] /\ Twins(fulfil[p][i], reject[p][i])
            /\ fulfil[p][i].of = p /\ reject[p][i].of = p
        BY <4>1, ListsTyped DEF Listing, Listed, Orderly
      <4> QED BY <4>1, <4>2 DEF WaitsAs, Twins
    <3> QED BY <1>3, <3>1, <3>2, <3>3
  <2> QED BY <1>2, <2>1, <2>2
<1> QED BY <1>4, <1>5

(* No pending promise is left with nobody able to answer it, whatever is   *)
(* settled, adopted, interrupted or thrown: each has an unclaimed pair, a  *)
(* queued adoption or a getter being read; whoever has an unclaimed pair   *)
(* is a script, a reaction that waits or an execution in progress; and     *)
(* what a reaction is to answer through has not been spent before it does. *)
THEOREM AlwaysAnswerable == Spec => []Answerable
<1>1. AnswerInv => Answerable
  <2> SUFFICES ASSUME AnswerInv PROVE Answerable
    OBVIOUS
  <2> DEFINE waiting == {r.capability : r \in WaitingReactions}
                          \cup {r.handler.settler : r \in WaitingReactions}
             running == {stack[i].settler : i \in DOMAIN stack}
             talking == {stack[i].settler : i \in
                          {j \in DOMAIN stack : stack[j].code \in {"handler", "native"}}}
             spoken == {r.capability : r \in WaitingReactions} \cup talking
  <2>1. /\ \A r : WaitsAs(jobs, fulfil, r) => r \in WaitingReactions
        /\ \A w \in WaitingReactions : \E r :
              /\ WaitsAs(jobs, fulfil, r) /\ r.capability = w.capability
              /\ r.handler.settler = w.handler.settler
    BY AnswerParts, WaitingReactionsAre
  <2>2. Spoken(Openers(promiseOf, resolved), held, Caps(jobs, fulfil),
               Hands(jobs, fulfil), Talking(stack))
    BY DEF AnswerInv, Answering
  <2>3. \A s \in Settlers : Unclaimed(s) <=> s \in Openers(promiseOf, resolved)
    BY DEF Unclaimed, Openers, Open
  <2>4. Caps(jobs, fulfil) \subseteq waiting /\ Hands(jobs, fulfil) \subseteq waiting
    BY <2>1 DEF Caps, Hands
  <2>5. Talking(stack) \subseteq running /\ talking \cap Settlers \subseteq Talking(stack)
    BY DEF Talking, Speaks
  <2>6. \A s \in Settlers : s \in spoken => s \in Caps(jobs, fulfil) \cup Talking(stack)
    BY <2>1, <2>5 DEF Caps
  <2>7. spoken \subseteq Settlers \cup {None}
    <3>1. \A r : WaitsAs(jobs, fulfil, r) => r.capability \in Settlers \cup {None}
      BY AnswerParts, WaitingOld DEF Made
    <3>2. \A i \in DOMAIN stack : stack[i].settler \in Settlers \cup {None}
      <4>1. \A i \in DOMAIN stack : stack[i] \in Frames
        BY AnswerParts
      <4> QED BY <4>1 DEF Frames
    <3> QED BY <2>1, <3>1, <3>2
  <2>8. \A s \in Settlers : Unclaimed(s) => s \in held \cup waiting \cup running
    BY <2>2, <2>3, <2>4, <2>5 DEF Spoken
  <2>9. \A s \in spoken \ {None} : Unclaimed(s)
    BY <2>2, <2>3, <2>6, <2>7 DEF Spoken
  <2>10. \A p \in Promises : state[p] = "pending" =>
              \/ \E s \in Settlers : Unclaimed(s) /\ promiseOf[s] = p
              \/ \E i \in DOMAIN jobs : IsThenableJob(i, p)
              \/ \E i \in DOMAIN stack : IsGetter(i, p)
    BY DEF AnswerInv, Answering, AllHaveWay, HasWay, Adopts, Reads, Open, Unclaimed,
           ThenableFor, GetterFor, IsThenableJob, IsGetter
  <2> HIDE DEF waiting, running
  <2> QED BY <2>8, <2>9, <2>10 DEF Answerable, waiting, running
<1> QED BY <1>1, InitAnswers, NextAnswers, PTL DEF Spec

-----------------------------------------------------------------------------
(* PromiseJobs implements PromiseFate.  A promise is locked to another by  *)
(* a queued adoption, or by the reaction an adoption registered, which is  *)
(* tied to the promise it waits for by the pair its handlers name.         *)

Asks(q, p, o) == \E i \in DOMAIN q : ThenableFor(q, i, p) /\ q[i].thenable = o
Ties(q, lists, s, o) ==
    \E r : WaitsAs(q, lists, r) /\ r.handler.settler = s /\ r.of = o
Locks(q, lists, po, rs, p, o) ==
    \/ Asks(q, p, o)
    \/ \E s \in Settlers : Open(po, rs, s) /\ po[s] = p /\ Ties(q, lists, s, o)

(* The resolving functions of one pair are the handlers of one reaction,   *)
(* the one that applies to how the promise ended.                          *)
Apt(r) == /\ r.handler.call = "resolve" => r.kind = "fulfil"
          /\ r.handler.call = "reject" => r.kind = "reject"
ListsApt(f, r) == \A p \in Promises : /\ \A i \in DOMAIN f[p] : Apt(f[p][i])
                                      /\ \A i \in DOMAIN r[p] : Apt(r[p][i])
QueueApt(q) == \A i \in DOMAIN q : IsReaction(q, i) => Apt(q[i].reaction)

(* Nobody else has such a pair, and no promise is locked to itself.        *)
Locking(q, lists, po, given) ==
    /\ \A s \in Settlers : \A o, y : Ties(q, lists, s, o) /\ Ties(q, lists, s, y) => o = y
    /\ \A s \in Settlers : \A o : Ties(q, lists, s, o) => s \notin given /\ po[s] # o
    /\ \A p, o : Asks(q, p, o) => p # o

Fating == /\ QueueApt(jobs) /\ ListsApt(fulfil, reject)
          /\ Locking(jobs, fulfil, promiseOf, held)
FateInv == AnswerInv /\ Fating

-----------------------------------------------------------------------------
(* What operations do to what waits.                                       *)

LEMMA KeepsTies ==
    ASSUME TypeInv, Listing, NEW queue \in Seq(Jobs), Keeps(queue)
    PROVE  \A s, o : Ties(jobs', fulfil', s, o) <=> Ties(queue, fulfil, s, o)
<1>1. /\ \A r : WaitsAs(queue, fulfil, r) =>
            \E w : WaitsAs(jobs', fulfil', w) /\ Matches(r, w)
      /\ \A w : WaitsAs(jobs', fulfil', w) =>
            \E r : WaitsAs(queue, fulfil, r) /\ Matches(r, w)
  BY KeepsWaiting
<1>2. \A r, w : Matches(r, w) => r.of = w.of /\ r.handler.settler = w.handler.settler
  BY DEF Matches, Twins
<1> QED BY <1>1, <1>2 DEF Ties

LEMMA SettleQueue ==
    ASSUME TypeInv, NEW p \in Promises, NEW to \in {"fulfilled", "rejected"}, NEW value,
           NEW queue \in Seq(Jobs), NEW rest, Settle(p, to, value, queue, rest)
    PROVE  /\ \A o, y : Asks(jobs', o, y) <=> Asks(queue, o, y)
           /\ QueueApt(queue) /\ ListsApt(fulfil, reject) =>
                 QueueApt(jobs') /\ ListsApt(fulfil', reject')
<1> DEFINE taken == IF to = "fulfilled" THEN fulfil[p] ELSE reject[p]
<1>1. taken \in Seq(Reactions) /\ jobs' = queue \o JobsOf(taken, value)
  BY ListsTyped DEF Settle
<1>2. /\ fulfil \in [Promises -> Seq(Reactions)] /\ reject \in [Promises -> Seq(Reactions)]
      /\ fulfil' = [fulfil EXCEPT ![p] = <<>>] /\ reject' = [reject EXCEPT ![p] = <<>>]
  BY DEF TypeInv, TypeOK, Settle
<1>3. ListsApt(fulfil, reject) =>
         ListsApt(fulfil', reject') /\ \A i \in DOMAIN taken : Apt(taken[i])
  BY <1>2 DEF ListsApt
<1> HIDE DEF taken
<1>4. Joined(jobs', queue, taken, value) /\ DOMAIN queue = 1..Len(queue)
      /\ DOMAIN taken = 1..Len(taken) /\ Len(queue) \in Nat /\ Len(taken) \in Nat
  BY <1>1, JobsAre
<1>5. /\ \A i \in DOMAIN queue : i \in DOMAIN jobs' /\ jobs'[i] = queue[i]
      /\ \A i \in DOMAIN jobs' :
            \/ i \in DOMAIN queue /\ jobs'[i] = queue[i]
            \/ \E j \in DOMAIN taken : jobs'[i] = ReactionJob(taken[j], value)
  BY <1>4 DEF Joined
<1>6. \A r : /\ ReactionJob(r, value).job = "reaction"
             /\ ReactionJob(r, value).reaction = r
  BY DEF ReactionJob
<1>7. \A o, y : Asks(jobs', o, y) <=> Asks(queue, o, y)
  BY <1>5, <1>6 DEF Asks, ThenableFor
<1>8. ASSUME QueueApt(queue), ListsApt(fulfil, reject) PROVE QueueApt(jobs')
  BY <1>3, <1>5, <1>6, <1>8 DEF QueueApt, IsReaction
<1> QED BY <1>3, <1>7, <1>8

LEMMA AppendQueue ==
    ASSUME NEW queue \in Seq(Jobs), NEW job \in Jobs, NEW q, q = Append(queue, job)
    PROVE  /\ \A o, y : Asks(q, o, y) <=>
                 \/ Asks(queue, o, y)
                 \/ job.job = "thenable" /\ o = job.promise /\ y = job.thenable
           /\ QueueApt(queue) /\ (job.job = "reaction" => Apt(job.reaction)) => QueueApt(q)
<1>1. /\ \A i \in DOMAIN queue : i \in DOMAIN q /\ q[i] = queue[i]
      /\ Len(queue) + 1 \in DOMAIN q /\ q[Len(queue) + 1] = job
      /\ \A i \in DOMAIN q : i \in DOMAIN queue \/ i = Len(queue) + 1
  OBVIOUS
<1>2. \A o, y : Asks(q, o, y) <=>
         \/ Asks(queue, o, y)
         \/ job.job = "thenable" /\ o = job.promise /\ y = job.thenable
  BY <1>1 DEF Asks, ThenableFor
<1>3. ASSUME QueueApt(queue), job.job = "reaction" => Apt(job.reaction) PROVE QueueApt(q)
  BY <1>1, <1>3 DEF QueueApt, IsReaction
<1> QED BY <1>2, <1>3

LEMMA RegistersQueue ==
    ASSUME TypeInv, NEW p \in Promises, NEW f \in Handlers, NEW g \in Handlers,
           f.settler = g.settler, NEW s \in Settlers \cup {None},
           NEW queue \in Seq(Jobs), PerformThen(p, f, g, s, queue)
    PROVE  /\ \A o, y : Asks(jobs', o, y) <=> Asks(queue, o, y)
           /\ \A t, o : Ties(jobs', fulfil', t, o) <=>
                 Ties(queue, fulfil, t, o) \/ (t = f.settler /\ o = p)
           /\ QueueApt(queue) /\ ListsApt(fulfil, reject)
                 /\ f.call # "reject" /\ g.call # "resolve" =>
                 QueueApt(jobs') /\ ListsApt(fulfil', reject')
<1> DEFINE r == [id |-> made, of |-> p, kind |-> "fulfil", handler |-> f, capability |-> s]
           w == [id |-> made, of |-> p, kind |-> "reject", handler |-> g, capability |-> s]
           v == ReactionTo(p, r, w)
           job == ReactionJob(v, result[p])
<1>1. /\ \/ /\ fulfil' = [fulfil EXCEPT ![p] = Append(@, r)]
            /\ reject' = [reject EXCEPT ![p] = Append(@, w)]
            /\ jobs' = queue
         \/ /\ jobs' = Append(queue, job)
            /\ fulfil' = fulfil /\ reject' = reject
  BY DEF PerformThen
<1>2. r \in Reactions /\ w \in Reactions /\ v \in {r, w}
  BY DEF ReactionTo, Reactions, TypeInv, TypeOK
<1>3. job \in Jobs /\ job.job = "reaction" /\ job.reaction = v
  BY <1>2 DEF Jobs, ReactionJobs, ReactionJob, TypeInv, TypeOK
<1>4. /\ r.of = p /\ r.handler.settler = f.settler /\ v.of = p /\ v.handler.settler = f.settler
      /\ f.call # "reject" /\ g.call # "resolve" => Apt(r) /\ Apt(w) /\ Apt(v)
  BY <1>2 DEF Apt
<1>5. /\ fulfil \in [Promises -> Seq(Reactions)] /\ reject \in [Promises -> Seq(Reactions)]
  BY DEF TypeInv, TypeOK
<1> HIDE DEF r, w, v, job
<1>6. CASE /\ fulfil' = [fulfil EXCEPT ![p] = Append(@, r)]
           /\ reject' = [reject EXCEPT ![p] = Append(@, w)]
           /\ jobs' = queue
  <2>1. /\ fulfil[p] \in Seq(Reactions) /\ fulfil'[p] = Append(fulfil[p], r)
        /\ reject[p] \in Seq(Reactions) /\ reject'[p] = Append(reject[p], w)
        /\ \A o \in Promises : o # p => fulfil'[o] = fulfil[o] /\ reject'[o] = reject[o]
    BY <1>5, <1>6
  <2>2. PICK a \in Seq(Reactions), b \in Seq(Reactions) :
           a = fulfil[p] /\ b = reject[p] /\ fulfil'[p] = Append(a, r) /\ reject'[p] = Append(b, w)
    BY <2>1
  <2>3. PICK c, d : c = Append(a, r) /\ d = Append(b, w)
    OBVIOUS
  <2>4. /\ \A i \in DOMAIN a : i \in DOMAIN c /\ c[i] = a[i]
        /\ Len(a) + 1 \in DOMAIN c /\ c[Len(a) + 1] = r
        /\ \A i \in DOMAIN c : i \in DOMAIN a \/ i = Len(a) + 1
    BY <2>3
  <2>5. /\ \A i \in DOMAIN b : i \in DOMAIN d /\ d[i] = b[i]
        /\ Len(b) + 1 \in DOMAIN d /\ d[Len(b) + 1] = w
        /\ \A i \in DOMAIN d : i \in DOMAIN b \/ i = Len(b) + 1
    BY <2>3
  <2>6. \A x : (\E i \in DOMAIN c : c[i] = x) <=> (\E i \in DOMAIN a : a[i] = x) \/ x = r
    BY <2>4
  <2>7. \A x : WaitsAs(jobs', fulfil', x) <=> WaitsAs(queue, fulfil, x) \/ x = r
    <3>1. fulfil'[p] = c /\ fulfil[p] = a
      BY <2>2, <2>3
    <3>2. \A x : (\E i \in DOMAIN fulfil'[p] : fulfil'[p][i] = x)
                   <=> (\E i \in DOMAIN fulfil[p] : fulfil[p][i] = x) \/ x = r
      BY <2>6, <3>1
    <3>3. jobs' = queue /\ \A o \in Promises : o # p => fulfil'[o] = fulfil[o]
      BY <1>6, <2>1
    <3> QED BY <3>2, <3>3, SMTT(30) DEF WaitsAs
  <2>8. \A t, o : Ties(jobs', fulfil', t, o) <=>
                 Ties(queue, fulfil, t, o) \/ (t = f.settler /\ o = p)
    BY <1>4, <2>7 DEF Ties
  <2>9. ASSUME ListsApt(fulfil, reject), Apt(r), Apt(w) PROVE ListsApt(fulfil', reject')
    <3>1. (\A i \in DOMAIN a : Apt(a[i])) /\ \A i \in DOMAIN b : Apt(b[i])
      BY <2>2, <2>9 DEF ListsApt
    <3>2. (\A i \in DOMAIN c : Apt(c[i])) /\ \A i \in DOMAIN d : Apt(d[i])
      BY <2>4, <2>5, <2>9, <3>1
    <3> QED BY <2>1, <2>2, <2>3, <2>9, <3>2 DEF ListsApt
  <2> QED BY <1>4, <1>6, <2>8, <2>9
<1>7. CASE /\ jobs' = Append(queue, job)
           /\ fulfil' = fulfil /\ reject' = reject
  <2>1. /\ \A o, y : Asks(jobs', o, y) <=> Asks(queue, o, y)
        /\ QueueApt(queue) /\ Apt(v) => QueueApt(jobs')
    BY <1>3, <1>7, AppendQueue
  <2>2. /\ \A i \in DOMAIN queue : i \in DOMAIN jobs' /\ jobs'[i] = queue[i]
        /\ Len(queue) + 1 \in DOMAIN jobs' /\ jobs'[Len(queue) + 1] = job
        /\ \A i \in DOMAIN jobs' : i \in DOMAIN queue \/ i = Len(queue) + 1
    BY <1>7
  <2>3. \A x : WaitsAs(jobs', fulfil', x) <=> WaitsAs(queue, fulfil, x) \/ x = v
    BY <1>3, <1>7, <2>2 DEF WaitsAs, IsReaction
  <2>4. \A t, o : Ties(jobs', fulfil', t, o) <=>
                 Ties(queue, fulfil, t, o) \/ (t = f.settler /\ o = p)
    BY <1>4, <2>3 DEF Ties
  <2> QED BY <1>4, <1>7, <2>1, <2>4
<1> QED BY <1>1, <1>6, <1>7

LEMMA TailQueue ==
    ASSUME TypeInv, jobs # <<>>
    PROVE  LET r == Head(jobs).reaction
           IN  /\ \A o, y : Asks(jobs, o, y) <=>
                     \/ Asks(Tail(jobs), o, y)
                     \/ /\ Head(jobs).job = "thenable" /\ o = Head(jobs).promise
                        /\ y = Head(jobs).thenable
               /\ \A s, o : Ties(jobs, fulfil, s, o) <=>
                     \/ Ties(Tail(jobs), fulfil, s, o)
                     \/ Head(jobs).job = "reaction" /\ s = r.handler.settler /\ o = r.of
               /\ QueueApt(jobs) => /\ QueueApt(Tail(jobs))
                                    /\ Head(jobs).job = "reaction" => Apt(r)
<1> DEFINE q == Tail(jobs)
           h == Head(jobs)
<1>1. jobs \in Seq(Jobs)
  BY DEF TypeInv, TypeOK, Jobs
<1>2. /\ h = jobs[1] /\ 1 \in DOMAIN jobs
      /\ \A i \in DOMAIN q : i \in Nat /\ i + 1 \in DOMAIN jobs /\ q[i] = jobs[i + 1]
      /\ \A i \in DOMAIN jobs : i # 1 => i - 1 \in DOMAIN q /\ q[i - 1] = jobs[i]
  BY <1>1, HeadTailProperties
<1> HIDE DEF q, h
<1>3. \A o, y : Asks(jobs, o, y) <=>
         \/ Asks(q, o, y)
         \/ h.job = "thenable" /\ o = h.promise /\ y = h.thenable
  BY <1>2 DEF Asks, ThenableFor
<1>4. \A x : WaitsAs(jobs, fulfil, x) <=>
         \/ WaitsAs(q, fulfil, x)
         \/ h.job = "reaction" /\ x = h.reaction
  BY <1>2 DEF WaitsAs, IsReaction
<1>5. \A s, o : Ties(jobs, fulfil, s, o) <=>
         \/ Ties(q, fulfil, s, o)
         \/ h.job = "reaction" /\ s = h.reaction.handler.settler /\ o = h.reaction.of
  BY <1>4 DEF Ties
<1>6. ASSUME QueueApt(jobs)
      PROVE  QueueApt(q) /\ (h.job = "reaction" => Apt(h.reaction))
  BY <1>2, <1>6 DEF QueueApt, IsReaction
<1> QED BY <1>3, <1>5, <1>6 DEF q, h

-----------------------------------------------------------------------------
(* What a step may do to a promise, in the terms of PromiseFate.           *)

Locked(p, o) == Locks(jobs, fulfil, promiseOf, resolved, p, o)
Relocked(p, o) == Locks(jobs', fulfil', promiseOf', resolved', p, o)
Free(p) == \A o \in Promises : ~Locked(p, o)
Freed(p) == \A o \in Promises : ~Relocked(p, o)

Same(p) == /\ state'[p] = state[p] /\ (state[p] # "pending" => result'[p] = result[p])
           /\ \A o \in Promises : Relocked(p, o) <=> Locked(p, o)
Ends(p, to, value) == state'[p] = to /\ result'[p] = value

Creates(p) == state[p] = "absent" /\ state'[p] = "pending" /\ Freed(p)
Binds(p) == /\ state[p] = "pending" /\ Free(p) /\ state'[p] = "pending"
            /\ \E q \in Promises \ {p} : Exists(q) /\ Relocked(p, q)
Decides(p) ==
    /\ state[p] = "pending" /\ Free(p)
    /\ \E to \in {"fulfilled", "rejected"}, value \in Data : Ends(p, to, value)
Follows(p) ==
    /\ state[p] = "pending"
    /\ \E q \in Promises :
          /\ Locked(p, q) /\ state[q] \in {"fulfilled", "rejected"}
          /\ \/ Ends(p, state[q], result[q])
             \/ /\ state[q] = "fulfilled" /\ result[q] = ForeignObject
                /\ state'[p] = "pending" /\ Freed(p)
Moves == \/ \A p \in Promises : Same(p)
         \/ \E p \in Promises : /\ \A o \in Promises \ {p} : Same(o)
                                /\ Creates(p) \/ Binds(p) \/ Decides(p) \/ Follows(p)

LEMMA SettleEnds ==
    ASSUME TypeInv, NEW p \in Promises, NEW to, NEW value, NEW queue, NEW rest,
           Settle(p, to, value, queue, rest)
    PROVE  /\ Ends(p, to, value)
           /\ \A o \in Promises : o # p => state'[o] = state[o] /\ result'[o] = result[o]
  BY DEF Settle, Ends, TypeInv, TypeOK

LEMMA ResolvePromiseQueue ==
    ASSUME TypeInv, NEW p \in Promises, NEW x \in Data \cup Promises,
           NEW queue \in Seq(Jobs), NEW rest, ResolvePromise(p, x, queue, rest)
    PROVE  /\ \A o \in Promises : o # p => state'[o] = state[o] /\ result'[o] = result[o]
           /\ QueueApt(queue) /\ ListsApt(fulfil, reject) =>
                 QueueApt(jobs') /\ ListsApt(fulfil', reject')
           /\ \/ /\ \A o, y : Asks(jobs', o, y) <=> Asks(queue, o, y)
                 /\ \/ x \in Primitives /\ Ends(p, "fulfilled", x)
                    \/ x = p /\ Ends(p, "rejected", TypeError)
                    \/ /\ x = ForeignObject
                       /\ state'[p] = state[p] /\ result'[p] = result[p]
              \/ /\ x \in Promises \ {p}
                 /\ state'[p] = state[p] /\ result'[p] = result[p]
                 /\ \A o, y : Asks(jobs', o, y) <=> Asks(queue, o, y) \/ (o = p /\ y = x)
<1>1. CASE \/ x = p /\ Settle(p, "rejected", TypeError, queue, rest)
           \/ x \in Primitives /\ Settle(p, "fulfilled", x, queue, rest)
  <2>1. CASE x = p /\ Settle(p, "rejected", TypeError, queue, rest)
    BY <2>1, SettleEnds, SettleQueue
  <2>2. CASE x \in Primitives /\ Settle(p, "fulfilled", x, queue, rest)
    BY <2>2, SettleEnds, SettleQueue
  <2> QED BY <1>1, <2>1, <2>2
<1>2. CASE /\ x \in Promises \ {p}
           /\ NothingSettled(Append(queue, [job |-> "thenable", promise |-> p,
                                            thenable |-> x]), rest)
  <2> DEFINE job == [job |-> "thenable", promise |-> p, thenable |-> x]
  <2>1. job \in Jobs /\ job.job = "thenable" /\ job.promise = p /\ job.thenable = x
    BY <1>2 DEF Jobs, ThenableJobs
  <2>2. /\ jobs' = Append(queue, job) /\ state' = state /\ result' = result
        /\ fulfil' = fulfil /\ reject' = reject
    BY <1>2 DEF NothingSettled, promiseVars
  <2> HIDE DEF job
  <2>3. /\ \A o, y : Asks(jobs', o, y) <=> Asks(queue, o, y) \/ (o = p /\ y = x)
        /\ QueueApt(queue) => QueueApt(jobs')
    BY <2>1, <2>2, AppendQueue, ZenonT(60)
  <2> QED BY <1>2, <2>2, <2>3
<1>3. CASE /\ x = ForeignObject
           /\ NothingSettled(queue, Append(rest, Frame("getThen", None, p)))
  BY <1>3 DEF NothingSettled, promiseVars
<1> QED BY <1>1, <1>2, <1>3 DEF ResolvePromise

(* An unclaimed pair is the only thing its promise could be locked by.     *)
LEMMA OpenLocks ==
    ASSUME OneResolver, NEW s \in Settlers, Open(promiseOf, resolved, s),
           promiseOf[s] \in Promises
    PROVE  /\ state[promiseOf[s]] = "pending"
           /\ \A o : ~Asks(jobs, promiseOf[s], o)
           /\ \A o : Locked(promiseOf[s], o) <=> Ties(jobs, fulfil, s, o)
<1>1. /\ state[promiseOf[s]] = "pending" /\ \A o : ~Asks(jobs, promiseOf[s], o)
      /\ \A t \in Settlers : Open(promiseOf, resolved, t) /\ promiseOf[t] = promiseOf[s] => t = s
  BY DEF OneResolver, OnlyPendingIsResolvable, OneWayToResolve, Unclaimed, Open, Asks,
         ThenableFor, IsThenableJob
<1> QED BY <1>1 DEF Locked, Locks

(* A promise whose getter is being read is locked by nothing.              *)
LEMMA ReadingIsFree ==
    ASSUME OneResolver, NEW p \in Promises, Reads(stack, p)
    PROVE  state[p] = "pending" /\ \A o : ~Locked(p, o)
<1>1. /\ state[p] = "pending" /\ \A o : ~Asks(jobs, p, o)
      /\ \A t \in Settlers : Open(promiseOf, resolved, t) => promiseOf[t] # p
  BY DEF OneResolver, OnlyPendingIsResolvable, OneWayToResolve, Unclaimed, Open, Asks,
         ThenableFor, IsThenableJob, Reads, GetterFor, IsGetter
<1> QED BY <1>1 DEF Locked, Locks

(* One of the two functions of a pair is called, starting from a queue     *)
(* that has lost at most what tied this pair's promise.                    *)
LEMMA FunctionMoves ==
    ASSUME TypeInv, OneResolver, Listing, NEW s \in Made(promiseOf),
           NEW x \in Data \cup Promises, x \in Promises => Exists(x),
           NEW queue \in Seq(Jobs), NEW rest \in Seq(Frames),
           UNCHANGED <<promiseOf, made, runs>>,
           Resolve(s, x, queue, rest) \/ (x \in Data /\ Reject(s, x, queue, rest)),
           \A o, y : Asks(queue, o, y) <=> Asks(jobs, o, y),
           \A t \in Settlers \ {s} : \A o :
               Ties(queue, fulfil, t, o) <=> Ties(jobs, fulfil, t, o)
    PROVE  /\ \A o \in Promises : o # promiseOf[s] \/ resolved[s] => Same(o)
           /\ QueueApt(queue) /\ ListsApt(fulfil, reject) =>
                 QueueApt(jobs') /\ ListsApt(fulfil', reject')
           /\ \A given : Locking(queue, fulfil, promiseOf, given) =>
                 Locking(jobs', fulfil', promiseOf', given)
           /\ ~resolved[s] =>
                 /\ state[promiseOf[s]] = "pending"
                 /\ \A o : Locked(promiseOf[s], o) <=> Ties(jobs, fulfil, s, o)
           /\ ~resolved[s] /\ Reject(s, x, queue, rest) => Ends(promiseOf[s], "rejected", x)
           /\ ~resolved[s] /\ Resolve(s, x, queue, rest) =>
                 \/ x \in Primitives /\ Ends(promiseOf[s], "fulfilled", x)
                 \/ x = promiseOf[s] /\ Ends(promiseOf[s], "rejected", TypeError)
                 \/ x = ForeignObject /\ state'[promiseOf[s]] = "pending" /\ Freed(promiseOf[s])
                 \/ /\ x \in Promises \ {promiseOf[s]} /\ state'[promiseOf[s]] = "pending"
                    /\ Relocked(promiseOf[s], x)
<1> DEFINE p == promiseOf[s]
<1>1. /\ s \in Settlers /\ p \in Promises /\ p # None
      /\ resolved \in [Settlers -> BOOLEAN]
  BY DEF Made, TypeInv, TypeOK
<1>2. Keeps(queue)
  BY FunctionDoes
<1>3. \A t, o : Ties(jobs', fulfil', t, o) <=> Ties(queue, fulfil, t, o)
  BY <1>2, KeepsTies
<1>4. CASE resolved[s]
  <2>1. NothingSettled(queue, rest) /\ resolved' = resolved
    BY <1>4 DEF Resolve, Reject
  <2>2. /\ jobs' = queue /\ state' = state /\ result' = result /\ promiseOf' = promiseOf
        /\ fulfil' = fulfil /\ reject' = reject
    BY <2>1 DEF NothingSettled, promiseVars
  <2>3. \A t \in Settlers : Open(promiseOf, resolved, t) => t # s
    BY <1>4 DEF Open
  <2>4. \A o, y : Relocked(o, y) <=> Locked(o, y)
    BY <2>1, <2>2, <2>3 DEF Relocked, Locked, Locks
  <2> QED BY <1>4, <2>2, <2>4 DEF Same
<1>5. CASE ~resolved[s]
  <2>1. Open(promiseOf, resolved, s) /\ resolved' = [resolved EXCEPT ![s] = TRUE]
    BY <1>1, <1>5 DEF Open, Resolve, Reject
  <2>2. /\ state[p] = "pending" /\ \A o : ~Asks(jobs, p, o)
        /\ \A o : Locked(p, o) <=> Ties(jobs, fulfil, s, o)
    BY <1>1, <2>1, OpenLocks
  <2>3. \A t \in Settlers : Open(promiseOf', resolved', t)
                                <=> Open(promiseOf, resolved, t) /\ t # s
    BY <1>1, <2>1 DEF Open
  <2>4. \A t \in Settlers : Open(promiseOf, resolved, t) /\ promiseOf[t] = p => t = s
    BY <1>1, <2>1 DEF OneResolver, OneWayToResolve, Unclaimed, Open
  <2>5. /\ Resolve(s, x, queue, rest) => ResolvePromise(p, x, queue, rest)
        /\ Reject(s, x, queue, rest) => Settle(p, "rejected", x, queue, rest)
    BY <1>5 DEF Resolve, Reject
  <2> HIDE DEF p
  <2>6. /\ \A o \in Promises : o # p => state'[o] = state[o] /\ result'[o] = result[o]
        /\ QueueApt(queue) /\ ListsApt(fulfil, reject) =>
                 QueueApt(jobs') /\ ListsApt(fulfil', reject')
        /\ \A o, y : o # p => (Asks(jobs', o, y) <=> Asks(queue, o, y))
        /\ \A y : Asks(jobs', p, y) => y # p
    <3>1. CASE ResolvePromise(p, x, queue, rest)
      BY <1>1, <2>2, <3>1, ResolvePromiseQueue
    <3>2. CASE x \in Data /\ Settle(p, "rejected", x, queue, rest)
      BY <1>1, <2>2, <3>2, SettleEnds, SettleQueue
    <3> QED BY <2>5, <3>1, <3>2
  <2>7. ASSUME NEW o \in Promises, o # p PROVE Same(o)
    <3>1. \A y : Relocked(o, y) <=> Locked(o, y)
      <4>1. \A t \in Settlers : \A y : t # s => (Ties(jobs', fulfil', t, y) <=> Ties(jobs, fulfil, t, y))
        BY <1>3
      <4>2. \A t \in Settlers : promiseOf[t] = o => t # s
        BY <2>7 DEF p
      <4> QED BY <2>3, <2>6, <2>7, <4>1, <4>2 DEF Relocked, Locked, Locks
    <3> QED BY <2>6, <2>7, <3>1 DEF Same
  <2>8. ASSUME NEW given, Locking(queue, fulfil, promiseOf, given)
        PROVE  Locking(jobs', fulfil', promiseOf', given)
    <3>1. \A o, y : Asks(jobs', o, y) => o # y
      BY <2>6, <2>8 DEF Locking
    <3> QED BY <1>3, <2>8, <3>1 DEF Locking
  <2>9. \A o : Relocked(p, o) <=> Asks(jobs', p, o)
    BY <2>3, <2>4 DEF Relocked, Locks
  <2>10. ASSUME Resolve(s, x, queue, rest)
         PROVE  \/ x \in Primitives /\ Ends(p, "fulfilled", x)
                \/ x = p /\ Ends(p, "rejected", TypeError)
                \/ x = ForeignObject /\ state'[p] = "pending" /\ Freed(p)
                \/ x \in Promises \ {p} /\ state'[p] = "pending" /\ Relocked(p, x)
    BY <1>1, <2>2, <2>5, <2>9, <2>10, ResolvePromiseQueue DEF Freed
  <2>11. ASSUME Reject(s, x, queue, rest) PROVE Ends(p, "rejected", x)
    BY <1>1, <2>5, <2>11, SettleEnds
  <2> QED BY <1>5, <2>2, <2>6, <2>7, <2>8, <2>10, <2>11 DEF p
<1> QED BY <1>4, <1>5

LEMMA LockedPending ==
    ASSUME TypeInv, OneResolver, NEW p \in Promises, NEW o, Locked(p, o)
    PROVE  state[p] = "pending"
  BY DEF Locked, Locks, Asks, Open, ThenableFor, OneResolver, OnlyPendingIsResolvable,
         Unclaimed, IsThenableJob

LEMMA TiesAreHands ==
    ASSUME NEW q, NEW lists, NEW s \in Settlers
    PROVE  (\E o : Ties(q, lists, s, o)) <=> s \in Hands(q, lists)
  BY DEF Ties, Hands

LEMMA FateParts ==
    ASSUME FateInv
    PROVE  /\ AnswerInv /\ TypeInv /\ OneResolver /\ NamedExist /\ Listing /\ Following(jobs)
           /\ jobs \in Seq(Jobs) /\ stack \in Seq(Frames)
           /\ QueueApt(jobs) /\ ListsApt(fulfil, reject)
           /\ Locking(jobs, fulfil, promiseOf, held)
           /\ \A s \in held \cup Caps(jobs, fulfil) \cup Talking(stack) : \A o :
                 ~Ties(jobs, fulfil, s, o)
<1>1. AnswerInv /\ ReactionInv /\ Fating
  BY DEF FateInv, AnswerInv
<1>2. /\ TypeInv /\ OneResolver /\ NamedExist /\ Listing /\ Following(jobs)
      /\ jobs \in Seq(Jobs) /\ stack \in Seq(Frames)
  BY <1>1, AnswerParts
<1>3. held \subseteq Settlers
  BY <1>2 DEF TypeInv, TypeOK
<1>4. \A s \in held : \A o : ~Ties(jobs, fulfil, s, o)
  BY <1>1, <1>3 DEF Fating, Locking
<1>5. \A s \in Caps(jobs, fulfil) \cup Talking(stack) : \A o : ~Ties(jobs, fulfil, s, o)
  <2>1. \A s \in Caps(jobs, fulfil) \cup Talking(stack) :
           s \in Settlers /\ s \notin Hands(jobs, fulfil)
    BY <1>1 DEF AnswerInv, Answering, Spoken, Caps, Talking
  <2> QED BY <2>1, TiesAreHands
<1> QED BY <1>1, <1>2, <1>4, <1>5 DEF Fating

(* A call by somebody who is nobody's handler decides a promise, binds it  *)
(* or leaves it as it is.                                                  *)
LEMMA CallMoves ==
    ASSUME FateInv, NEW s \in Made(promiseOf) \cup {None},
           NEW x \in Data \cup Promises, x \in Promises => Exists(x),
           NEW queue \in Seq(Jobs), NEW rest \in Seq(Frames),
           UNCHANGED <<promiseOf, held, made, runs>>,
           \/ ResolveCapability(s, x, queue, rest)
           \/ x \in Data /\ RejectCapability(s, x, queue, rest)
           \/ s # None /\ Resolve(s, x, queue, rest)
           \/ s # None /\ x \in Data /\ Reject(s, x, queue, rest),
           \A o, y : Asks(queue, o, y) <=> Asks(jobs, o, y),
           \A t \in Settlers : \A o : Ties(queue, fulfil, t, o) <=> Ties(jobs, fulfil, t, o),
           QueueApt(queue), s # None => \A o : ~Ties(jobs, fulfil, s, o)
    PROVE  Moves /\ Fating'
<1>0. Locking(queue, fulfil, promiseOf, held) /\ ListsApt(fulfil, reject)
  BY FateParts DEF Locking
<1>1. CASE s = None
  <2>1. NothingSettled(queue, rest) /\ resolved' = resolved
    BY <1>1 DEF ResolveCapability, RejectCapability
  <2>2. /\ jobs' = queue /\ state' = state /\ result' = result /\ promiseOf' = promiseOf
        /\ fulfil' = fulfil /\ reject' = reject /\ held' = held /\ resolved' = resolved
    BY <2>1 DEF NothingSettled, promiseVars
  <2>3. \A o, y : Relocked(o, y) <=> Locked(o, y)
    BY <2>2 DEF Relocked, Locked, Locks
  <2>4. Moves
    BY <2>2, <2>3 DEF Moves, Same
  <2> QED BY <1>0, <2>2, <2>4 DEF Fating
<1>2. CASE s # None
  <2> DEFINE p == promiseOf[s]
  <2>1. s \in Made(promiseOf) /\ p \in Promises
        /\ (Resolve(s, x, queue, rest) \/ (x \in Data /\ Reject(s, x, queue, rest)))
    BY <1>2, FateParts DEF ResolveCapability, RejectCapability, Made, TypeInv, TypeOK
  <2>2. /\ \A o \in Promises : o # p \/ resolved[s] => Same(o)
        /\ QueueApt(jobs') /\ ListsApt(fulfil', reject')
        /\ Locking(jobs', fulfil', promiseOf', held)
        /\ ~resolved[s] => /\ state[p] = "pending"
                           /\ \A o : Locked(p, o) <=> Ties(jobs, fulfil, s, o)
        /\ ~resolved[s] /\ Reject(s, x, queue, rest) => Ends(p, "rejected", x)
        /\ ~resolved[s] /\ Resolve(s, x, queue, rest) =>
              \/ x \in Primitives /\ Ends(p, "fulfilled", x)
              \/ x = p /\ Ends(p, "rejected", TypeError)
              \/ x = ForeignObject /\ state'[p] = "pending" /\ Freed(p)
              \/ x \in Promises \ {p} /\ state'[p] = "pending" /\ Relocked(p, x)
    BY <1>0, <2>1, FateParts, FunctionMoves
  <2> HIDE DEF p
  <2>3. Fating'
    BY <2>2 DEF Fating
  <2>4. CASE resolved[s]
    BY <2>2, <2>3, <2>4 DEF Moves
  <2>5. CASE ~resolved[s]
    <3>1. state[p] = "pending" /\ Free(p)
      BY <1>2, <2>2, <2>5 DEF Free
    <3>2. \/ Decides(p) \/ Same(p) \/ Binds(p)
      <4>1. CASE \/ x \in Data /\ Ends(p, "rejected", x)
                 \/ x \in Primitives /\ Ends(p, "fulfilled", x)
                 \/ Ends(p, "rejected", TypeError)
        BY <3>1, <4>1, ValuesAssumption DEF Decides, Data
      <4>2. CASE x = ForeignObject /\ state'[p] = "pending" /\ Freed(p)
        BY <3>1, <4>2 DEF Same, Free, Freed
      <4>3. CASE x \in Promises \ {p} /\ state'[p] = "pending" /\ Relocked(p, x)
        BY <3>1, <4>3 DEF Binds
      <4> QED BY <2>1, <2>2, <2>5, <4>1, <4>2, <4>3
    <3>3. \A o \in Promises \ {p} : Same(o)
      BY <2>2
    <3>4. Moves
      <4>1. CASE Same(p)
        BY <3>3, <4>1 DEF Moves
      <4>2. CASE Decides(p) \/ Binds(p)
        BY <2>1, <3>3, <4>2 DEF Moves
      <4> QED BY <3>2, <4>1, <4>2
    <3> QED BY <2>3, <3>4
  <2> QED BY <2>4, <2>5
<1> QED BY <1>1, <1>2

LEMMA CallFates ==
    ASSUME FateInv, \/ \E s \in Settlers, x \in Answers : CallResolve(s, x)
                    \/ \E s \in Settlers, reason \in ScriptValues : CallReject(s, reason)
    PROVE  Moves /\ Fating'
<1>1. PICK s \in Settlers, x \in Answers \cup ScriptValues :
          /\ s \in held
          /\ Resolve(s, x, jobs, stack) \/ (x \in ScriptValues /\ Reject(s, x, jobs, stack))
          /\ UNCHANGED <<promiseOf, scriptVars, runVars, made>>
  BY DEF CallResolve, CallReject
<1>2. s \in Made(promiseOf) /\ s # None
  BY <1>1, NoneAssumption, FateParts DEF TypeInv, HeldMade
<1>3. /\ x \in Data \cup Promises /\ (x \in Promises => Exists(x))
      /\ x \in ScriptValues => x \in Data
  BY AnswerParts, FateParts
<1> QED BY <1>1, <1>2, <1>3, FateParts, CallMoves DEF scriptVars, runVars

LEMMA HandlerFates ==
    ASSUME FateInv, \/ \E x \in Answers : HandlerReturns(x)
                    \/ \E reason \in ScriptValues : HandlerThrows(reason)
                    \/ NativeReturns
    PROVE  Moves /\ Fating'
<1>1. PICK x \in Answers \cup ScriptValues \cup {UndefinedValue} :
          /\ stack # <<>> /\ Speaks(Top)
          /\ \/ ResolveCapability(Top.settler, x, jobs, Pop(stack))
             \/ x \in ScriptValues /\ RejectCapability(Top.settler, x, jobs, Pop(stack))
          /\ UNCHANGED <<promiseOf, scriptVars, runVars, made>>
  BY DEF HandlerReturns, HandlerThrows, NativeReturns, Speaks
<1>2. Top.settler \in Made(promiseOf) \cup {None}
  BY <1>1, FateParts, TopType
<1>3. /\ x \in Data \cup Promises /\ (x \in Promises => Exists(x))
      /\ x \in ScriptValues => x \in Data
  BY AnswerParts, FateParts
<1>4. Pop(stack) \in Seq(Frames)
  BY <1>1, FateParts, TopType, MadeIsTyped, SeqGrows
<1>5. Top.settler # None => Top.settler \in Talking(stack)
  <2>1. Len(stack) \in DOMAIN stack
    BY <1>1, FateParts
  <2> QED BY <1>1, <1>2, <2>1 DEF Talking, Top, Made
<1> QED BY <1>1, <1>2, <1>3, <1>4, <1>5, FateParts, CallMoves DEF scriptVars, runVars

LEMMA ThenMethodFates ==
    ASSUME FateInv, \/ ThenMethodReturns
                    \/ \E reason \in ScriptValues : ThenMethodThrows(reason)
    PROVE  Moves /\ Fating'
<1>1. stack # <<>> /\ Top.code = "callThen"
  BY DEF ThenMethodReturns, ThenMethodThrows
<1>2. Pop(stack) \in Seq(Frames)
  BY <1>1, FateParts, TopType, MadeIsTyped, SeqGrows
<1>3. CASE ThenMethodReturns
  <2>1. /\ NothingSettled(jobs, Pop(stack))
        /\ UNCHANGED <<settlerVars, scriptVars, runVars, made>>
    BY <1>3 DEF ThenMethodReturns
  <2>2. PICK s \in Made(promiseOf) \cup {None} : s = None
    OBVIOUS
  <2>3. PICK x \in Data \cup Promises : x = UndefinedValue /\ x \notin Promises
    BY FateParts, AnswerParts
  <2>4. ResolveCapability(s, x, jobs, Pop(stack))
    BY <2>1, <2>2 DEF ResolveCapability, settlerVars
  <2> QED BY <1>2, <2>1, <2>2, <2>3, <2>4, FateParts, CallMoves
          DEF settlerVars, scriptVars, runVars
<1>4. CASE \E reason \in ScriptValues : ThenMethodThrows(reason)
  <2>1. PICK reason \in ScriptValues :
           /\ Reject(Top.settler, reason, jobs, Pop(stack))
           /\ UNCHANGED <<promiseOf, scriptVars, runVars, made>>
    BY <1>4 DEF ThenMethodThrows
  <2>2. Top.settler \in held /\ Top.settler \in Made(promiseOf) /\ Top.settler # None
    BY <1>1, NoneAssumption, FateParts, PopTalks
       DEF AnswerInv, Answering, TypeInv, HeldMade, Made
  <2>3. reason \in Data /\ reason \notin Promises
    BY AnswerParts, FateParts
  <2> QED BY <1>2, <2>1, <2>2, <2>3, FateParts, CallMoves DEF scriptVars, runVars
<1> QED BY <1>3, <1>4

LEMMA GetterFates ==
    ASSUME FateInv, \/ GetterReturnsFunction \/ GetterReturnsOther
                    \/ \E reason \in ScriptValues : GetterThrows(reason)
    PROVE  Moves /\ Fating'
<1>1. /\ stack # <<>> /\ Top.code = "getThen"
      /\ UNCHANGED <<settlerVars, scriptVars, runVars, made>>
  BY DEF GetterReturnsFunction, GetterReturnsOther, GetterThrows
<1>2. promiseOf' = promiseOf /\ resolved' = resolved /\ held' = held
  BY <1>1 DEF settlerVars, scriptVars
<1> DEFINE p == Top.promise
<1>3. p \in Promises /\ Reads(stack, p)
  <2>1. p \in Promises /\ Len(stack) \in DOMAIN stack
    BY <1>1, FateParts, TopType DEF TypeInv, TypeOK
  <2> QED BY <1>1, <2>1 DEF Top, Reads, GetterFor
<1>4. /\ GetterReturnsFunction => NothingSettled(Append(jobs,
             [job |-> "thenable", promise |-> p, thenable |-> ForeignObject]), Pop(stack))
      /\ GetterReturnsOther => Settle(p, "fulfilled", ForeignObject, jobs, Pop(stack))
      /\ \A reason \in ScriptValues :
             GetterThrows(reason) => Settle(p, "rejected", reason, jobs, Pop(stack))
  BY DEF GetterReturnsFunction, GetterReturnsOther, GetterThrows
<1> HIDE DEF p
<1>5. state[p] = "pending" /\ \A o : ~Locked(p, o)
  BY <1>3, FateParts, ReadingIsFree
<1>6. Locking(jobs, fulfil, promiseOf, held) /\ QueueApt(jobs) /\ ListsApt(fulfil, reject)
  BY FateParts
<1>7. CASE GetterReturnsFunction
  <2> DEFINE job == [job |-> "thenable", promise |-> p, thenable |-> ForeignObject]
  <2>1. NothingSettled(Append(jobs, job), Pop(stack))
    BY <1>4, <1>7
  <2>2. job \in Jobs /\ job.job = "thenable" /\ job.promise = p
        /\ job.thenable = ForeignObject /\ ForeignObject \notin Promises
    <3>1. ForeignObject \notin Promises
      BY FateParts, AnswerParts
    <3> QED BY <1>3, <3>1 DEF ThenableJobs, Jobs
  <2> HIDE DEF job
  <2>3. /\ jobs' = Append(jobs, job) /\ state' = state /\ result' = result
        /\ fulfil' = fulfil /\ reject' = reject
    BY <2>1 DEF NothingSettled, promiseVars
  <2>4. /\ \A o, y : Asks(jobs', o, y) <=> Asks(jobs, o, y) \/ (o = p /\ y = ForeignObject)
        /\ QueueApt(jobs')
    BY <1>6, <2>2, <2>3, FateParts, AppendQueue, ZenonT(60)
  <2>5. \A s, o : Ties(jobs', fulfil', s, o) <=> Ties(jobs, fulfil, s, o)
    <3>1. /\ \A i \in DOMAIN jobs : i \in DOMAIN jobs' /\ jobs'[i] = jobs[i]
          /\ Len(jobs) + 1 \in DOMAIN jobs' /\ jobs'[Len(jobs) + 1] = job
          /\ \A i \in DOMAIN jobs' : i \in DOMAIN jobs \/ i = Len(jobs) + 1
      BY <2>2, <2>3, FateParts
    <3>2. \A r : WaitsAs(jobs', fulfil', r) <=> WaitsAs(jobs, fulfil, r)
      BY <2>2, <2>3, <3>1 DEF WaitsAs, IsReaction
    <3> QED BY <3>2 DEF Ties
  <2>6. \A o \in Promises : Same(o)
    BY <1>2, <2>2, <2>3, <2>4, <2>5 DEF Same, Relocked, Locked, Locks
  <2>7. Locking(jobs', fulfil', promiseOf', held')
    BY <1>2, <1>3, <1>6, <2>2, <2>4, <2>5 DEF Locking
  <2> QED BY <1>6, <2>3, <2>4, <2>6, <2>7 DEF Fating, Moves
<1>8. CASE GetterReturnsOther \/ \E reason \in ScriptValues : GetterThrows(reason)
  <2>1. PICK to \in {"fulfilled", "rejected"}, value \in Data :
           Settle(p, to, value, jobs, Pop(stack))
    BY <1>4, <1>8, FateParts, AnswerParts
  <2>2. /\ Ends(p, to, value)
        /\ \A o \in Promises : o # p => state'[o] = state[o] /\ result'[o] = result[o]
        /\ \A o, y : Asks(jobs', o, y) <=> Asks(jobs, o, y)
        /\ QueueApt(jobs') /\ ListsApt(fulfil', reject')
    BY <1>3, <1>6, <2>1, FateParts, SettleEnds, SettleQueue
  <2>3. \A s, o : Ties(jobs', fulfil', s, o) <=> Ties(jobs, fulfil, s, o)
    <3>1. made' = made /\ runs' = runs /\ stack' = Pop(stack)
      BY <1>1, <2>1 DEF runVars, Settle
    <3>2. Keeps(jobs)
      BY <1>3, <1>5, <2>1, <3>1 DEF Keeps, Settles
    <3> QED BY <3>2, FateParts, KeepsTies
  <2>4. \A o, y : Relocked(o, y) <=> Locked(o, y)
    BY <1>2, <2>2, <2>3 DEF Relocked, Locked, Locks
  <2>5. Decides(p)
    BY <1>5, <2>1, <2>2 DEF Decides, Free
  <2>6. \A o \in Promises \ {p} : Same(o)
    BY <2>2, <2>4 DEF Same
  <2>7. Locking(jobs', fulfil', promiseOf', held')
    BY <1>2, <1>6, <2>2, <2>3 DEF Locking
  <2> QED BY <1>3, <2>2, <2>5, <2>6, <2>7 DEF Fating, Moves
<1> QED BY <1>7, <1>8

(* What begins and ends runs moves no promise.                             *)
LEMMA RunStepFates ==
    ASSUME FateInv, StartRun \/ Stop \/ ScriptEnds \/ FinishDrain \/ UNCHANGED vars
    PROVE  Moves /\ Fating'
<1>1. /\ state' = state /\ result' = result /\ promiseOf' = promiseOf /\ resolved' = resolved
      /\ jobs' = jobs /\ fulfil' = fulfil /\ reject' = reject /\ held' = held
  BY DEF StartRun, BeginRun, Stop, ScriptEnds, FinishDrain, vars,
         promiseVars, settlerVars, scriptVars
<1>2. Moves
  BY <1>1 DEF Moves, Same, Relocked, Locked
<1> QED BY <1>1, <1>2, FateParts DEF Fating

(* A pair just made ties nothing, and its promise is only locked by what   *)
(* the queue and the lists already held.                                   *)
LEMMA PairLocks ==
    ASSUME FateInv, NEW s \in FreshSettlers, NEW p \in Promises, NEW given,
           promiseOf' = [promiseOf EXCEPT ![s] = p], resolved' = resolved,
           given \subseteq held \cup {s}, NEW queue,
           \A o, y : Asks(queue, o, y) => Asks(jobs, o, y),
           \A t, o : Ties(queue, fulfil, t, o) <=> Ties(jobs, fulfil, t, o)
    PROVE  /\ Locking(queue, fulfil, promiseOf', given)
           /\ \A x, o : Locks(queue, fulfil, promiseOf', resolved', x, o)
                            <=> Locks(queue, fulfil, promiseOf, resolved, x, o)
<1>1. /\ promiseOf \in [Settlers -> Promises \cup {None}] /\ s \in Settlers
      /\ Locking(jobs, fulfil, promiseOf, held)
  BY FateParts DEF FreshSettlers, TypeInv, TypeOK
<1>2. \A o : ~Ties(jobs, fulfil, s, o)
  BY <1>1, FateParts, FreshIsNobodys, TiesAreHands
<1>3. \A t \in Settlers : t # s => promiseOf'[t] = promiseOf[t]
  BY <1>1
<1>4. Locking(queue, fulfil, promiseOf', given)
  BY <1>1, <1>2, <1>3 DEF Locking
<1>5. \A t \in Settlers : \A o : Ties(queue, fulfil, t, o) => t # s
  BY <1>2
<1> QED BY <1>3, <1>4, <1>5 DEF Locks, Open

LEMMA FreshIsFree ==
    ASSUME FateInv, NEW p \in FreshPromises
    PROVE  p \in Promises /\ state[p] = "absent" /\ \A o : ~Locked(p, o)
<1>1. p \in Promises /\ state[p] = "absent"
  BY DEF FreshPromises
<1> QED BY <1>1, FateParts, LockedPending

LEMMA ConstructFates == FateInv /\ Construct => Moves /\ Fating'
<1> SUFFICES ASSUME FateInv, Construct PROVE Moves /\ Fating'
  OBVIOUS
<1> DEFINE s == NewSettler
           p == NewPromise
<1>1. /\ p \in FreshPromises /\ p \in Promises /\ s \in FreshSettlers
      /\ state' = [state EXCEPT ![p] = "pending"]
      /\ promiseOf' = [promiseOf EXCEPT ![s] = p]
      /\ held' = held \cup {s}
      /\ jobs' = jobs /\ fulfil' = fulfil /\ reject' = reject /\ resolved' = resolved
      /\ result' = result
  BY FateParts, MakeType DEF Construct, Make, FreshPromises
<1> HIDE DEF s, p
<1>2. /\ Locking(jobs', fulfil', promiseOf', held')
      /\ \A x, o : Relocked(x, o) <=> Locked(x, o)
  BY <1>1, FateParts, PairLocks DEF Relocked, Locked
<1>3. state[p] = "absent" /\ \A o : ~Locked(p, o)
  BY <1>1, FreshIsFree
<1>4. /\ state'[p] = "pending" /\ \A o \in Promises : o # p => state'[o] = state[o]
  BY <1>1, FateParts DEF TypeInv, TypeOK
<1>5. Creates(p) /\ \A o \in Promises \ {p} : Same(o)
  BY <1>1, <1>2, <1>3, <1>4 DEF Creates, Freed, Same
<1> QED BY <1>1, <1>2, <1>5, FateParts DEF Moves, Fating

LEMMA ThenFates ==
    ASSUME FateInv,
           \E p \in Promises, f, g \in {ScriptHandler, NoHandler} : Then(p, f, g)
    PROVE  Moves /\ Fating'
<1>1. PICK q \in Promises, f \in {ScriptHandler, NoHandler},
           g \in {ScriptHandler, NoHandler} : Then(q, f, g)
  OBVIOUS
<1> DEFINE s == NewSettler
           p == NewPromise
<1>2. /\ p \in FreshPromises /\ p \in Promises /\ s \in FreshSettlers
      /\ state' = [state EXCEPT ![p] = "pending"]
      /\ promiseOf' = [promiseOf EXCEPT ![s] = p]
      /\ held' = held /\ resolved' = resolved /\ result' = result
      /\ PerformThen(q, f, g, s, jobs)
  BY <1>1, FateParts, MakeType DEF Then, Make, FreshPromises, PerformThen
<1>3. /\ f \in Handlers /\ g \in Handlers /\ f.settler = None /\ g.settler = None
      /\ f.call # "reject" /\ g.call # "resolve"
  BY DEF ScriptHandler, NoHandler, Handlers
<1> HIDE DEF s, p
<1>4. s \in Settlers /\ \A t \in Settlers : t # None
  <2>1. s \in Settlers
    BY <1>2 DEF FreshSettlers
  <2>2. \A t \in Settlers : t # None
    BY NoneAssumption
  <2> QED BY <2>1, <2>2
<1>5. /\ \A o, y : Asks(jobs', o, y) <=> Asks(jobs, o, y)
      /\ \A t, o : Ties(jobs', fulfil', t, o) <=>
            Ties(jobs, fulfil, t, o) \/ (t = None /\ o = q)
      /\ QueueApt(jobs') /\ ListsApt(fulfil', reject')
  BY <1>2, <1>3, <1>4, FateParts, RegistersQueue
<1>6. /\ Locking(jobs, fulfil, promiseOf', held')
      /\ \A x, o : Locks(jobs, fulfil, promiseOf', resolved', x, o) <=> Locked(x, o)
  BY <1>2, FateParts, PairLocks DEF Locked
<1>7. Locking(jobs', fulfil', promiseOf', held')
  BY <1>4, <1>5, <1>6 DEF Locking
<1>8. \A x, o : Relocked(x, o) <=> Locked(x, o)
  <2>1. \A x, o : Relocked(x, o) <=> Locks(jobs, fulfil, promiseOf', resolved', x, o)
    BY <1>4, <1>5 DEF Relocked, Locks
  <2> QED BY <1>6, <2>1
<1>9. state[p] = "absent" /\ \A o : ~Locked(p, o)
  BY <1>2, FreshIsFree
<1>10. /\ state'[p] = "pending" /\ \A o \in Promises : o # p => state'[o] = state[o]
  BY <1>2, FateParts DEF TypeInv, TypeOK
<1>11. Creates(p) /\ \A o \in Promises \ {p} : Same(o)
  BY <1>2, <1>8, <1>9, <1>10 DEF Creates, Freed, Same
<1> QED BY <1>2, <1>5, <1>7, <1>11 DEF Moves, Fating

LEMMA AwaitFates ==
    ASSUME FateInv, \E p \in Promises : Await(p)
    PROVE  Moves /\ Fating'
<1>1. PICK q \in Promises : Await(q)
  OBVIOUS
<1>2. /\ state' = state /\ result' = result /\ promiseOf' = promiseOf /\ resolved' = resolved
      /\ held' = held
      /\ PerformThen(q, ScriptHandler, ScriptHandler, None, jobs)
  BY <1>1 DEF Await, settlerVars, scriptVars, PerformThen
<1>3. PICK f \in Handlers : f = ScriptHandler /\ f.settler = None
                            /\ f.call # "reject" /\ f.call # "resolve"
  <2>1. /\ ScriptHandler \in Handlers /\ ScriptHandler.settler = None
        /\ ScriptHandler.call # "reject" /\ ScriptHandler.call # "resolve"
    BY DEF ScriptHandler, Handlers
  <2> QED BY <2>1
<1>4. PICK s \in Settlers \cup {None} : s = None
  OBVIOUS
<1>5. PerformThen(q, f, f, s, jobs)
  BY <1>2, <1>3, <1>4
<1>6. /\ \A o, y : Asks(jobs', o, y) <=> Asks(jobs, o, y)
      /\ \A t, o : Ties(jobs', fulfil', t, o) <=>
            Ties(jobs, fulfil, t, o) \/ (t = None /\ o = q)
      /\ QueueApt(jobs') /\ ListsApt(fulfil', reject')
  BY <1>3, <1>5, FateParts, RegistersQueue
<1>7. \A t \in Settlers : t # None
  BY NoneAssumption
<1>8. Locking(jobs', fulfil', promiseOf', held')
  BY <1>2, <1>6, <1>7, FateParts DEF Locking
<1>9. \A x, o : Relocked(x, o) <=> Locked(x, o)
  BY <1>2, <1>6, <1>7 DEF Relocked, Locked, Locks
<1> QED BY <1>2, <1>6, <1>8, <1>9 DEF Moves, Same, Fating

LEMMA CallForeignThenFates == FateInv /\ CallForeignThen => Moves /\ Fating'
<1> SUFFICES ASSUME FateInv, CallForeignThen PROVE Moves /\ Fating'
  OBVIOUS
<1> DEFINE s == NewSettler
           p == Head(jobs).promise
           q == Tail(jobs)
<1>1. /\ Draining("thenable") /\ Head(jobs).thenable = ForeignObject /\ s \in FreshSettlers
      /\ promiseOf' = [promiseOf EXCEPT ![s] = p]
      /\ held' = held \cup {s} /\ resolved' = resolved
      /\ jobs' = q /\ state' = state /\ result' = result
      /\ fulfil' = fulfil /\ reject' = reject
  BY DEF CallForeignThen, NewSettler, NothingSettled, promiseVars
<1>2. jobs # <<>> /\ Head(jobs).job = "thenable" /\ p \in Promises
  BY <1>1, FateParts, DrainingParts, HeadType
<1>3. /\ \A o, y : Asks(jobs, o, y) <=> Asks(q, o, y) \/ (o = p /\ y = ForeignObject)
      /\ \A t, o : Ties(jobs, fulfil, t, o) <=> Ties(q, fulfil, t, o)
      /\ QueueApt(q)
  BY <1>1, <1>2, FateParts, TailQueue
<1> HIDE DEF s, p, q
<1>4. /\ Locking(q, fulfil, promiseOf', held')
      /\ \A x, o : Relocked(x, o) <=> Locks(q, fulfil, promiseOf, resolved, x, o)
  BY <1>1, <1>2, <1>3, PairLocks DEF Relocked
<1>5. ForeignObject \notin Promises
  BY FateParts, AnswerParts
<1>6. \A x : \A o \in Promises : Locks(q, fulfil, promiseOf, resolved, x, o) <=> Locked(x, o)
  BY <1>3, <1>5 DEF Locked, Locks
<1>7. \A o \in Promises : Same(o)
  BY <1>1, <1>4, <1>6 DEF Same
<1> QED BY <1>1, <1>3, <1>4, <1>7, FateParts DEF Moves, Fating

(* What an adoption locked its promise to before, the reaction it          *)
(* registers locks it to from now on.                                      *)
LEMMA AdoptFates == FateInv /\ AdoptPromise => Moves /\ Fating'
<1> SUFFICES ASSUME FateInv, AdoptPromise PROVE Moves /\ Fating'
  OBVIOUS
<1> DEFINE s == NewSettler
           t == OtherSettler
           d == NewPromise
           p == Head(jobs).promise
           from == Head(jobs).thenable
           q == Tail(jobs)
           f == [call |-> "resolve", settler |-> s]
           g == [call |-> "reject", settler |-> s]
<1>1. /\ d \in FreshPromises /\ s \in FreshSettlers /\ t \in FreshSettlers \ {s}
  BY FateParts, AdoptType
<1>2. /\ Draining("thenable") /\ from \in Promises
      /\ promiseOf' = [promiseOf EXCEPT ![s] = p, ![t] = d]
      /\ state' = [state EXCEPT ![d] = "pending"]
      /\ PerformThen(from, f, g, t, q)
      /\ held' = held /\ resolved' = resolved
  BY DEF AdoptPromise, scriptVars
<1>3. /\ jobs # <<>> /\ Head(jobs).job = "thenable" /\ q \in Seq(Jobs)
  BY <1>2, FateParts, DrainingParts, SMTT(30)
<1>4. p \in Promises /\ result' = result
  BY <1>2, <1>3, FateParts, HeadType DEF PerformThen
<1>5. /\ \A o, y : Asks(jobs, o, y) <=> Asks(q, o, y) \/ (o = p /\ y = from)
      /\ \A u, o : Ties(jobs, fulfil, u, o) <=> Ties(q, fulfil, u, o)
      /\ QueueApt(q)
  BY <1>3, FateParts, TailQueue
<1>6. /\ \A u \in Settlers : Open(promiseOf, resolved, u) => promiseOf[u] # p
      /\ \A o : ~Asks(q, p, o)
  <2>1. OneOf(state, promiseOf, resolved, jobs, stack) /\ jobs \in Seq(Jobs)
    BY FateParts, OneResolverIsOneOf
  <2>2. ThenableFor(jobs, 1, p)
    BY <1>3, <2>1 DEF ThenableFor
  <2>3. Unowned(promiseOf, resolved, q, stack, p)
    BY <1>3, <1>4, <2>1, <2>2, TailKeeps
  <2> QED BY <2>3 DEF Unowned, Asks
<1>7. f \in Handlers /\ g \in Handlers /\ f.settler = s /\ g.settler = s
      /\ f.call # "reject" /\ g.call # "resolve"
  BY <1>1 DEF Handlers, FreshSettlers
<1> HIDE DEF s, t, d, p, from, q, f, g
<1>8. /\ s \in Settlers /\ s \notin held /\ t \in Settlers /\ t # s
      /\ \A o : ~Ties(jobs, fulfil, s, o) /\ ~Ties(jobs, fulfil, t, o)
  BY <1>1, FateParts, FreshIsNobodys, TiesAreHands
<1>9. d \in Promises /\ state[d] = "absent" /\ \A o : ~Locked(d, o)
  BY <1>1, FreshIsFree
<1>10. /\ promiseOf'[s] = p /\ promiseOf'[t] = d
       /\ \A u \in Settlers : u \notin {s, t} => promiseOf'[u] = promiseOf[u]
  BY <1>2, <1>8, FateParts DEF TypeInv, TypeOK
<1>11. /\ promiseOf[s] = None /\ promiseOf[t] = None /\ p # None /\ ~resolved[s]
  BY <1>1, <1>4, NoneAssumption, FateParts
     DEF FreshSettlers, AnswerInv, Answering, UnmadeFree
<1>12. /\ \A o, y : Asks(jobs', o, y) <=> Asks(q, o, y)
       /\ \A u, o : Ties(jobs', fulfil', u, o) <=>
             Ties(jobs, fulfil, u, o) \/ (u = s /\ o = from)
       /\ QueueApt(jobs') /\ ListsApt(fulfil', reject')
  <2>1. t \in Settlers \cup {None} /\ TypeInv /\ from \in Promises
        /\ PerformThen(from, f, g, t, q) /\ f.settler = g.settler
    BY <1>2, <1>7, <1>8, FateParts
  <2>2. /\ \A o, y : Asks(jobs', o, y) <=> Asks(q, o, y)
        /\ \A u, o : Ties(jobs', fulfil', u, o) <=>
              Ties(q, fulfil, u, o) \/ (u = f.settler /\ o = from)
        /\ QueueApt(q) /\ ListsApt(fulfil, reject)
              /\ f.call # "reject" /\ g.call # "resolve" =>
              QueueApt(jobs') /\ ListsApt(fulfil', reject')
    BY <1>3, <1>7, <2>1, RegistersQueue
  <2> QED BY <1>5, <1>7, <2>2, FateParts
<1>13. Locking(jobs', fulfil', promiseOf', held')
  <2>1. Locking(jobs, fulfil, promiseOf, held)
    BY FateParts
  <2>2. p # from
    BY <1>5, <2>1 DEF Locking
  <2>3. \A u \in Settlers : \A o : Ties(jobs, fulfil, u, o) => u \notin {s, t}
    BY <1>8
  <2>4. \A u \in Settlers : \A o, y : Ties(jobs', fulfil', u, o) /\ Ties(jobs', fulfil', u, y) => o = y
    BY <1>12, <2>1, <2>3 DEF Locking
  <2>5. \A u \in Settlers : \A o : Ties(jobs', fulfil', u, o) => u \notin held' /\ promiseOf'[u] # o
    BY <1>2, <1>8, <1>10, <1>12, <2>1, <2>2, <2>3 DEF Locking
  <2>6. \A o, y : Asks(jobs', o, y) => o # y
    BY <1>5, <1>12, <2>1 DEF Locking
  <2> QED BY <2>4, <2>5, <2>6 DEF Locking
<1>14. \A u \in Settlers : Open(promiseOf', resolved', u) /\ u \notin {s, t}
                              <=> Open(promiseOf, resolved, u)
  BY <1>2, <1>10, <1>11 DEF Open
<1>15. \A o : Locked(p, o) <=> o = from
  BY <1>5, <1>6 DEF Locked, Locks
<1>16. \A o : Relocked(p, o) <=> o = from
  <2>1. Open(promiseOf', resolved', s)
    BY <1>2, <1>10, <1>11 DEF Open
  <2>2. Relocked(p, from)
    BY <1>8, <1>10, <1>12, <2>1 DEF Relocked, Locks
  <2>3. ASSUME NEW o, Relocked(p, o) PROVE o = from
    <3>1. ~Asks(jobs', p, o)
      BY <1>6, <1>12
    <3>2. PICK u \in Settlers : /\ Open(promiseOf', resolved', u) /\ promiseOf'[u] = p
                                /\ Ties(jobs', fulfil', u, o)
      BY <2>3, <3>1 DEF Relocked, Locks
    <3>3. u \in {s, t}
      BY <1>6, <1>10, <1>14, <3>2
    <3> QED BY <1>8, <1>12, <3>2, <3>3
  <2> QED BY <2>2, <2>3
<1>17. ASSUME NEW x, x # p PROVE \A o : Relocked(x, o) <=> Locked(x, o)
  <2>1. \A o : Asks(jobs', x, o) <=> Asks(jobs, x, o)
    BY <1>5, <1>12, <1>17
  <2>2. \A u \in Settlers : \A o :
           promiseOf'[u] = x /\ Ties(jobs', fulfil', u, o) => u # s
    BY <1>10, <1>17
  <2>3. \A u \in Settlers : \A o : Ties(jobs', fulfil', u, o) => u # t
    BY <1>8, <1>12
  <2>4. \A u \in Settlers : \A o : Ties(jobs, fulfil, u, o) => u \notin {s, t}
    BY <1>8
  <2>5. ASSUME NEW o PROVE
           (\E u \in Settlers : Open(promiseOf', resolved', u) /\ promiseOf'[u] = x
                                   /\ Ties(jobs', fulfil', u, o))
           <=> \E u \in Settlers : Open(promiseOf, resolved, u) /\ promiseOf[u] = x
                                   /\ Ties(jobs, fulfil, u, o)
    BY <1>10, <1>12, <1>14, <2>2, <2>3, <2>4
  <2> QED BY <2>1, <2>5 DEF Relocked, Locked, Locks
<1>18. state[p] = "pending"
  BY <1>15, <1>4, FateParts, LockedPending
<1>19. /\ state'[d] = "pending" /\ \A o \in Promises : o # d => state'[o] = state[o]
  BY <1>2, <1>9, FateParts DEF TypeInv, TypeOK
<1>20. Creates(d)
  BY <1>9, <1>17, <1>18, <1>19 DEF Creates, Freed
<1>21. \A o \in Promises \ {d} : Same(o)
  BY <1>4, <1>15, <1>16, <1>17, <1>19 DEF Same
<1> QED BY <1>9, <1>12, <1>13, <1>20, <1>21 DEF Moves, Fating

(* The reaction an adoption registered passes on how the promise it waited *)
(* for ended, and any other reaction is somebody's call.                   *)
LEMMA RunReactionFates == FateInv /\ RunReaction => Moves /\ Fating'
<1> SUFFICES ASSUME FateInv, RunReaction PROVE Moves /\ Fating'
  OBVIOUS
<1> DEFINE r == Head(jobs).reaction
           argument == Head(jobs).argument
           q == Tail(jobs)
           native == Frame("native", r.capability, None)
           handler == Frame("handler", r.capability, None)
           cap == r.capability
           hand == r.handler.settler
           from == r.of
<1>1. Draining("reaction") /\ UNCHANGED <<promiseOf, scriptVars, runVars, made>>
  BY DEF RunReaction
<1>2. jobs # <<>> /\ Head(jobs).job = "reaction" /\ q \in Seq(Jobs)
  BY <1>1, FateParts, DrainingParts
<1>3. r \in MadeReactions(promiseOf) /\ argument \in Data /\ argument \notin Promises
  BY <1>2, FateParts, HeadType, ValuesAssumption DEF Data
<1>4. /\ cap \in Made(promiseOf) \cup {None} /\ cap \in Settlers \cup {None}
      /\ r.handler.call \in {"script", "none"} => hand = None
      /\ r.handler.call \in {"resolve", "reject"} =>
            hand \in Made(promiseOf) /\ hand # None /\ hand \in Settlers
      /\ r.kind \in {"fulfil", "reject"}
  BY <1>3, NoneAssumption DEF MadeReactions, Reactions, Handlers, Made
<1>5. native \in Frames
  BY <1>4 DEF Frame, Frames
<1>6. /\ \A o, y : Asks(q, o, y) <=> Asks(jobs, o, y)
      /\ \A t, o : Ties(jobs, fulfil, t, o) <=>
            Ties(q, fulfil, t, o) \/ (t = hand /\ o = from)
      /\ QueueApt(q) /\ Apt(r)
  BY <1>2, FateParts, TailQueue
<1>7. cap # None => \A o : ~Ties(jobs, fulfil, cap, o)
  <2>1. Caps(jobs, fulfil) = Caps(q, fulfil) \cup ({cap} \cap Settlers)
    BY <1>2, FateParts, TailCaps DEF AnswerInv, Answering
  <2> QED BY <1>4, <2>1, FateParts
<1>8. /\ from \in Promises /\ state[from] = OutcomeOf(r) /\ argument = result[from]
      /\ state[from] \in {"fulfilled", "rejected"}
  <2>1. 1 \in DOMAIN jobs /\ jobs[1] = Head(jobs) /\ IsReaction(jobs, 1)
    BY <1>2, FateParts DEF IsReaction
  <2>2. Truthful(jobs)
    BY FateParts DEF Following
  <2> QED BY <2>1, <2>2, FateParts, QueuedSettled DEF Tells
<1>9. UNCHANGED <<promiseOf, held, made, runs>>
  BY <1>1 DEF scriptVars, runVars
<1>10. Locking(q, fulfil, promiseOf, held) /\ Locking(jobs, fulfil, promiseOf, held)
       /\ ListsApt(fulfil, reject)
  BY <1>6, FateParts DEF Locking
<1>11. \/ /\ r.handler.call = "script"
          /\ NothingSettled(q, <<handler>>) /\ resolved' = resolved
       \/ /\ r.handler.call = "none"
          /\ \/ ResolveCapability(cap, argument, q, <<>>)
             \/ RejectCapability(cap, argument, q, <<>>)
       \/ r.handler.call = "resolve" /\ Resolve(hand, argument, q, <<native>>)
       \/ r.handler.call = "reject" /\ Reject(hand, argument, q, <<native>>)
  BY DEF RunReaction
<1> HIDE DEF r, argument, q, native, handler, cap, hand, from
<1>12. CASE r.handler.call \in {"script", "none"}
  <2>1. \A t \in Settlers : \A o : Ties(q, fulfil, t, o) <=> Ties(jobs, fulfil, t, o)
    <3>1. \A t \in Settlers : t # hand
      BY <1>4, <1>12, NoneAssumption
    <3> QED BY <1>6, <3>1
  <2>2. CASE NothingSettled(q, <<handler>>) /\ resolved' = resolved
    <3>1. /\ jobs' = q /\ state' = state /\ result' = result
          /\ fulfil' = fulfil /\ reject' = reject
      BY <2>2 DEF NothingSettled, promiseVars
    <3>2. \A o, y : Relocked(o, y) <=> Locked(o, y)
      BY <1>6, <1>9, <2>1, <2>2, <3>1 DEF Relocked, Locked, Locks
    <3>3. Moves
      BY <3>1, <3>2 DEF Moves, Same
    <3> QED BY <1>6, <1>9, <1>10, <3>1, <3>3 DEF Fating
  <2>3. CASE \/ ResolveCapability(cap, argument, q, <<>>)
             \/ RejectCapability(cap, argument, q, <<>>)
    <3>1. PICK rest \in Seq(Frames) : rest = <<>>
      BY EmptySeq
    <3>2. \/ ResolveCapability(cap, argument, q, rest)
          \/ argument \in Data /\ RejectCapability(cap, argument, q, rest)
      BY <1>3, <2>3, <3>1
    <3>3. argument \in Data \cup Promises /\ (argument \in Promises => Exists(argument))
      BY <1>3
    <3> QED BY <1>2, <1>4, <1>6, <1>7, <1>9, <2>1, <3>2, <3>3, CallMoves
  <2> QED BY <1>11, <1>12, <2>2, <2>3
<1>13. CASE r.handler.call \in {"resolve", "reject"}
  <2> DEFINE p == promiseOf[hand]
  <2>0. <<native>> \in Seq(Frames)
    BY <1>5
  <2>1. PICK rest \in Seq(Frames) : rest = <<native>>
    BY <2>0
  <2>2. /\ argument \in Data \cup Promises /\ (argument \in Promises => Exists(argument))
        /\ hand \in Made(promiseOf) /\ p \in Promises
    BY <1>3, <1>4, <1>13, FateParts DEF Made, TypeInv, TypeOK
  <2>3. \/ r.handler.call = "resolve" /\ Resolve(hand, argument, q, rest)
        \/ r.handler.call = "reject" /\ Reject(hand, argument, q, rest)
    BY <1>11, <1>13, <2>1
  <2>4. \A t \in Settlers \ {hand} : \A o : Ties(q, fulfil, t, o) <=> Ties(jobs, fulfil, t, o)
    BY <1>6
  <2>5. TypeInv /\ OneResolver /\ Listing
        /\ (Resolve(hand, argument, q, rest) \/ (argument \in Data /\ Reject(hand, argument, q, rest)))
    BY <1>3, <2>3, FateParts
  <2>6. /\ \A o \in Promises : o # p \/ resolved[hand] => Same(o)
        /\ QueueApt(jobs') /\ ListsApt(fulfil', reject')
        /\ Locking(jobs', fulfil', promiseOf', held)
        /\ ~resolved[hand] => /\ state[p] = "pending"
                              /\ \A o : Locked(p, o) <=> Ties(jobs, fulfil, hand, o)
        /\ ~resolved[hand] /\ Reject(hand, argument, q, rest) => Ends(p, "rejected", argument)
        /\ ~resolved[hand] /\ Resolve(hand, argument, q, rest) =>
              \/ argument \in Primitives /\ Ends(p, "fulfilled", argument)
              \/ argument = p /\ Ends(p, "rejected", TypeError)
              \/ argument = ForeignObject /\ state'[p] = "pending" /\ Freed(p)
              \/ argument \in Promises \ {p} /\ state'[p] = "pending" /\ Relocked(p, argument)
    BY <1>2, <1>6, <1>9, <1>10, <2>2, <2>4, <2>5, FunctionMoves
  <2> HIDE DEF p
  <2>7. Fating'
    BY <1>9, <2>6 DEF Fating
  <2>8. CASE resolved[hand]
    BY <2>6, <2>7, <2>8 DEF Moves
  <2>9. CASE ~resolved[hand]
    <3>1. state[p] = "pending" /\ Locked(p, from)
      BY <1>6, <2>6, <2>9
    <3>2. /\ r.handler.call = "resolve" => state[from] = "fulfilled"
          /\ r.handler.call = "reject" => state[from] = "rejected"
      BY <1>6, <1>8 DEF Apt, OutcomeOf
    <3>3. \/ Ends(p, state[from], result[from])
          \/ /\ state[from] = "fulfilled" /\ result[from] = ForeignObject
             /\ state'[p] = "pending" /\ Freed(p)
      <4>1. CASE r.handler.call = "resolve" /\ Resolve(hand, argument, q, rest)
        BY <1>3, <1>8, <2>2, <2>6, <2>9, <3>2, <4>1
      <4>2. CASE r.handler.call = "reject" /\ Reject(hand, argument, q, rest)
        BY <1>8, <2>6, <2>9, <3>2, <4>2
      <4> QED BY <2>3, <4>1, <4>2
    <3>4. Follows(p)
      BY <1>8, <3>1, <3>3 DEF Follows
    <3> QED BY <2>2, <2>6, <2>7, <3>4 DEF Moves
  <2> QED BY <2>8, <2>9
<1> QED BY <1>11, <1>12, <1>13

LEMMA NextFates == FateInv /\ [Next]_vars => Moves /\ FateInv'
<1> SUFFICES ASSUME FateInv, [Next]_vars PROVE Moves /\ FateInv'
  OBVIOUS
<1>1. AnswerInv'
  BY NextAnswers DEF FateInv
<1>2. CASE StartRun \/ Stop \/ FinishDrain \/ UNCHANGED vars
  BY <1>1, <1>2, RunStepFates DEF FateInv
<1>3. CASE ScriptCalls
  BY <1>1, <1>3, ConstructFates, CallFates, ThenFates, AwaitFates DEF FateInv, ScriptCalls
<1>4. CASE ScriptAnswers
  BY <1>1, <1>4, GetterFates, HandlerFates, ThenMethodFates, RunStepFates
     DEF FateInv, ScriptAnswers
<1>5. CASE EngineSteps
  BY <1>1, <1>5, HandlerFates, RunReactionFates, AdoptFates, CallForeignThenFates,
     RunStepFates DEF FateInv, EngineSteps
<1> QED BY <1>2, <1>3, <1>4, <1>5 DEF Next

LEMMA InitFates == Init => FateInv
<1> SUFFICES ASSUME Init PROVE FateInv
  OBVIOUS
<1>1. /\ jobs = <<>> /\ \A p \in Promises : fulfil[p] = <<>> /\ reject[p] = <<>>
  BY DEF Init
<1>2. \A s, o : ~Ties(jobs, fulfil, s, o) /\ ~Asks(jobs, s, o)
  BY <1>1 DEF Ties, Asks, WaitsAs
<1> QED BY <1>1, <1>2, InitAnswers DEF FateInv, Fating, QueueApt, ListsApt, Locking

-----------------------------------------------------------------------------
(* The mapping: what PromiseJobs says the fate of a promise is.            *)

LEMMA LockedToIs ==
    ASSUME FateInv, NEW p \in Promises
    PROVE  \A o : o \in LockedTo(p) <=> Locked(p, o)
<1> DEFINE asked == {jobs[i].thenable : i \in {j \in DOMAIN jobs : IsThenableJob(j, p)}}
           ways == {w \in WaitingReactions : /\ w.handler.settler # None
                                             /\ Unclaimed(w.handler.settler)
                                             /\ promiseOf[w.handler.settler] = p}
<1>1. LockedTo(p) = asked \cup {w.of : w \in ways}
  BY DEF LockedTo
<1>2. \A o : o \in asked <=> Asks(jobs, p, o)
  BY DEF Asks, ThenableFor, IsThenableJob
<1>3. /\ \A r : WaitsAs(jobs, fulfil, r) => r \in WaitingReactions
      /\ \A w \in WaitingReactions : \E r :
            /\ WaitsAs(jobs, fulfil, r)
            /\ r.handler.settler = w.handler.settler /\ r.of = w.of
  BY FateParts, WaitingReactionsAre
<1>4. \A r : WaitsAs(jobs, fulfil, r) => r.handler.settler \in Settlers \cup {None}
  BY FateParts, AnswerParts, WaitingOld DEF Made
<1>5. \A s \in Settlers : s # None /\ (Unclaimed(s) <=> Open(promiseOf, resolved, s))
  BY NoneAssumption DEF Unclaimed, Open
<1>6. ASSUME NEW o, NEW w \in ways, o = w.of PROVE Locked(p, o)
  <2>1. PICK r : /\ WaitsAs(jobs, fulfil, r)
                 /\ r.handler.settler = w.handler.settler /\ r.of = w.of
    BY <1>3
  <2>2. w.handler.settler \in Settlers
    BY <1>4, <2>1
  <2>3. Ties(jobs, fulfil, w.handler.settler, o)
    BY <1>6, <2>1 DEF Ties
  <2> QED BY <1>5, <2>2, <2>3 DEF Locked, Locks
<1>7. ASSUME NEW o, NEW s \in Settlers, Open(promiseOf, resolved, s), promiseOf[s] = p,
             Ties(jobs, fulfil, s, o)
      PROVE  \E w \in ways : o = w.of
  <2>1. PICK r : WaitsAs(jobs, fulfil, r) /\ r.handler.settler = s /\ r.of = o
    BY <1>7 DEF Ties
  <2> QED BY <1>3, <1>5, <1>7, <2>1
<1> HIDE DEF asked, ways
<1> QED BY <1>1, <1>2, <1>6, <1>7 DEF Locked, Locks

LEMMA LockedToOne ==
    ASSUME FateInv, NEW p \in Promises, NEW o, NEW y, Locked(p, o), Locked(p, y)
    PROVE  o = y
<1>1. OneOf(state, promiseOf, resolved, jobs, stack)
  BY FateParts, OneResolverIsOneOf
<1>2. CASE Asks(jobs, p, o)
  <2>1. \A s \in Settlers : Open(promiseOf, resolved, s) => promiseOf[s] # p
    BY <1>1, <1>2 DEF OneOf, SoleOf, Asks
  <2>2. Asks(jobs, p, y)
    BY <2>1 DEF Locked, Locks
  <2> QED BY <1>1, <1>2, <2>2 DEF OneOf, SoleOf, Asks
<1>3. CASE ~Asks(jobs, p, o)
  <2>1. PICK s \in Settlers : /\ Open(promiseOf, resolved, s) /\ promiseOf[s] = p
                              /\ Ties(jobs, fulfil, s, o)
    BY <1>3 DEF Locked, Locks
  <2>2. \A t \in Settlers : Open(promiseOf, resolved, t) /\ promiseOf[t] = p => t = s
    BY <1>1, <2>1 DEF OneOf, SoleOf
  <2>3. ~Asks(jobs, p, y)
    BY <1>1, <2>1 DEF OneOf, SoleOf, Asks
  <2>4. Ties(jobs, fulfil, s, y)
    BY <2>2, <2>3 DEF Locked, Locks
  <2> QED BY <2>1, <2>4, FateParts DEF Locking
<1> QED BY <1>2, <1>3

Known == [Promises -> {"absent", "pending", "fulfilled", "rejected"}]

FateShown ==
    /\ fate = [p \in Promises |-> fate[p]] /\ state \in Known /\ result \in [Promises -> Data]
    /\ \A p, o \in Promises : Locked(p, o) => state[p] = "pending" /\ fate[p] = Fate!Bound(o)
    /\ \A p \in Promises :
          /\ state[p] \in {"fulfilled", "rejected"} =>
                fate[p] = [is |-> state[p], with |-> result[p]]
          /\ state[p] = "absent" => fate[p] = Fate!Absent
          /\ state[p] = "pending" /\ Free(p) => fate[p] = Fate!Undecided

LEMMA FateIs == FateInv => FateShown
<1> SUFFICES ASSUME FateInv PROVE FateShown
  OBVIOUS
<1>1. fate = [p \in Promises |-> fate[p]]
  BY DEF fate
<1>2. state \in Known /\ result \in [Promises -> Data]
  BY FateParts DEF TypeInv, TypeOK, Known
<1>3. ASSUME NEW p \in Promises
      PROVE  fate[p] = IF state[p] \in {"fulfilled", "rejected"}
                       THEN [is |-> state[p], with |-> result[p]]
                       ELSE IF state[p] = "absent" THEN [is |-> "absent"]
                       ELSE IF LockedTo(p) \cap Promises # {}
                       THEN [is |-> "bound", to |-> CHOOSE q \in LockedTo(p) : TRUE]
                       ELSE [is |-> "undecided"]
  BY DEF fate
<1>4. ASSUME NEW p \in Promises, NEW o \in Promises, Locked(p, o)
      PROVE  state[p] = "pending" /\ fate[p] = Fate!Bound(o)
  <2>1. state[p] = "pending"
    BY <1>4, FateParts, LockedPending
  <2>2. o \in LockedTo(p) /\ \A y \in LockedTo(p) : y = o
    BY <1>4, LockedToIs, LockedToOne
  <2>3. LockedTo(p) \cap Promises # {} /\ (CHOOSE q \in LockedTo(p) : TRUE) = o
    BY <2>2
  <2> QED BY <1>3, <2>1, <2>3 DEF Fate!Bound
<1>5. ASSUME NEW p \in Promises
      PROVE  /\ state[p] \in {"fulfilled", "rejected"} =>
                    fate[p] = [is |-> state[p], with |-> result[p]]
             /\ state[p] = "absent" => fate[p] = Fate!Absent
             /\ state[p] = "pending" /\ Free(p) => fate[p] = Fate!Undecided
  <2>1. Free(p) => LockedTo(p) \cap Promises = {}
    BY LockedToIs DEF Free
  <2> QED BY <1>3, <2>1 DEF Fate!Absent, Fate!Undecided
<1> QED BY <1>1, <1>2, <1>4, <1>5 DEF FateShown

LEMMA FateIsAfter == FateInv' => FateShown'
<1>1. (FateInv => FateShown)'
  <2>1. FateInv => FateShown
    BY FateIs
  <2> QED BY <2>1, PTL
<1> QED BY <1>1

LEMMA FateMoves ==
    ASSUME FateInv, FateInv', Moves
    PROVE  [Fate!Next]_fate
<1>1. /\ fate = [p \in Promises |-> fate[p]] /\ state \in Known /\ result \in [Promises -> Data]
      /\ \A p, o \in Promises : Locked(p, o) => state[p] = "pending" /\ fate[p] = Fate!Bound(o)
      /\ \A p \in Promises :
            /\ state[p] \in {"fulfilled", "rejected"} =>
                  fate[p] = [is |-> state[p], with |-> result[p]]
            /\ state[p] = "absent" => fate[p] = Fate!Absent
            /\ state[p] = "pending" /\ Free(p) => fate[p] = Fate!Undecided
  BY FateIs DEF FateShown
<1>2. /\ fate' = [p \in Promises |-> fate'[p]] /\ state' \in Known /\ result' \in [Promises -> Data]
      /\ \A p, o \in Promises :
            Relocked(p, o) => state'[p] = "pending" /\ fate'[p] = Fate!Bound(o)
      /\ \A p \in Promises :
            /\ state'[p] \in {"fulfilled", "rejected"} =>
                  fate'[p] = [is |-> state'[p], with |-> result'[p]]
            /\ state'[p] = "absent" => fate'[p] = Fate!Absent
            /\ state'[p] = "pending" /\ Freed(p) => fate'[p] = Fate!Undecided
  <2>1. FateShown'
    BY FateIsAfter
  <2> QED BY <2>1 DEF FateShown, Locked, Relocked, Free, Freed, Known,
                      Fate!Bound, Fate!Absent, Fate!Undecided
<1>3. ASSUME NEW p \in Promises, Same(p) PROVE fate'[p] = fate[p]
  <2>1. CASE \E o \in Promises : Locked(p, o)
    BY <1>1, <1>2, <1>3, <2>1 DEF Same
  <2>2. CASE Free(p)
    <3>1. Freed(p)
      BY <1>3, <2>2 DEF Same, Free, Freed
    <3>2. state[p] \in {"absent", "pending", "fulfilled", "rejected"}
      BY <1>1 DEF Known
    <3> QED BY <1>1, <1>2, <1>3, <2>2, <3>1, <3>2 DEF Same
  <2> QED BY <2>1, <2>2 DEF Free
<1>4. CASE \A p \in Promises : Same(p)
  BY <1>1, <1>2, <1>3, <1>4
<1>5. CASE \E p \in Promises : /\ \A o \in Promises \ {p} : Same(o)
                               /\ Creates(p) \/ Binds(p) \/ Decides(p) \/ Follows(p)
  <2>1. PICK p \in Promises : /\ \A o \in Promises \ {p} : Same(o)
                              /\ Creates(p) \/ Binds(p) \/ Decides(p) \/ Follows(p)
    BY <1>5
  <2>2. fate' = [fate EXCEPT ![p] = fate'[p]]
    <3>1. \A o \in Promises : o # p => fate'[o] = fate[o]
      BY <1>3, <2>1
    <3>2. DOMAIN fate = Promises /\ DOMAIN fate' = Promises
      BY <1>1, <1>2
    <3> QED BY <1>1, <1>2, <3>1, <3>2
  <2>3. CASE Creates(p)
    <3>1. fate[p] = Fate!Absent /\ fate'[p] = Fate!Undecided
      BY <1>1, <1>2, <2>3 DEF Creates
    <3>2. fate'[p] # fate[p]
      BY <3>1 DEF Fate!Absent, Fate!Undecided
    <3> QED BY <2>2, <3>1, <3>2 DEF Fate!Next, Fate!Step, Fate!Create
  <2>4. CASE Binds(p)
    <3>1. PICK q \in Promises \ {p} : Exists(q) /\ Relocked(p, q)
      BY <2>4 DEF Binds
    <3>2. fate[p] = Fate!Undecided /\ fate'[p] = Fate!Bound(q)
      BY <1>1, <1>2, <2>4, <3>1 DEF Binds
    <3>3. fate'[p] # fate[p]
      BY <3>2 DEF Fate!Bound, Fate!Undecided
    <3>4. fate[q] # Fate!Absent
      <4>1. CASE state[q] = "pending" /\ Free(q)
        BY <1>1, <4>1 DEF Fate!Undecided, Fate!Absent
      <4>2. CASE \E o \in Promises : Locked(q, o)
        BY <1>1, <4>2 DEF Fate!Bound, Fate!Absent
      <4>3. CASE state[q] \in {"fulfilled", "rejected"}
        BY <1>1, <4>3 DEF Fate!Absent
      <4>4. state[q] \in {"pending", "fulfilled", "rejected"}
        BY <1>1, <3>1 DEF Known, Exists
      <4> QED BY <4>1, <4>2, <4>3, <4>4 DEF Free
    <3> QED BY <2>2, <3>1, <3>2, <3>3, <3>4 DEF Fate!Next, Fate!Step, Fate!Bind
  <2>5. CASE Decides(p)
    <3>1. PICK to \in {"fulfilled", "rejected"}, value \in Data : Ends(p, to, value)
      BY <2>5 DEF Decides
    <3>2. fate[p] = Fate!Undecided /\ fate'[p] = [is |-> to, with |-> value]
      BY <1>1, <1>2, <2>5, <3>1 DEF Decides, Ends
    <3>3. fate'[p] \in Fate!Settled /\ fate'[p] # fate[p]
      BY <3>2 DEF Fate!Settled, Fate!Undecided
    <3> QED BY <2>2, <3>2, <3>3 DEF Fate!Next, Fate!Step, Fate!Decide
  <2>6. CASE Follows(p)
    <3>1. PICK q \in Promises :
             /\ Locked(p, q) /\ state[q] \in {"fulfilled", "rejected"}
             /\ \/ Ends(p, state[q], result[q])
                \/ /\ state[q] = "fulfilled" /\ result[q] = ForeignObject
                   /\ state'[p] = "pending" /\ Freed(p)
      BY <2>6 DEF Follows
    <3>2. fate[p] = Fate!Bound(q) /\ fate[q] = [is |-> state[q], with |-> result[q]]
          /\ fate[q] \in Fate!Settled
      BY <1>1, <3>1 DEF Fate!Settled
    <3>3. CASE Ends(p, state[q], result[q])
      <4>1. fate'[p] = fate[q]
        BY <1>2, <3>1, <3>2, <3>3 DEF Ends
      <4>2. fate'[p] # fate[p]
        BY <3>1, <3>2, <4>1 DEF Fate!Bound
      <4> QED BY <2>2, <3>2, <4>1, <4>2 DEF Fate!Next, Fate!Step, Fate!Follow
    <3>4. CASE /\ state[q] = "fulfilled" /\ result[q] = ForeignObject
               /\ state'[p] = "pending" /\ Freed(p)
      <4>1. fate'[p] = Fate!Undecided /\ fate[q] = [is |-> "fulfilled", with |-> ForeignObject]
        BY <1>2, <3>2, <3>4
      <4>2. fate'[p] # fate[p]
        BY <3>2, <4>1 DEF Fate!Bound, Fate!Undecided
      <4> QED BY <2>2, <3>2, <4>1, <4>2 DEF Fate!Next, Fate!Step, Fate!Follow
    <3> QED BY <3>1, <3>3, <3>4
  <2> QED BY <2>1, <2>3, <2>4, <2>5, <2>6
<1> QED BY <1>4, <1>5 DEF Moves

LEMMA FateBegins == Init => Fate!Init
<1> SUFFICES ASSUME Init PROVE Fate!Init
  OBVIOUS
<1>1. \A p \in Promises : fate[p] = Fate!Absent
  BY DEF fate, Init, Fate!Absent
<1>2. fate = [p \in Promises |-> fate[p]]
  BY DEF fate
<1> QED BY <1>1, <1>2 DEF Fate!Init

(* What the resolving functions, the jobs and the getters do to a promise  *)
(* is what PromiseFate says may happen to one: it is settled once and for  *)
(* ever, or bound to one other promise, whose end is the only end it then  *)
(* has, whatever else scripts call meanwhile and whenever they are         *)
(* stopped.                                                                *)
THEOREM FateIsKept == Spec => KeepsPromises
<1>1. Init => FateInv /\ Fate!Init
  BY InitFates, FateBegins
<1>2. FateInv /\ [Next]_vars => FateInv' /\ [Fate!Next]_fate
  BY NextFates, FateMoves
<1> QED BY <1>1, <1>2, PTL DEF Spec, KeepsPromises, Fate!Spec
=============================================================================
