---------------------------- MODULE SharedBlock ----------------------------
(***************************************************************************)
(* A block of shared memory and the agents that hold it (heap/buffer.rs,   *)
(* builtins/shared.rs, the waiters of vm/mod.rs, the drain of vm/jobs.rs). *)
(* Agents are threads.  Every critical section of the block's lock is one  *)
(* step, and the only thing that happens between two of them is chosen by  *)
(* the operating system.                                                   *)
(*                                                                         *)
(* A blocking `Atomics.wait` parks the thread on the block's list; a       *)
(* `waitAsync` leaves a promise on a list of the agent's own, which only   *)
(* the agent itself notifies (DR-0024).                                    *)
(***************************************************************************)
EXTENDS Integers, Sequences, FiniteSets, SequencesExt

CONSTANTS Agents,
          CanBlock,      \* the agents whose host lets them block
          Budgeted,      \* the agents whose host gave the run a deadline
          Polling,       \* bound: the agents whose programs queue jobs
          SlotValues, Zero,  \* what a slot may hold, and at first
          InitialLength, MaxLength,  \* in slots; max_byte_length
          MaxWaits,      \* bound: blocking waits, of all agents
          MaxPromises    \* bound: promises of waitAsync, of all agents

ASSUME SharedBlockAssumption ==
    /\ {CanBlock, Budgeted, Polling} \subseteq SUBSET Agents
    /\ Zero \in SlotValues
    /\ {InitialLength, MaxLength, MaxWaits, MaxPromises} \subseteq Nat
    /\ InitialLength <= MaxLength

VARIABLES
    bytes,     \* State.bytes, by slot
    waiters,   \* State.waiters: the blocking waits, oldest first
    next,      \* State.next: what the next of them is called
    asleep,    \* the agents blocked on the condition variable `woken`
    phase,     \* what each agent is doing
    local,     \* what the operation it is in the middle of holds
    parked,    \* Vm.waiters: the asynchronous waits of each agent
    promises,  \* how many promises waitAsync has made
    jobs,      \* how many jobs are in each agent's queue
    due,       \* the waits and promises whose deadline has passed
    answer,    \* history: how each blocking wait ended
    settled,   \* history: how each promise was settled
    taken,     \* history: the blocking waits a notify took off the list
    owes       \* history: slots an agent changed and has not notified all of

block == <<bytes, waiters, next, asleep>>
blockVars == <<block, phase, local, parked, promises, jobs, due, answer, settled,
               taken, owes>>

Slots == 1..MaxLength
Waits == 1..MaxWaits
Promises == 1..MaxPromises
Everyone == MaxWaits + MaxPromises   \* a missing count is +oo
Deadlines == (Waits \X {"wait"}) \cup (Promises \X {"promise"})

Phases == {"script", "job", "waiting", "notifying", "growing",
           "draining", "sleeping", "ended"}
Running(a) == phase[a] \in {"script", "job"}
Resume(a) == phase' = [phase EXCEPT ![a] = local[a].from]

Idle == [from |-> "script"]
Waiting == [from : {"script", "job"}, id : Waits, slot : Slots, timed : BOOLEAN]
Notifying == [from : {"script", "job"}, slot : Slots, left : 0..Everyone]
Growing == [from : {"script", "job"}, length : 1..MaxLength + 1]

BlockTypeOK ==
    /\ bytes \in Seq(SlotValues) /\ Len(bytes) <= MaxLength
    /\ waiters \in Seq([id : Waits, slot : Slots, expected : SlotValues])
    /\ next \in 1..MaxWaits + 1
    /\ asleep \subseteq {a \in Agents : phase[a] = "waiting"}
    /\ phase \in [Agents -> Phases]
    /\ \A a \in Agents :
          local[a] \in CASE phase[a] = "waiting" -> Waiting
                         [] phase[a] = "notifying" -> Notifying
                         [] phase[a] = "growing" -> Growing
                         [] OTHER -> {Idle}
    /\ parked \in [Agents -> Seq([promise : Promises, slot : Slots, timed : BOOLEAN])]
    /\ promises \in 0..MaxPromises
    /\ jobs \in [Agents -> 0..MaxPromises + 1]
    /\ due \subseteq Deadlines
    /\ answer \in [Waits -> {"none", "ok", "timed-out"}]
    /\ settled \in [Promises -> {"none", "pending", "ok", "timed-out"}]
    /\ taken \subseteq Waits
    /\ owes \in [Agents -> SUBSET Slots]

BlockInit ==
    /\ bytes = [s \in 1..InitialLength |-> Zero]
    /\ waiters = <<>> /\ next = 1 /\ asleep = {}
    /\ phase = [a \in Agents |-> "script"]
    /\ local = [a \in Agents |-> Idle]
    /\ parked = [a \in Agents |-> <<>>] /\ promises = 0
    /\ jobs = [a \in Agents |-> 0]
    /\ due = {}
    /\ answer = [w \in Waits |-> "none"]
    /\ settled = [p \in Promises |-> "none"]
    /\ taken = {}
    /\ owes = [a \in Agents |-> {}]

-----------------------------------------------------------------------------
(* Writing: `store`, the read-modify-writes and a compareExchange that     *)
(* finds what it expects each hold the lock from the read to the write.    *)

Write(a, s, v) ==
    /\ Running(a)
    /\ s \in DOMAIN bytes
    /\ bytes' = [bytes EXCEPT ![s] = v]
    /\ owes' = [owes EXCEPT ![a] = IF v = bytes[s] THEN @ ELSE @ \cup {s}]
    /\ UNCHANGED <<waiters, next, asleep, phase, local, parked, promises, jobs,
                   due, answer, settled, taken>>

(* grow: the length is compared in one critical section and set in the     *)
(* next.                                                                   *)
GrowBegin(a, length) ==
    /\ Running(a)
    /\ length >= Len(bytes)
    /\ phase' = [phase EXCEPT ![a] = "growing"]
    /\ local' = [local EXCEPT ![a] = [from |-> phase[a], length |-> length]]
    /\ UNCHANGED <<block, parked, promises, jobs, due, answer, settled, taken, owes>>

GrowEnd(a) ==
    /\ phase[a] = "growing"
    /\ LET length == local[a].length
       IN  bytes' = IF length > MaxLength THEN bytes
                    ELSE [s \in 1..length |->
                             IF s \in DOMAIN bytes THEN bytes[s] ELSE Zero]
    /\ Resume(a)
    /\ local' = [local EXCEPT ![a] = Idle]
    /\ UNCHANGED <<waiters, next, asleep, parked, promises, jobs, due, answer,
                   settled, taken, owes>>

-----------------------------------------------------------------------------
(* Block::wait.  A slot that does not hold what was expected answers       *)
(* "not-equal" at once, and changes nothing.                               *)

Join(a, s, v, timed) ==
    /\ waiters' = Append(waiters, [id |-> next, slot |-> s, expected |-> v])
    /\ next' = next + 1
    /\ asleep' = asleep \cup {a}
    /\ phase' = [phase EXCEPT ![a] = "waiting"]
    /\ local' = [local EXCEPT ![a] =
                    [from |-> phase[a], id |-> next, slot |-> s, timed |-> timed]]
    /\ UNCHANGED <<bytes, parked, promises, jobs, due, answer, settled, taken, owes>>

ParkUncompared(a, s, v, timed) ==
    /\ Running(a) /\ a \in CanBlock /\ next <= MaxWaits
    /\ s \in DOMAIN bytes
    /\ Join(a, s, v, timed)
Park(a, s, v, timed) ==
    /\ Running(a) /\ a \in CanBlock /\ next <= MaxWaits
    /\ s \in DOMAIN bytes /\ bytes[s] = v
    /\ Join(a, s, v, timed)

(* A deadline that has passed before the first look at the clock: the wait *)
(* has a name and is on the list only while the lock is held.              *)
WaitElapsed(a, s, v) ==
    /\ Running(a) /\ a \in CanBlock /\ next <= MaxWaits
    /\ s \in DOMAIN bytes /\ bytes[s] = v
    /\ next' = next + 1
    /\ answer' = [answer EXCEPT ![next] = "timed-out"]
    /\ due' = due \cup {<<next, "wait">>}
    /\ UNCHANGED <<bytes, waiters, asleep, phase, local, parked, promises, jobs,
                   settled, taken, owes>>

(* The condition variable lets a thread go when its time is over, or for   *)
(* no reason at all.                                                       *)
Wake(a) ==
    /\ asleep' = asleep \ {a}
    /\ UNCHANGED <<bytes, waiters, next, phase, local, parked, promises, jobs, due,
                   answer, settled, taken, owes>>
WakeOnTime(a) == /\ a \in asleep /\ local[a].timed
                 /\ <<local[a].id, "wait">> \in due
                 /\ Wake(a)
WakeSpuriously(a) == a \in asleep /\ Wake(a)

(* What is left of a list of waits when some are taken off it: the others, *)
(* in the order they stood in.                                             *)
InListOrder(S) == {order \in [1..Cardinality(S) -> S] :
                    /\ \A j, k \in DOMAIN order : j < k => order[j] < order[k]
                    /\ \A i \in S : \E j \in DOMAIN order : order[j] = i}
Without(list, gone) ==
    {[i \in DOMAIN order |-> list[order[i]]] : order \in InListOrder(DOMAIN list \ gone)}

(* A thread that has the lock again looks whether it was taken off the     *)
(* list, and only then at the clock.                                       *)
Places(id) == {i \in DOMAIN waiters : waiters[i].id = id}
Listed(id) == Places(id) # {}
End(a, how) ==
    /\ answer' = [answer EXCEPT ![local[a].id] = how]
    /\ Resume(a)
    /\ local' = [local EXCEPT ![a] = Idle]
    /\ UNCHANGED asleep

RecheckClockFirst(a) ==
    /\ phase[a] = "waiting" /\ a \notin asleep
    /\ LET id == local[a].id
           late == local[a].timed /\ <<id, "wait">> \in due
       IN  \/ ~late /\ ~Listed(id) /\ End(a, "ok") /\ UNCHANGED waiters
           \/ /\ late /\ End(a, "timed-out")
              /\ waiters' \in Without(waiters, Places(id))
           \/ /\ Listed(id) /\ ~late
              /\ asleep' = asleep \cup {a}
              /\ UNCHANGED <<waiters, answer, phase, local>>
    /\ UNCHANGED <<bytes, next, parked, promises, jobs, due, settled, taken, owes>>
Recheck(a) ==
    /\ phase[a] = "waiting" /\ a \notin asleep
    /\ LET id == local[a].id
           late == local[a].timed /\ <<id, "wait">> \in due
       IN  \/ ~Listed(id) /\ End(a, "ok") /\ UNCHANGED waiters
           \/ /\ Listed(id) /\ late /\ End(a, "timed-out")
              /\ waiters' \in Without(waiters, Places(id))
           \/ /\ Listed(id) /\ ~late
              /\ asleep' = asleep \cup {a}
              /\ UNCHANGED <<waiters, answer, phase, local>>
    /\ UNCHANGED <<bytes, next, parked, promises, jobs, due, settled, taken, owes>>

-----------------------------------------------------------------------------
(* notify: the threads on the block first, in the block's lock, then the   *)
(* promises of the agent that notifies.                                    *)

(* The first `count` members of a list of waits on a slot.                 *)
FirstOnNewest(list, s, count) ==
    {i \in DOMAIN list : /\ list[i].slot = s
                         /\ Cardinality({j \in DOMAIN list : j > i /\ list[j].slot = s})
                               < count}
FirstOn(list, s, count) ==
    {i \in DOMAIN list : /\ list[i].slot = s
                         /\ Cardinality({j \in 1..i - 1 : list[j].slot = s}) < count}
NotifyBlock(a, s, count) ==
    LET gone == FirstOn(waiters, s, count)
    IN  /\ Running(a)
        /\ s \in DOMAIN bytes
        /\ waiters' \in Without(waiters, gone)
        /\ taken' = taken \cup {waiters[i].id : i \in gone}
        /\ asleep' = {}
        /\ phase' = [phase EXCEPT ![a] = "notifying"]
        /\ local' = [local EXCEPT ![a] = [from |-> phase[a], slot |-> s,
                                          left |-> count - Cardinality(gone)]]
        /\ owes' = [owes EXCEPT ![a] = IF count = Everyone THEN @ \ {s} ELSE @]
        /\ UNCHANGED <<bytes, next, parked, promises, jobs, due, answer, settled>>

(* Promises taken off an agent's list; settling each of them queues its    *)
(* reaction.                                                               *)
TakeOff(a, gone) == \E left \in Without(parked[a], gone) :
                       parked' = [parked EXCEPT ![a] = left]
Settle(a, gone, how) ==
    /\ settled' = [p \in Promises |->
          IF \E i \in gone : parked[a][i].promise = p THEN how ELSE settled[p]]
    /\ jobs' = [jobs EXCEPT ![a] = @ + Cardinality(gone)]

NotifyOwnKeeping(a) ==
    /\ phase[a] = "notifying"
    /\ Settle(a, FirstOn(parked[a], local[a].slot, local[a].left), "ok")
    /\ UNCHANGED parked
    /\ Resume(a)
    /\ local' = [local EXCEPT ![a] = Idle]
    /\ UNCHANGED <<block, promises, due, answer, taken, owes>>
NotifyOwn(a) ==
    /\ phase[a] = "notifying"
    /\ LET gone == FirstOn(parked[a], local[a].slot, local[a].left)
       IN  TakeOff(a, gone) /\ Settle(a, gone, "ok")
    /\ Resume(a)
    /\ local' = [local EXCEPT ![a] = Idle]
    /\ UNCHANGED <<block, promises, due, answer, taken, owes>>

-----------------------------------------------------------------------------
(* waitAsync: a slot that differs and a timeout of zero answer at once.    *)

WaitAsync(a, s, v, timed) ==
    /\ Running(a) /\ promises < MaxPromises
    /\ s \in DOMAIN bytes /\ bytes[s] = v
    /\ promises' = promises + 1
    /\ settled' = [settled EXCEPT ![promises + 1] = "pending"]
    /\ parked' = [parked EXCEPT ![a] =
                     Append(@, [promise |-> promises + 1, slot |-> s, timed |-> timed])]
    /\ UNCHANGED <<block, phase, local, jobs, due, answer, taken, owes>>

(* A program that polls queues a job of its own.                           *)
Poll(a) ==
    /\ Running(a) /\ a \in Polling /\ jobs[a] = 0
    /\ jobs' = [jobs EXCEPT ![a] = 1]
    /\ UNCHANGED <<block, phase, local, parked, promises, due, answer, settled, taken, owes>>

(* expire_waiters.                                                         *)
Expired(a) == {i \in DOMAIN parked[a] : /\ parked[a][i].timed
                                        /\ <<parked[a][i].promise, "promise">> \in due}
ExpireWaiters(a) == TakeOff(a, Expired(a)) /\ Settle(a, Expired(a), "timed-out")

(* The script of a run ends, and the drain begins; a job ends.             *)
ScriptEnds(a) ==
    /\ phase[a] = "script"
    /\ phase' = [phase EXCEPT ![a] = "draining"]
    /\ UNCHANGED <<block, local, parked, promises, jobs, due, answer, settled, taken, owes>>

JobEndsUnasked(a) ==
    /\ phase[a] = "job"
    /\ UNCHANGED <<parked, settled, jobs>>
    /\ phase' = [phase EXCEPT ![a] = "draining"]
    /\ UNCHANGED <<block, local, promises, due, answer, taken, owes>>
JobEnds(a) ==
    /\ phase[a] = "job"
    /\ ExpireWaiters(a)
    /\ phase' = [phase EXCEPT ![a] = "draining"]
    /\ UNCHANGED <<block, local, promises, due, answer, taken, owes>>

DrainJob(a) ==
    /\ phase[a] = "draining" /\ jobs[a] > 0
    /\ jobs' = [jobs EXCEPT ![a] = @ - 1]
    /\ phase' = [phase EXCEPT ![a] = "job"]
    /\ UNCHANGED <<block, local, parked, promises, due, answer, settled, taken, owes>>

(* With no job left the drain sleeps until a deadline, if there is one.    *)
Owed(a) == \E i \in DOMAIN parked[a] : parked[a][i].timed
DrainOut(a) ==
    /\ phase[a] = "draining" /\ jobs[a] = 0
    /\ phase' = [phase EXCEPT ![a] = IF Owed(a) THEN "sleeping" ELSE "ended"]
    /\ UNCHANGED <<block, local, parked, promises, jobs, due, answer, settled, taken, owes>>

(* wait_for_a_deadline: until the first deadline or the run's own.         *)
SleepEnds(a) ==
    /\ phase[a] = "sleeping"
    /\ a \in Budgeted \/ Expired(a) # {}
    /\ ExpireWaiters(a)
    /\ phase' = [phase EXCEPT ![a] = IF Expired(a) # {} THEN "draining" ELSE "ended"]
    /\ UNCHANGED <<block, local, promises, due, answer, taken, owes>>

RunAgain(a) ==
    /\ phase[a] = "ended"
    /\ phase' = [phase EXCEPT ![a] = "script"]
    /\ UNCHANGED <<block, local, parked, promises, jobs, due, answer, settled, taken, owes>>

(* A deadline passes.                                                      *)
Ticking ==
    {<<local[a].id, "wait">> : a \in {b \in Agents : phase[b] = "waiting" /\ local[b].timed}}
    \cup UNION {{<<w.promise, "promise">> : w \in {u \in ToSet(parked[a]) : u.timed}}
                   : a \in Agents}
Elapse(d) ==
    /\ d \in Ticking \ due
    /\ due' = due \cup {d}
    /\ UNCHANGED <<block, phase, local, parked, promises, jobs, answer, settled, taken, owes>>

-----------------------------------------------------------------------------

Operate(a) ==
    \/ \E s \in Slots, v \in SlotValues :
          \/ Write(a, s, v)
          \/ WaitElapsed(a, s, v)
          \/ \E timed \in BOOLEAN : Park(a, s, v, timed) \/ WaitAsync(a, s, v, timed)
    \/ \E s \in Slots, count \in {0, 1, Everyone} : NotifyBlock(a, s, count)
    \/ \E length \in 1..MaxLength + 1 : GrowBegin(a, length)
    \/ Poll(a)
Continue(a) == GrowEnd(a) \/ NotifyOwn(a) \/ WakeOnTime(a) \/ Recheck(a)
Drain(a) == DrainJob(a) \/ DrainOut(a) \/ SleepEnds(a)

BlockNext ==
    \/ \E a \in Agents : \/ Operate(a) \/ Continue(a) \/ WakeSpuriously(a)
                          \/ ScriptEnds(a) \/ JobEnds(a) \/ Drain(a) \/ RunAgain(a)
    \/ \E d \in Deadlines : Elapse(d)

BlockSpec == BlockInit /\ [][BlockNext]_blockVars

(* Time passes, a thread that can have the lock gets it, a script ends and *)
(* the drain goes on.  Nothing makes the condition variable wake a thread  *)
(* nobody signalled.                                                       *)
FairSpec ==
    /\ BlockSpec
    /\ \A a \in Agents : /\ WF_blockVars(GrowEnd(a)) /\ WF_blockVars(NotifyOwn(a))
                         /\ WF_blockVars(WakeOnTime(a)) /\ WF_blockVars(Recheck(a))
                         /\ SF_blockVars(ScriptEnds(a)) /\ SF_blockVars(JobEnds(a))
                         /\ WF_blockVars(DrainJob(a)) /\ WF_blockVars(DrainOut(a))
                         /\ WF_blockVars(SleepEnds(a))
    /\ \A d \in Deadlines : WF_blockVars(Elapse(d))

-----------------------------------------------------------------------------

(* A wait a notify counted answers "ok", however late its thread gets the  *)
(* lock again and whatever the clock says then; one that was not is still  *)
(* on the list, once, or answered "timed-out" (Block::wait, Block::notify).*)
CountedIsAnswered ==
    /\ \A w \in 1..next - 1 :
          IF w \in taken THEN ~Listed(w) /\ answer[w] \in {"none", "ok"}
          ELSE \/ answer[w] = "timed-out" /\ ~Listed(w)
               \/ answer[w] = "none" /\ Cardinality(Places(w)) = 1
    /\ \A a \in Agents : phase[a] = "waiting" => answer[local[a].id] = "none"

(* No wake-up is lost: a wait is only on the list of a slot that no longer *)
(* holds what it waits on while whoever changed the slot has still to      *)
(* notify everyone (the module comment of heap/buffer.rs).                 *)
NoLostWakeup ==
    \A i \in DOMAIN waiters :
        \/ bytes[waiters[i].slot] = waiters[i].expected
        \/ \E a \in Agents : waiters[i].slot \in owes[a]

(* A notify with a count takes the waits of its slot off the block's list  *)
(* oldest first (Block::notify).                                           *)
Overtakes(list, later) ==
    \E i, j \in DOMAIN list :
        /\ i < j /\ list[i].slot = list[j].slot
        /\ list[i] \in ToSet(later) /\ list[j] \notin ToSet(later)
OldestFirst ==
    [][(\E a \in Agents : phase[a] # "notifying" /\ phase'[a] = "notifying")
          => ~Overtakes(waiters, waiters')]_blockVars

(* An answer is final: neither a wait nor a promise is answered twice, by  *)
(* a notify and then by its deadline.                                      *)
AnsweredOnce ==
    [][/\ \A w \in Waits : answer[w] # "none" => answer'[w] = answer[w]
       /\ \A p \in Promises : settled[p] \in {"ok", "timed-out"} =>
                                 settled'[p] = settled[p]
       /\ \A p \in Promises : settled[p] = "pending" =>
             \/ settled'[p] # "pending"
             \/ \E a \in Agents : \E w \in ToSet(parked'[a]) : w.promise = p]_blockVars

(* Every wait a notify took off the list, and every wait with a deadline,  *)
(* ends.                                                                   *)
WaitsEnd ==
    /\ \A w \in Waits : w \in taken ~> answer[w] = "ok"
    /\ \A a \in Agents : (phase[a] = "waiting" /\ local[a].timed) ~> Running(a)

(* A promise with a deadline is settled, although there is no timer: while *)
(* jobs keep coming between two of them, with none left by sleeping        *)
(* (Vm::expire_waiters).                                                   *)
PromisesAreSettled ==
    \A a \in Agents \ Budgeted : \A p \in Promises :
        []<>(phase[a] # "waiting") =>
            ((\E w \in ToSet(parked[a]) : w.promise = p /\ w.timed)
                 ~> settled[p] \in {"ok", "timed-out"})

(* Nothing that has been counted or has a deadline waits for ever.         *)
AnswersCome == WaitsEnd /\ PromisesAreSettled

(* SharedArrayBuffer.prototype.grow (builtins/shared.rs:162): a shared     *)
(* buffer may only get bigger.                                             *)
OnlyGrows == [][Len(bytes') >= Len(bytes)]_blockVars
=============================================================================
