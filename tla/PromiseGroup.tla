---------------------------- MODULE PromiseGroup ----------------------------
(***************************************************************************)
(* The promise combinators (builtins/promise_group.rs): one promise that   *)
(* waits on many.  The walk takes one element at a time from an iterator,  *)
(* makes a promise of it and subscribes two handlers to that; scripts run  *)
(* in every one of those calls, and whoever was handed a handler may call  *)
(* it at any time and any number of times.                                 *)
(*                                                                         *)
(* A definition with the comment "mutation" is the one after it with a bug *)
(* put in.                                                                 *)
(***************************************************************************)
EXTENDS Integers, Sequences, FiniteSets

CONSTANTS Values,      \* what elements settle with
          Unheard,     \* the undefined a slot is made with
          MaxElements  \* bound: elements the iterator yields

ASSUME GroupAssumption ==
    /\ Unheard \notin [how : {"fulfil", "reject"}, value : Values]
    /\ MaxElements \in Nat

VARIABLES group,       \* Gather.group
          walk,        \* the call the walk is in, or how it ended
          iterator,    \* "none", "open", "finished" or "closed"
          values,      \* Gather.values
          remaining,   \* Gather.remaining
          called,      \* [[AlreadyCalled]] of each element's pair
          subscribed,  \* how many elements' handlers were handed out
          answer       \* how Gather.capability was settled

vars == <<group, walk, iterator, values, remaining, called, subscribed, answer>>

Listed == [all |-> {"fulfil"}, any |-> {"reject"},
           allSettled |-> {"fulfil", "reject"}, race |-> {}]

Report(how, v) == [how |-> how, value |-> v]
Pending == [is |-> "pending"]
Settled(how, with) == [is |-> how, with |-> with]
Reports == [how : {"fulfil", "reject"}, value : Values]
Error == "error"
Elements == DOMAIN values

TypeOK ==
    /\ group \in DOMAIN Listed
    /\ walk \in {"start", "next", "resolve", "lookup", "then", "return",
                "over", "failed"}
    /\ iterator \in {"none", "open", "finished", "closed"}
    /\ values \in Seq(Reports \cup {Unheard})
    /\ remaining \in 0..Len(values) + 1
    /\ called \in Seq(BOOLEAN)
    /\ subscribed \in 0..Len(values)
    /\ Len(called) <= Len(values)
    /\ answer.is \in {"pending", "fulfil", "reject"}

(* The capability is Promise's own pair: the first call decides.           *)
Settle(how, with) ==
    answer' = IF answer = Pending THEN Settled(how, with) ELSE answer

(* settle_if_done: with nothing remaining, running out is `any`'s failure  *)
(* and everyone else's success.                                            *)
SettleIfDone ==
    IF remaining' # 0 THEN UNCHANGED answer
    ELSE Settle(IF group = "any" THEN "reject" ELSE "fulfil", values')

Init == /\ group \in DOMAIN Listed
        /\ walk = "start" /\ iterator = "none"
        /\ values = <<>> /\ remaining = 1
        /\ called = <<>> /\ subscribed = 0
        /\ answer = Pending

-----------------------------------------------------------------------------
(* The walk.                                                               *)

(* Whatever goes wrong rejects: combine's Err arm.                         *)
Reject == /\ Settle("reject", Error)
          /\ walk' = "failed"

(* `resolve`, the iterator and its `next` are read.                        *)
Start == /\ walk = "start"
         /\ UNCHANGED <<group, values, remaining, called, subscribed>>
         /\ \/ walk' = "next" /\ iterator' = "open" /\ UNCHANGED answer
            \/ Reject /\ UNCHANGED iterator

(* A value arrives and its slot is made.                                   *)
NextIsValue ==
    /\ walk = "next" /\ Len(values) < MaxElements
    /\ values' = Append(values, Unheard)
    /\ walk' = "resolve"
    /\ UNCHANGED <<group, iterator, remaining, called, subscribed, answer>>

(* mutation: `race` gives up the walk's one as the others do.              *)
RaceGivesUpTheWalksOne ==
    /\ walk = "next"
    /\ walk' = "over" /\ iterator' = "finished"
    /\ UNCHANGED <<group, values, called, subscribed>>
    /\ remaining' = remaining - 1 /\ SettleIfDone

(* The iterator has run out: the walk gives up the one it was holding.     *)
NextIsDone ==
    /\ walk = "next"
    /\ walk' = "over" /\ iterator' = "finished"
    /\ UNCHANGED <<group, values, called, subscribed>>
    /\ IF group = "race" THEN UNCHANGED <<remaining, answer>>
       ELSE remaining' = remaining - 1 /\ SettleIfDone

(* A step that throws leaves the iterator done: nothing is closed.         *)
NextThrows ==
    /\ walk = "next"
    /\ iterator' = "finished"
    /\ Reject
    /\ UNCHANGED <<group, values, remaining, called, subscribed>>

(* mutation: the element is not counted.                                   *)
ResolveUncounted ==
    /\ walk = "resolve"
    /\ called' = IF group = "race" THEN called ELSE Append(called, FALSE)
    /\ walk' = "lookup"
    /\ UNCHANGED <<group, iterator, values, remaining, subscribed, answer>>

(* `resolve` answers: the handlers are made and the element is counted,    *)
(* before `then` is looked up, as `then` may settle the element at once.   *)
ResolveReturns ==
    /\ walk = "resolve"
    /\ called' = IF group = "race" THEN called ELSE Append(called, FALSE)
    /\ remaining' = remaining + 1
    /\ walk' = "lookup"
    /\ UNCHANGED <<group, iterator, values, subscribed, answer>>

(* `then` is called, and the handlers are out.                             *)
LookupReturns ==
    /\ walk = "lookup"
    /\ subscribed' = subscribed + 1
    /\ walk' = "then"
    /\ UNCHANGED <<group, iterator, values, remaining, called, answer>>

ThenReturns ==
    /\ walk = "then"
    /\ walk' = "next"
    /\ UNCHANGED <<group, iterator, values, remaining, called, subscribed, answer>>

(* mutation: the walk is abandoned and the iterator not told.              *)
SubscribeThrowsUnclosed ==
    /\ walk \in {"resolve", "lookup", "then"}
    /\ Reject
    /\ UNCHANGED <<group, iterator, values, remaining, called, subscribed>>

(* `resolve`, the lookup or the call of `then` throws, or a budget is      *)
(* spent: the iterator's `return` is called before anything is said.       *)
SubscribeThrows ==
    /\ walk \in {"resolve", "lookup", "then"}
    /\ walk' = "return" /\ iterator' = "closed"
    /\ UNCHANGED <<group, values, remaining, called, subscribed, answer>>

(* How `return` ends is swallowed.                                         *)
ReturnEnds ==
    /\ walk = "return"
    /\ Reject
    /\ UNCHANGED <<group, iterator, values, remaining, called, subscribed>>

-----------------------------------------------------------------------------
(* The handlers.                                                           *)

(* mutation: `called` is not shared by the pair.                           *)
ElementSettledTwice(i, how, v) ==
    /\ values' = [values EXCEPT ![i] = Report(how, v)]
    /\ called' = called
    /\ remaining' = IF remaining > 0 THEN remaining - 1 ELSE 0
    /\ SettleIfDone

(* element_settled: an element is listed once, by the first of its pair.   *)
ElementSettled(i, how, v) ==
    /\ ~called[i]
    /\ called' = [called EXCEPT ![i] = TRUE]
    /\ values' = [values EXCEPT ![i] = Report(how, v)]
    /\ remaining' = remaining - 1
    /\ SettleIfDone

(* A handler of element i is called: an element function, or the           *)
(* capability's own where the group is decided by one report.              *)
Call(i, how, v) ==
    /\ UNCHANGED <<group, walk, iterator, subscribed>>
    /\ \/ how \in Listed[group] /\ ElementSettled(i, how, v)
       \/ /\ how \notin Listed[group]
          /\ Settle(how, v)
          /\ UNCHANGED <<values, remaining, called>>

Handlers == \E i \in 1..subscribed, how \in {"fulfil", "reject"}, v \in Values :
               Call(i, how, v)

Walk == \/ Start \/ NextIsValue \/ NextIsDone \/ NextThrows
        \/ ResolveReturns \/ LookupReturns \/ ThenReturns
        \/ SubscribeThrows \/ ReturnEnds

Next == Walk \/ Handlers

Spec == Init /\ [][Next]_vars

-----------------------------------------------------------------------------
Uncalled == {i \in DOMAIN called : ~called[i]}

(* The counter is one for every element whose handlers were made and not   *)
(* called, and one for the walk until the iterator has run out: what a     *)
(* group settling neither early nor never rests on (promise_group.rs, "the *)
(* counter that starts at one").  `race` counts and never looks.           *)
CountIsOwed ==
    group # "race" =>
      remaining = Cardinality(Uncalled) + (IF walk = "over" THEN 0 ELSE 1)

(* Whoever gives up on an iterator that is still open has told it so, and  *)
(* nobody closes one that said it was done or threw (walk).                *)
IteratorIsTold ==
    [][/\ iterator \in {"finished", "closed"} => iterator' = iterator
       /\ walk' \in {"over", "failed"} => iterator' # "open"]_vars

(* The step that decides a group settles it, no other step does, and the   *)
(* list has every element's own report in the order they were read,        *)
(* however scripts call the handlers and wherever the walk fails.          *)
Verdict == INSTANCE GroupVerdict WITH
    got <- values,
    walk <- CASE walk \in {"over", "failed"} -> walk
              [] walk = "return" -> "abandoned"
              [] OTHER -> "reading"

SettlesWhenDecided == Verdict!Spec
=============================================================================
