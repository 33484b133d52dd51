------------------------- MODULE PromiseGroupProofs -------------------------
(***************************************************************************)
(* For every set of values and any number of elements: the counter of a    *)
(* group is what is owed, and the group is settled in exactly the step     *)
(* that decides it.                                                        *)
(***************************************************************************)
EXTENDS PromiseGroup, FiniteSetTheorems, TLAPS

(* How many elements have their handlers: `race` makes none and has only   *)
(* the count.                                                              *)
Made == IF group = "race" THEN remaining - 1 ELSE Len(called)

(* Where the walk stands, its three counts differ by the element it is at. *)
Progress ==
    /\ group = "race" => called = <<>>
    /\ Made \in 0..Len(values)
    /\ subscribed <= Made
    /\ walk = "resolve" => Len(values) = Made + 1 /\ subscribed = Made
    /\ walk = "lookup" => Len(values) = Made /\ subscribed = Made - 1
    /\ walk \in {"start", "next", "then", "over"} =>
           Len(values) = Made /\ subscribed = Made

(* A slot holds a report once one of its pair was called, and not before.  *)
ListedWhenCalled ==
    \A i \in DOMAIN values :
        values[i] # Unheard <=> i \in DOMAIN called /\ called[i]

GroupInv == TypeOK /\ Progress /\ ListedWhenCalled /\ CountIsOwed

LEMMA UncalledFinite ==
    ASSUME called \in Seq(BOOLEAN)
    PROVE  /\ IsFiniteSet(Uncalled)
           /\ Cardinality(Uncalled) \in 0..Len(called)
           /\ Cardinality(Uncalled) = 0 <=> Uncalled = {}
<1>1. Len(called) \in Nat /\ DOMAIN called = 1..Len(called)
  OBVIOUS
<1>2. /\ IsFiniteSet(1..Len(called))
      /\ Cardinality(1..Len(called)) = Len(called)
  BY <1>1, FS_Interval, SMTT(30)
<1>3. Uncalled \in SUBSET (1..Len(called))
  BY <1>1 DEF Uncalled
<1>4. IsFiniteSet(Uncalled) /\ Cardinality(Uncalled) <= Len(called)
  BY <1>2, <1>3, FS_Subset
<1>5. Cardinality(Uncalled) \in Nat
  BY <1>4, FS_CardinalityType
<1> QED BY <1>1, <1>4, <1>5, FS_EmptySet

LEMMA InitInv == Init => GroupInv
<1> SUFFICES ASSUME Init PROVE GroupInv
  OBVIOUS
<1>1. values = <<>> /\ called = <<>> /\ Len(called) = 0 /\ Len(values) = 0
  BY DEF Init
<1>2. TypeOK
  BY <1>1 DEF Init, TypeOK, Pending
<1>3. Progress
  BY <1>1 DEF Init, Progress, Made
<1>4. ListedWhenCalled
  BY <1>1 DEF ListedWhenCalled
<1>5. Uncalled = {}
  BY <1>1 DEF Uncalled
<1>6. CountIsOwed
  BY <1>5, FS_EmptySet DEF CountIsOwed, Init
<1> QED BY <1>2, <1>3, <1>4, <1>6 DEF GroupInv

(* A settlement leaves a settlement.                                       *)
LEMMA SettleTypes ==
    ASSUME NEW how \in {"fulfil", "reject"}, NEW with,
           answer.is \in {"pending", "fulfil", "reject"}, Settle(how, with)
    PROVE  answer'.is \in {"pending", "fulfil", "reject"}
<1> QED BY DEF Settle, Settled

LEMMA SettleIfDoneTypes ==
    ASSUME answer.is \in {"pending", "fulfil", "reject"}, SettleIfDone
    PROVE  answer'.is \in {"pending", "fulfil", "reject"}
<1>1. CASE remaining' # 0
  BY <1>1 DEF SettleIfDone
<1>2. CASE remaining' = 0
  <2>1. Settle(IF group = "any" THEN "reject" ELSE "fulfil", values')
    BY <1>2 DEF SettleIfDone
  <2> QED BY <2>1 DEF Settle, Settled
<1> QED BY <1>1, <1>2

(* The list of an element: what each of the three functions over elements  *)
(* becomes.                                                                *)
LEMMA AppendOf ==
    ASSUME NEW S, NEW q \in Seq(S), NEW x \in S
    PROVE  /\ Append(q, x) \in Seq(S)
           /\ Len(Append(q, x)) = Len(q) + 1
           /\ DOMAIN q = 1..Len(q)
           /\ DOMAIN Append(q, x) = 1..Len(q) + 1
           /\ \A i \in 1..Len(q) : Append(q, x)[i] = q[i]
           /\ Append(q, x)[Len(q) + 1] = x
<1> QED OBVIOUS

LEMMA ExceptOf ==
    ASSUME NEW S, NEW q \in Seq(S), NEW i \in DOMAIN q, NEW x \in S
    PROVE  /\ [q EXCEPT ![i] = x] \in Seq(S)
           /\ Len([q EXCEPT ![i] = x]) = Len(q)
           /\ DOMAIN [q EXCEPT ![i] = x] = DOMAIN q
           /\ \A j \in DOMAIN q :
                 [q EXCEPT ![i] = x][j] = IF j = i THEN x ELSE q[j]
<1> QED OBVIOUS

-----------------------------------------------------------------------------
LEMMA CallInv ==
    ASSUME GroupInv, NEW i \in 1..subscribed, NEW how \in {"fulfil", "reject"},
           NEW v \in Values, Call(i, how, v)
    PROVE  GroupInv'
<1> USE DEF GroupInv
<1>1. CASE how \in Listed[group] /\ ElementSettled(i, how, v)
  <2>1. group # "race"
    BY <1>1 DEF Listed, TypeOK
  <2>2. /\ Len(called) \in Nat /\ Len(values) \in Nat
        /\ DOMAIN called = 1..Len(called) /\ DOMAIN values = 1..Len(values)
        /\ subscribed \in Nat /\ remaining \in Nat
    BY DEF TypeOK
  <2>3. i \in DOMAIN called /\ i \in DOMAIN values
    <3>1. Made = Len(called)
      BY <2>1 DEF Made
    <3>2. subscribed <= Len(called)
      BY <3>1 DEF Progress
    <3>3. Len(called) <= Len(values)
      BY DEF TypeOK
    <3> QED BY <2>2, <3>2, <3>3
  <2>4. /\ called' = [called EXCEPT ![i] = TRUE] /\ ~called[i]
        /\ values' = [values EXCEPT ![i] = Report(how, v)]
        /\ remaining' = remaining - 1 /\ SettleIfDone
        /\ UNCHANGED <<group, walk, iterator, subscribed>>
    BY <1>1 DEF Call, ElementSettled
  <2>5. Report(how, v) \in Reports /\ Report(how, v) # Unheard
    BY GroupAssumption DEF Report, Reports
  <2>6. /\ called' \in Seq(BOOLEAN) /\ Len(called') = Len(called)
        /\ DOMAIN called' = DOMAIN called
        /\ \A j \in DOMAIN called : called'[j] = IF j = i THEN TRUE ELSE called[j]
    BY <2>3, <2>4, ExceptOf DEF TypeOK
  <2>7. /\ values' \in Seq(Reports \cup {Unheard}) /\ Len(values') = Len(values)
        /\ DOMAIN values' = DOMAIN values
        /\ \A j \in DOMAIN values :
              values'[j] = IF j = i THEN Report(how, v) ELSE values[j]
    <3>1. Report(how, v) \in Reports \cup {Unheard} /\ values \in Seq(Reports \cup {Unheard})
      BY <2>5 DEF TypeOK
    <3> QED BY <2>3, <2>4, <3>1, ExceptOf
  <2>8. Uncalled' = Uncalled \ {i} /\ i \in Uncalled
    BY <2>3, <2>4, <2>6 DEF Uncalled
  <2>9. /\ Cardinality(Uncalled') = Cardinality(Uncalled) - 1
        /\ Cardinality(Uncalled) \in 0..Len(called) /\ Cardinality(Uncalled) # 0
    BY <2>8, UncalledFinite, FS_RemoveElement, Zenon DEF TypeOK
  <2>10. CountIsOwed'
    BY <2>1, <2>4, <2>9 DEF CountIsOwed
  <2>11. remaining' \in 0..Len(values') + 1
    BY <2>1, <2>2, <2>4, <2>7, <2>9 DEF CountIsOwed, TypeOK
  <2>12. answer'.is \in {"pending", "fulfil", "reject"}
    BY <2>4, SettleIfDoneTypes DEF TypeOK
  <2>13. TypeOK'
    BY <2>4, <2>6, <2>7, <2>11, <2>12 DEF TypeOK
  <2>14. Progress'
    BY <2>1, <2>4, <2>6, <2>7, Zenon DEF Progress, Made
  <2>15. ListedWhenCalled'
    BY <2>3, <2>5, <2>6, <2>7 DEF ListedWhenCalled
  <2> QED BY <2>10, <2>13, <2>14, <2>15
<1>2. CASE how \notin Listed[group] /\ Settle(how, v)
           /\ UNCHANGED <<values, remaining, called>>
  <2>1. UNCHANGED <<group, walk, iterator, subscribed, values, remaining, called>>
    BY <1>2 DEF Call
  <2>2. answer'.is \in {"pending", "fulfil", "reject"}
    BY <1>2, SettleTypes DEF TypeOK
  <2>3. TypeOK'
    BY <2>1, <2>2 DEF TypeOK
  <2> QED BY <2>1, <2>3 DEF Progress, Made, ListedWhenCalled, CountIsOwed, Uncalled
<1> QED BY <1>1, <1>2 DEF Call

(* A step of the walk that leaves the elements and the count alone.        *)
LEMMA WalkOnlyInv ==
    ASSUME GroupInv, UNCHANGED <<group, values, remaining, called>>,
           iterator' \in {"none", "open", "finished", "closed"},
           answer'.is \in {"pending", "fulfil", "reject"},
           walk' \in {"next", "then", "return", "failed"},
           walk \in {"over"} <=> walk' \in {"over"},
           subscribed' \in 0..Made,
           walk' \in {"next", "then"} => Len(values) = Made /\ subscribed' = Made
    PROVE  GroupInv'
<1> USE DEF GroupInv
<1>1. TypeOK'
  BY DEF TypeOK, Progress, Made
<1>2. Progress'
  BY DEF Progress, Made, TypeOK
<1>3. ListedWhenCalled'
  BY DEF ListedWhenCalled
<1>4. CountIsOwed'
  BY DEF CountIsOwed, Uncalled
<1> QED BY <1>1, <1>2, <1>3, <1>4

LEMMA NextIsValueInv ==
    ASSUME GroupInv, NextIsValue
    PROVE  GroupInv'
<1> USE DEF GroupInv
<1>1. /\ values' = Append(values, Unheard) /\ walk = "next" /\ walk' = "resolve"
      /\ UNCHANGED <<group, iterator, remaining, called, subscribed, answer>>
  BY DEF NextIsValue
<1>2. /\ values \in Seq(Reports \cup {Unheard}) /\ Unheard \in Reports \cup {Unheard}
      /\ Len(values) \in Nat
  BY DEF TypeOK
<1>3. /\ values' \in Seq(Reports \cup {Unheard})
      /\ Len(values') = Len(values) + 1
      /\ DOMAIN values = 1..Len(values) /\ DOMAIN values' = 1..Len(values) + 1
      /\ \A i \in 1..Len(values) : values'[i] = values[i]
      /\ values'[Len(values) + 1] = Unheard
  BY <1>1, <1>2, AppendOf
<1>4. TypeOK'
  BY <1>1, <1>2, <1>3 DEF TypeOK
<1>5. Progress'
  BY <1>1, <1>2, <1>3 DEF Progress, Made, TypeOK
<1>6. Len(values) + 1 \notin DOMAIN called
  <2>1. Len(called) \in Nat /\ DOMAIN called = 1..Len(called) /\ Len(called) <= Len(values)
    BY DEF TypeOK
  <2> QED BY <1>2, <2>1
<1>7. ListedWhenCalled'
  BY <1>1, <1>2, <1>3, <1>6 DEF ListedWhenCalled
<1>8. CountIsOwed'
  BY <1>1 DEF CountIsOwed, Uncalled
<1> QED BY <1>4, <1>5, <1>7, <1>8

LEMMA NextIsDoneInv ==
    ASSUME GroupInv, NextIsDone
    PROVE  GroupInv'
<1> USE DEF GroupInv
<1>1. /\ walk = "next" /\ walk' = "over" /\ iterator' = "finished"
      /\ UNCHANGED <<group, values, called, subscribed>>
  BY DEF NextIsDone
<1>2. Uncalled' = Uncalled /\ Cardinality(Uncalled) \in 0..Len(called) /\ Len(called) \in Nat
  BY <1>1, UncalledFinite DEF Uncalled, TypeOK
<1>3. CASE group = "race"
  <2>1. UNCHANGED <<remaining, answer>>
    BY <1>3 DEF NextIsDone
  <2> QED BY <1>1, <1>3, <2>1 DEF TypeOK, Progress, Made, ListedWhenCalled, CountIsOwed
<1>4. CASE group # "race"
  <2>1. remaining' = remaining - 1 /\ SettleIfDone
    BY <1>4 DEF NextIsDone
  <2>2. remaining = Cardinality(Uncalled) + 1
    BY <1>1, <1>4 DEF CountIsOwed
  <2>3. answer'.is \in {"pending", "fulfil", "reject"}
    BY <2>1, SettleIfDoneTypes DEF TypeOK
  <2>4. TypeOK'
    BY <1>1, <1>2, <2>1, <2>2, <2>3 DEF TypeOK
  <2>5. Progress'
    BY <1>1, <1>4 DEF Progress, Made
  <2>6. ListedWhenCalled'
    BY <1>1 DEF ListedWhenCalled
  <2>7. CountIsOwed'
    BY <1>1, <1>2, <2>1, <2>2 DEF CountIsOwed
  <2> QED BY <2>4, <2>5, <2>6, <2>7
<1> QED BY <1>3, <1>4

LEMMA ResolveReturnsInv ==
    ASSUME GroupInv, ResolveReturns
    PROVE  GroupInv'
<1> USE DEF GroupInv
<1>1. /\ walk = "resolve" /\ walk' = "lookup" /\ remaining' = remaining + 1
      /\ UNCHANGED <<group, iterator, values, subscribed, answer>>
  BY DEF ResolveReturns
<1>2. Len(values) \in Nat /\ DOMAIN values = 1..Len(values) /\ remaining \in Nat
  BY DEF TypeOK
<1>3. CASE group = "race"
  <2>1. called' = called
    BY <1>3 DEF ResolveReturns
  <2>2. TypeOK'
    BY <1>1, <1>2, <1>3, <2>1 DEF TypeOK, Progress, Made
  <2>3. Progress'
    BY <1>1, <1>2, <1>3, <2>1 DEF TypeOK, Progress, Made
  <2> QED BY <1>1, <1>3, <2>1, <2>2, <2>3 DEF ListedWhenCalled, CountIsOwed
<1>4. CASE group # "race"
  <2>1. called' = Append(called, FALSE) /\ called \in Seq(BOOLEAN) /\ Len(called) \in Nat
    <3>1. called' = Append(called, FALSE)
      BY <1>4 DEF ResolveReturns
    <3>2. called \in Seq(BOOLEAN)
      BY DEF TypeOK
    <3> QED BY <3>1, <3>2
  <2>2. /\ called' \in Seq(BOOLEAN) /\ Len(called') = Len(called) + 1
        /\ DOMAIN called = 1..Len(called) /\ DOMAIN called' = 1..Len(called) + 1
        /\ \A i \in 1..Len(called) : called'[i] = called[i]
        /\ called'[Len(called) + 1] = FALSE
    BY <2>1, AppendOf
  <2>3. Len(values) = Len(called) + 1 /\ subscribed = Len(called)
    BY <1>1, <1>4 DEF Progress, Made
  <2>4. Uncalled' = Uncalled \cup {Len(called) + 1} /\ Len(called) + 1 \notin Uncalled
    BY <2>1, <2>2 DEF Uncalled
  <2>5. /\ Cardinality(Uncalled') = Cardinality(Uncalled) + 1
        /\ Cardinality(Uncalled) \in 0..Len(called)
    BY <2>1, <2>4, UncalledFinite, FS_AddElement
  <2>6. remaining = Cardinality(Uncalled) + 1
    BY <1>1, <1>4 DEF CountIsOwed
  <2>7. TypeOK'
    BY <1>1, <1>2, <2>1, <2>2, <2>3, <2>5, <2>6 DEF TypeOK
  <2>8. Progress'
    <3>1. Made' = Len(values') /\ subscribed' = Made' - 1
      BY <1>1, <1>4, <2>1, <2>2, <2>3 DEF Made
    <3> QED BY <1>1, <1>2, <1>4, <3>1 DEF Progress
  <2>9. ListedWhenCalled'
    BY <1>1, <1>2, <2>1, <2>2, <2>3 DEF ListedWhenCalled
  <2>10. CountIsOwed'
    BY <1>1, <2>5, <2>6 DEF CountIsOwed
  <2> QED BY <2>7, <2>8, <2>9, <2>10
<1> QED BY <1>3, <1>4

LEMMA StepInv == GroupInv /\ [Next]_vars => GroupInv'
<1> SUFFICES ASSUME GroupInv, [Next]_vars PROVE GroupInv'
  OBVIOUS
<1>0. /\ answer.is \in {"pending", "fulfil", "reject"}
      /\ Made \in Nat /\ subscribed \in 0..Made
      /\ iterator \in {"none", "open", "finished", "closed"}
  BY DEF GroupInv, TypeOK, Progress
<1>1. CASE Start
  BY <1>0, <1>1, WalkOnlyInv, SettleTypes
  DEF Start, Reject, GroupInv, Progress
<1>2. CASE NextIsValue
  BY <1>2, NextIsValueInv
<1>3. CASE NextIsDone
  BY <1>3, NextIsDoneInv
<1>4. CASE NextThrows
  BY <1>0, <1>4, WalkOnlyInv, SettleTypes DEF NextThrows, Reject
<1>5. CASE ResolveReturns
  BY <1>5, ResolveReturnsInv
<1>6. CASE LookupReturns
  <2>1. Len(values) = Made /\ subscribed' = Made
    BY <1>0, <1>6 DEF LookupReturns, GroupInv, Progress
  <2> QED BY <1>0, <1>6, <2>1, WalkOnlyInv DEF LookupReturns
<1>7. CASE ThenReturns
  BY <1>0, <1>7, WalkOnlyInv DEF ThenReturns, GroupInv, Progress
<1>8. CASE SubscribeThrows
  BY <1>0, <1>8, WalkOnlyInv DEF SubscribeThrows
<1>9. CASE ReturnEnds
  BY <1>0, <1>9, WalkOnlyInv, SettleTypes DEF ReturnEnds, Reject
<1>10. CASE Handlers
  BY <1>10, CallInv DEF Handlers
<1>11. CASE UNCHANGED vars
  BY <1>11 DEF vars, GroupInv, TypeOK, Progress, Made, ListedWhenCalled,
               CountIsOwed, Uncalled
<1> QED BY <1>1, <1>2, <1>3, <1>4, <1>5, <1>6, <1>7, <1>8, <1>9, <1>10, <1>11
        DEF Next, Walk

LEMMA InvariantHolds == Spec => []GroupInv
<1> QED BY InitInv, StepInv, PTL DEF Spec

(* Every variable of a group keeps its type (Gather, promise_group.rs).    *)
THEOREM TypeCorrect == Spec => []TypeOK
<1>1. GroupInv => TypeOK
  BY DEF GroupInv
<1> QED BY <1>1, InvariantHolds, PTL

(* The counter that starts at one is always what is owed (Gather.remaining,*)
(* promise_group.rs), for any number of elements.                          *)
THEOREM CountHolds == Spec => []CountIsOwed
<1>1. GroupInv => CountIsOwed
  BY DEF GroupInv
<1> QED BY <1>1, InvariantHolds, PTL

-----------------------------------------------------------------------------
(* The counter is at zero exactly when the list is complete.               *)
LEMMA ZeroWhenComplete ==
    GroupInv /\ group # "race" => (remaining = 0 <=> Verdict!Complete)
<1> SUFFICES ASSUME GroupInv, group # "race"
             PROVE  remaining = 0 <=> Verdict!Complete
  OBVIOUS
<1> USE DEF GroupInv
<1>1. /\ Len(called) \in Nat /\ Len(values) \in Nat
      /\ DOMAIN called = 1..Len(called) /\ DOMAIN values = 1..Len(values)
      /\ called \in Seq(BOOLEAN)
  BY DEF TypeOK
<1>2. CASE walk # "over"
  <2>1. remaining = Cardinality(Uncalled) + 1 /\ Cardinality(Uncalled) \in Nat
    BY <1>1, <1>2, UncalledFinite DEF CountIsOwed
  <2>2. ~Verdict!Complete
    BY <1>2 DEF Verdict!Complete
  <2> QED BY <2>1, <2>2
<1>3. CASE walk = "over"
  <2>1. remaining = 0 <=> Uncalled = {}
    BY <1>1, <1>3, UncalledFinite DEF CountIsOwed
  <2>2. Len(called) = Len(values)
    BY <1>3 DEF Progress, Made
  <2>3. Uncalled = {} <=> \A i \in DOMAIN values : values[i] # Unheard
    BY <1>1, <2>2 DEF Uncalled, ListedWhenCalled
  <2>4. Verdict!Complete <=> \A i \in DOMAIN values : values[i] # Unheard
    BY <1>3 DEF Verdict!Complete
  <2> QED BY <2>1, <2>3, <2>4
<1> QED BY <1>2, <1>3

LEMMA ZeroWhenCompleteNext ==
    GroupInv' /\ group' # "race" => (remaining' = 0 <=> Verdict!Complete')
<1>1. (GroupInv /\ group # "race" => (remaining = 0 <=> Verdict!Complete))'
  BY ZeroWhenComplete, PTL
<1> QED BY <1>1

(* Settling when the counter is at zero is giving the list when complete.  *)
LEMMA GivesList ==
    ASSUME GroupInv', group' = group, group # "race", SettleIfDone
    PROVE  Verdict!GiveListWhenComplete
<1>1. remaining' = 0 <=> Verdict!Complete'
  BY ZeroWhenCompleteNext
<1> QED BY <1>1 DEF SettleIfDone, Settle, Settled, Pending, Verdict!GiveListWhenComplete,
                    Verdict!Give, Verdict!ListAnswer, Verdict!Settled, Verdict!Pending

LEMMA InitVerdict == Init => Verdict!Init
<1> QED BY DEF Init, Verdict!Init, Listed, Verdict!Listed, Pending, Verdict!Pending

(* What the walk of the verdict is, in the terms of the code's.            *)
Reading == CASE walk \in {"over", "failed"} -> walk
             [] walk = "return" -> "abandoned"
             [] OTHER -> "reading"

-----------------------------------------------------------------------------
(* Reject is the verdict's Fail.                                           *)
LEMMA RejectFails ==
    ASSUME walk \notin {"over", "failed"}, Reject, UNCHANGED <<group, values>>
    PROVE  Verdict!Fail
<1> QED BY DEF Reject, Settle, Settled, Pending, Error, Verdict!Fail,
               Verdict!Give, Verdict!Settled, Verdict!Pending

(* What a handler reports is heard, or decides.                            *)
LEMMA CallHears ==
    ASSUME GroupInv, GroupInv', NEW i \in 1..subscribed,
           NEW how \in {"fulfil", "reject"}, NEW v \in Values, Call(i, how, v)
    PROVE  i \in DOMAIN values /\ Verdict!Hear(i, how, v)
<1>1. /\ subscribed \in 0..Len(values) /\ Len(values) \in Nat
      /\ DOMAIN values = 1..Len(values)
  BY DEF GroupInv, TypeOK
<1>2. i \in DOMAIN values
  BY <1>1
<1>3. CASE how \in Listed[group] /\ ElementSettled(i, how, v)
  <2>1. group # "race"
    BY <1>3 DEF Listed, GroupInv, TypeOK
  <2>2. /\ UNCHANGED <<group, walk>> /\ ~called[i]
        /\ values' = [values EXCEPT ![i] = Report(how, v)] /\ SettleIfDone
    BY <1>3 DEF Call, ElementSettled
  <2>3. values[i] = Unheard
    BY <1>2, <2>2 DEF GroupInv, ListedWhenCalled
  <2>4. Verdict!GiveListWhenComplete
    BY <2>1, <2>2, GivesList
  <2>5. how \in Verdict!Listed[group]
    BY <1>3 DEF Listed, Verdict!Listed
  <2> QED BY <1>2, <2>2, <2>3, <2>4, <2>5 DEF Verdict!Hear, Report, Verdict!Report
<1>4. CASE how \notin Listed[group] /\ Settle(how, v)
           /\ UNCHANGED <<values, remaining, called>>
  <2>1. UNCHANGED <<group, walk>>
    BY DEF Call
  <2>2. how \notin Verdict!Listed[group]
    BY <1>4 DEF Listed, Verdict!Listed
  <2> QED BY <1>2, <1>4, <2>1, <2>2
          DEF Settle, Settled, Pending, Verdict!Hear, Verdict!Give,
              Verdict!Settled, Verdict!Pending
<1> QED BY <1>3, <1>4 DEF Call

LEMMA StepVerdict ==
    GroupInv /\ GroupInv' /\ [Next]_vars
        => [Verdict!Next]_<<group, Reading, values, answer>>
<1> SUFFICES ASSUME GroupInv, GroupInv', [Next]_vars
             PROVE  [Verdict!Next]_<<group, Reading, values, answer>>
  OBVIOUS
<1>1. CASE Start
  <2>1. CASE walk' = "next" /\ UNCHANGED answer
    BY <1>1, <2>1 DEF Start, Reading
  <2>2. CASE Reject
    BY <1>1, <2>2, RejectFails DEF Start, Verdict!Next
  <2> QED BY <1>1, <2>1, <2>2 DEF Start
<1>2. CASE NextIsValue
  BY <1>2 DEF NextIsValue, Verdict!Next, Verdict!Read
<1>3. CASE NextIsDone
  <2>1. walk = "next" /\ walk' = "over" /\ UNCHANGED <<group, values>>
    BY <1>3 DEF NextIsDone
  <2>2. CASE group = "race"
    <3>1. UNCHANGED answer
      BY <1>3, <2>2 DEF NextIsDone
    <3>2. Verdict!GiveListWhenComplete
      BY <2>1, <2>2, <3>1 DEF Verdict!GiveListWhenComplete, Verdict!Complete
    <3> QED BY <2>1, <3>2 DEF Verdict!Next, Verdict!Finish
  <2>3. CASE group # "race"
    <3>1. SettleIfDone
      BY <1>3, <2>3 DEF NextIsDone
    <3>2. Verdict!GiveListWhenComplete
      BY <2>1, <2>3, <3>1, GivesList
    <3> QED BY <2>1, <3>2 DEF Verdict!Next, Verdict!Finish
  <2> QED BY <2>2, <2>3
<1>4. CASE NextThrows
  BY <1>4, RejectFails DEF NextThrows, Verdict!Next
<1>5. CASE ResolveReturns
  BY <1>5 DEF ResolveReturns, Reading
<1>6. CASE LookupReturns
  BY <1>6 DEF LookupReturns, Reading
<1>7. CASE ThenReturns
  BY <1>7 DEF ThenReturns, Reading
<1>8. CASE SubscribeThrows
  BY <1>8 DEF SubscribeThrows, Verdict!Next, Verdict!Abandon
<1>9. CASE ReturnEnds
  BY <1>9, RejectFails DEF ReturnEnds, Verdict!Next
<1>10. CASE Handlers
  BY <1>10, CallHears DEF Handlers, Verdict!Next
<1>11. CASE UNCHANGED vars
  BY <1>11 DEF vars, Reading
<1> QED BY <1>1, <1>2, <1>3, <1>4, <1>5, <1>6, <1>7, <1>8, <1>9, <1>10, <1>11
        DEF Next, Walk

(* A group is settled in exactly the step that decides it, with its list   *)
(* complete and in order, for any elements and however scripts call the    *)
(* handlers (promise_group.rs).                                            *)
THEOREM SettledWhenDecided == Spec => SettlesWhenDecided
<1>1. GroupInv /\ GroupInv' /\ [Next]_vars
        => [Verdict!Next]_<<group,
              CASE walk \in {"over", "failed"} -> walk
                [] walk = "return" -> "abandoned"
                [] OTHER -> "reading", values, answer>>
  BY StepVerdict DEF Reading
<1> QED BY <1>1, InitVerdict, InvariantHolds, PTL DEF Spec, SettlesWhenDecided, Verdict!Spec

-----------------------------------------------------------------------------
(* What has become of the iterator can be told from the walk.              *)
IteratorByWalk ==
    /\ walk = "start" => iterator = "none"
    /\ walk \in {"next", "resolve", "lookup", "then"} => iterator = "open"
    /\ walk = "return" => iterator = "closed"
    /\ walk = "over" => iterator = "finished"
    /\ walk = "failed" => iterator # "open"
    /\ walk \in {"start", "next", "resolve", "lookup", "then", "return",
                 "over", "failed"}

LEMMA IteratorByWalkHolds == Spec => []IteratorByWalk
<1>1. Init => IteratorByWalk
  BY DEF Init, IteratorByWalk
<1>2. IteratorByWalk /\ [Next]_vars => IteratorByWalk'
  <2> SUFFICES ASSUME IteratorByWalk, [Next]_vars PROVE IteratorByWalk'
    OBVIOUS
  <2>1. CASE Walk
    BY <2>1 DEF IteratorByWalk, Walk, Start, NextIsValue, NextIsDone, NextThrows,
                ResolveReturns, LookupReturns, ThenReturns, SubscribeThrows,
                ReturnEnds, Reject
  <2>2. CASE Handlers
    BY <2>2 DEF IteratorByWalk, Handlers, Call
  <2>3. CASE UNCHANGED vars
    BY <2>3 DEF IteratorByWalk, vars
  <2> QED BY <2>1, <2>2, <2>3 DEF Next
<1> QED BY <1>1, <1>2, PTL DEF Spec

(* An iterator is never given up on in silence, and one that has ended or  *)
(* was told is never touched again (walk, promise_group.rs).               *)
THEOREM IteratorTold == Spec => IteratorIsTold
<1> DEFINE Told ==
      /\ iterator \in {"finished", "closed"} => iterator' = iterator
      /\ walk' \in {"over", "failed"} => iterator' # "open"
<1>1. IteratorByWalk /\ IteratorByWalk' /\ [Next]_vars => [Told]_vars
  <2> SUFFICES ASSUME IteratorByWalk, IteratorByWalk', [Next]_vars PROVE [Told]_vars
    OBVIOUS
  <2>1. walk' \in {"over", "failed"} => iterator' # "open"
    BY DEF IteratorByWalk
  <2>2. iterator \in {"finished", "closed"} => iterator' = iterator
    <3>1. CASE Walk
      BY <3>1 DEF IteratorByWalk, Walk, Start, NextIsValue, NextIsDone, NextThrows,
                  ResolveReturns, LookupReturns, ThenReturns, SubscribeThrows,
                  ReturnEnds, Reject
    <3>2. CASE Handlers
      BY <3>2 DEF Handlers, Call
    <3>3. CASE UNCHANGED vars
      BY <3>3 DEF vars
    <3> QED BY <3>1, <3>2, <3>3 DEF Next
  <2> QED BY <2>1, <2>2
<1> QED BY <1>1, IteratorByWalkHolds, PTL DEF Spec, IteratorIsTold
=============================================================================
