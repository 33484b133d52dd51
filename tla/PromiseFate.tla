---------------------------- MODULE PromiseFate ----------------------------
(***************************************************************************)
(* What a promise promises, with no queue, reaction or resolving function: *)
(* it is undecided, then either settled for ever or bound to another       *)
(* promise, and a bound promise can only end the way that promise ended.   *)
(***************************************************************************)
CONSTANTS Promises, Outcomes,
          Thenable   \* the one result that is itself asked for a `then`

VARIABLE fate  \* of every promise

Settled == [is : {"fulfilled", "rejected"}, with : Outcomes]
Undecided == [is |-> "undecided"]
Absent == [is |-> "absent"]
Bound(q) == [is |-> "bound", to |-> q]

Init == fate = [p \in Promises |-> Absent]

Create(p) == /\ fate[p] = Absent
             /\ fate' = [fate EXCEPT ![p] = Undecided]

Bind(p, q) == /\ fate[p] = Undecided
              /\ p # q
              /\ fate[q] # Absent
              /\ fate' = [fate EXCEPT ![p] = Bound(q)]

Decide(p, end) == /\ fate[p] = Undecided
                  /\ fate' = [fate EXCEPT ![p] = end]

(* A promise bound to another follows it, unless what the other was        *)
(* fulfilled with turns out to have a `then` of its own by now.            *)
Follow(p, q) == /\ fate[p] = Bound(q)
                /\ fate[q] \in Settled
                /\ \/ fate' = [fate EXCEPT ![p] = fate[q]]
                   \/ /\ fate[q] = [is |-> "fulfilled", with |-> Thenable]
                      /\ fate' = [fate EXCEPT ![p] = Undecided]

(* A step is one promise's.                                                *)
Step(p) == \/ Create(p)
           \/ \E q \in Promises : Bind(p, q) \/ Follow(p, q)
           \/ \E end \in Settled : Decide(p, end)

Next == \E p \in Promises : fate'[p] # fate[p] /\ Step(p)

Spec == Init /\ [][Next]_fate
=============================================================================
