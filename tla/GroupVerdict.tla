---------------------------- MODULE GroupVerdict ----------------------------
(***************************************************************************)
(* What Promise.all, allSettled, any and race promise, with no counter, no *)
(* handler and no iterator protocol: the answer is given in the very step  *)
(* that decides it, it is given once, and a list in it has one entry per   *)
(* element, in the order they were read.                                   *)
(***************************************************************************)
EXTENDS Naturals, Sequences

CONSTANTS Values, Unheard

VARIABLES group,   \* which of the four it is
          walk,    \* "reading", "abandoned", "over" or "failed"
          got,     \* per element, the report that is listed, or Unheard
          answer

(* The reports that are listed; any other decides the group by itself.     *)
Listed == [all |-> {"fulfil"}, any |-> {"reject"},
           allSettled |-> {"fulfil", "reject"}, race |-> {}]

Report(how, v) == [how |-> how, value |-> v]
Pending == [is |-> "pending"]
Settled(how, with) == [is |-> how, with |-> with]

(* `any` has failed when it has a list, the others have succeeded.         *)
ListAnswer(list) == Settled(IF group = "any" THEN "reject" ELSE "fulfil", list)

Complete == /\ group # "race"
            /\ walk = "over"
            /\ \A i \in DOMAIN got : got[i] # Unheard

Give(end) == answer' = IF answer = Pending THEN end ELSE answer

GiveListWhenComplete ==
    IF Complete' THEN Give(ListAnswer(got')) ELSE UNCHANGED answer

Init == /\ group \in DOMAIN Listed
        /\ walk = "reading"
        /\ got = <<>>
        /\ answer = Pending

Read == /\ walk = "reading"
        /\ got' = Append(got, Unheard)
        /\ UNCHANGED <<group, walk, answer>>

Hear(i, how, v) ==
    /\ UNCHANGED <<group, walk>>
    /\ \/ /\ how \in Listed[group] /\ got[i] = Unheard
          /\ got' = [got EXCEPT ![i] = Report(how, v)]
          /\ GiveListWhenComplete
       \/ /\ how \notin Listed[group]
          /\ Give(Settled(how, v))
          /\ UNCHANGED got

Finish == /\ walk = "reading"
          /\ walk' = "over"
          /\ UNCHANGED <<group, got>>
          /\ GiveListWhenComplete

(* Scripts run between giving up on the elements and saying so.            *)
Abandon == /\ walk = "reading"
           /\ walk' = "abandoned"
           /\ UNCHANGED <<group, got, answer>>

Fail == /\ walk \in {"reading", "abandoned"}
        /\ walk' = "failed"
        /\ Give(Settled("reject", "error"))
        /\ UNCHANGED <<group, got>>

Next == \/ Read \/ Finish \/ Abandon \/ Fail
        \/ \E i \in DOMAIN got, how \in {"fulfil", "reject"}, v \in Values :
              Hear(i, how, v)

Spec == Init /\ [][Next]_<<group, walk, got, answer>>
=============================================================================
