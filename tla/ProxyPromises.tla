--------------------------- MODULE ProxyPromises ---------------------------
(***************************************************************************)
(* A chain of Depth proxies over one array, every trap of which answers    *)
(* whatever it likes (vm/proxy.rs, vm/proxy_shape.rs).  A program asks the *)
(* outermost about one key and holds it to everything the answers promise  *)
(* for ever; the array itself is changed meanwhile, directly, as a trap or *)
(* another reference to it may.                                            *)
(*                                                                         *)
(* An answer a check refuses is a throw, which promises nothing and        *)
(* changes nothing.  A handler without the trap passes the question on, so *)
(* the answers of one level are among those of the next.  The array is not *)
(* changed between two checks of one answer, and `length` and the indices  *)
(* are not on its prototype.                                               *)
(***************************************************************************)
EXTENDS ArrayObject

CONSTANTS Depth,    \* how many proxies stand before the array
          MayOmit   \* whether a trap's descriptor may leave fields out

ASSUME ProxyAssumption ==
    /\ Depth \in Nat \ {0}
    /\ MayOmit \in BOOLEAN
    /\ None # Absent /\ None \notin Elements \cup Lengths

VARIABLES watched,    \* the key asked about
          promised,   \* what the answers so far promise for ever
          kept        \* whether every answer kept to it

vars == <<table, extensible, outcome, watched, promised, kept>>

Described ==
    {d \in Descriptors(ValuesOf(watched)) :
       MayOmit \/ /\ d.configurable # None
                  /\ IsAccessor(d) \/ (d.value # None /\ d.writable # None)}

Promises ==
    [closed : BOOLEAN,
     own : {None, Absent} \cup {Data(v, w, FALSE) : v \in ValuesOf(watched), w \in BOOLEAN}
           \cup {Accessor(g, FALSE) : g \in Functions}]

TypeOK ==
    /\ ArrayTypeOK
    /\ watched \in Keys
    /\ promised \in Promises
    /\ kept \in BOOLEAN

Init ==
    /\ ArrayInit
    /\ watched \in Keys
    /\ promised = [closed |-> FALSE, own |-> None]
    /\ kept = TRUE

-----------------------------------------------------------------------------
(* The checks, each against what the target answers.                       *)

(* mutation: the target's own extensibility is not asked.                  *)
MayLoseAnyConfigurable(held) == held # Absent => held.configurable

(* A key that may be reported as missing, denied, or deleted.              *)
MayLose(held) == held # Absent => held.configurable /\ extensible

IsWritable(held) == held.kind = "data" /\ held.writable

(* proxy_own_property: the descriptor as the trap gave it is compared, and *)
(* the completed one is the answer.                                        *)
MayDescribe(d, held) ==
    /\ Validate(d, held, extensible)
    /\ d.configurable # TRUE =>
         Permanent(held) /\ ~(d.writable = FALSE /\ IsWritable(held))

(* proxy_define.                                                           *)
MayDefine(d, held) ==
    IF held = Absent
    THEN extensible /\ d.configurable # FALSE
    ELSE /\ Validate(d, held, extensible)
         /\ ~(d.configurable = FALSE /\ held.configurable)
         /\ ~(d.writable = FALSE /\ Permanent(held) /\ IsWritable(held))

(* proxy_get and proxy_set: what a fixed property reads as and takes.      *)
MayRead(v, held) ==
    Permanent(held) =>
        /\ held.kind = "data" /\ ~held.writable => v = held.value
        /\ held.kind = "accessor" /\ held.getter = Undefined => v = Undefined
MayWrite(v, held) ==
    Permanent(held) =>
        IF held.kind = "data" THEN held.writable \/ v = held.value
                              ELSE held.getter # Undefined

(* proxy_own_keys: whether the key may be in the list, where the target's  *)
(* list has it or not and describes it as `held`.                          *)
MayList(there, has, held) ==
    /\ has /\ (Permanent(held) \/ ~extensible) => there
    /\ there /\ ~has => extensible

-----------------------------------------------------------------------------
(* Every answer a level may give.                                          *)
OwnAt[n \in 0..Depth] ==
    IF n = 0 THEN {table[watched]}
    ELSE OwnAt[n - 1]
         \cup {Complete(d) : d \in {e \in Described :
                                      \E held \in OwnAt[n - 1] : MayDescribe(e, held)}}
         \cup {p \in {Absent} : \E held \in OwnAt[n - 1] : MayLose(held)}

ReadAt[n \in 0..Depth] ==
    LET held == table[watched]
    IN  IF n = 0
        THEN IF held = Absent THEN {Undefined}
             ELSE IF held.kind = "data" THEN {held.value}
             ELSE IF held.getter = Undefined THEN {Undefined} ELSE ValuesOf(watched)
        ELSE ReadAt[n - 1]
             \cup {v \in ValuesOf(watched) : \E h \in OwnAt[n - 1] : MayRead(v, h)}

ListedAt[n \in 0..Depth] ==
    IF n = 0 THEN {table[watched] # Absent}
    ELSE ListedAt[n - 1]
         \cup {there \in BOOLEAN : \E has \in ListedAt[n - 1], held \in OwnAt[n - 1] :
                                       MayList(there, has, held)}

(* What some trap on the way may claim: no trap at all is the array's own  *)
(* operation, a step of ArrayNext.                                         *)
Target == UNION {OwnAt[n] : n \in 0..Depth - 1}

-----------------------------------------------------------------------------
Learn(closed, own, honest) ==
    /\ promised' = [closed |-> promised.closed \/ closed,
                    own |-> IF own = None THEN promised.own ELSE own]
    /\ kept' = (kept /\ honest)
    /\ UNCHANGED <<table, extensible, outcome, watched>>

Nothing == promised.own \in {None, Absent}

AskOwn ==
    \E p \in OwnAt[Depth] :
        Learn(FALSE,
              IF Permanent(p) THEN p
              ELSE IF p = Absent /\ promised.closed THEN Absent ELSE None,
              CASE promised.own = None -> TRUE
                [] promised.own = Absent -> p = Absent
                [] OTHER -> MayBecome(promised.own, p))

(* proxy_extensible and proxy_prevent: no freedom at all.                  *)
AskExtensible ==
    Learn(~extensible, None, promised.closed => ~extensible)

AskPrevent == ~extensible /\ Learn(TRUE, None, TRUE)

AskRead ==
    \E v \in ReadAt[Depth] :
        Learn(FALSE, None, Nothing \/ MayRead(v, promised.own))

AskKeys ==
    \E there \in ListedAt[Depth] :
        Learn(FALSE,
              IF ~there /\ promised.closed THEN Absent ELSE None,
              promised.own # None => (there <=> promised.own # Absent))

(* A denial by `has`, and a deletion a trap says it made.                  *)
Deny ==
    /\ \E held \in Target : MayLose(held)
    /\ Learn(FALSE, IF promised.closed THEN Absent ELSE None, Nothing)

ClaimDefined ==
    \E d \in Descriptors(ValuesOf(watched)) :
        /\ \E held \in Target : MayDefine(d, held)
        /\ Learn(FALSE, None,
                 CASE promised.own = None -> TRUE
                   [] promised.own = Absent -> FALSE
                   [] OTHER -> Validate(d, promised.own, TRUE))

ClaimWritten ==
    \E v \in ValuesOf(watched) :
        /\ \E held \in Target : MayWrite(v, held)
        /\ Learn(FALSE, None, Nothing \/ MayWrite(v, promised.own))

Next ==
    \/ ArrayNext /\ UNCHANGED <<watched, promised, kept>>
    \/ AskOwn \/ AskExtensible \/ AskPrevent \/ AskRead \/ AskKeys
    \/ Deny \/ ClaimDefined \/ ClaimWritten

Spec == Init /\ [][Next]_vars

-----------------------------------------------------------------------------
(* No answer that passes the checks of every proxy on the way contradicts  *)
(* an earlier one: a property reported as permanent is never gone, another *)
(* or written over, and a closed object never regains a key (vm/proxy.rs,  *)
(* "The invariants, and why they are not optional").                       *)
PromisesKept == kept
=============================================================================
