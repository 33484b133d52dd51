---------------------------- MODULE PropertyRules ----------------------------
(***************************************************************************)
(* What may become of one property: ValidateAndApplyPropertyDescriptor in  *)
(* its two halves (heap/define.rs).  An accessor's two functions go        *)
(* together and are one here; `enumerable`, which is frozen with           *)
(* `configurable` and constrains nothing else, is left out.                *)
(***************************************************************************)
CONSTANTS Absent,     \* no such own property
          None,       \* a field a descriptor does not have
          Undefined   \* the value, and the getter of an accessor without one

Field(given, otherwise) == IF given = None THEN otherwise ELSE given

Data(value, writable, configurable) ==
    [kind |-> "data", value |-> value, writable |-> writable,
     configurable |-> configurable]
Accessor(getter, configurable) ==
    [kind |-> "accessor", getter |-> getter, configurable |-> configurable]

Descriptor(value, writable, getter, configurable) ==
    [value |-> value, writable |-> writable, getter |-> getter,
     configurable |-> configurable]

IsAccessor(d) == d.getter # None
IsData(d) == d.value # None \/ d.writable # None

(* mutation: a permanent property may change its kind.                     *)
ValidateAnyKind(d, held, extensible) ==
    IF held = Absent THEN extensible
    ELSE \/ held.configurable
         \/ /\ d.configurable # TRUE
            /\ \/ held.kind = "accessor" /\ d.getter \in {None, held.getter}
               \/ held.kind = "data" /\ held.writable
               \/ /\ held.kind = "data" /\ ~held.writable
                  /\ d.writable # TRUE
                  /\ d.value \in {None, held.value}

(* validate: whether the change is allowed.                                *)
Validate(d, held, extensible) ==
    IF held = Absent THEN extensible
    ELSE \/ held.configurable
         \/ /\ d.configurable # TRUE
            /\ IsAccessor(d) => held.kind = "accessor"
            /\ IsData(d) => held.kind = "data"
            /\ \/ held.kind = "accessor" /\ d.getter \in {None, held.getter}
               \/ held.kind = "data" /\ held.writable
               \/ /\ held.kind = "data" /\ ~held.writable
                  /\ d.writable # TRUE
                  /\ d.value \in {None, held.value}

(* CompletePropertyDescriptor, and the property a new key gets.            *)
Complete(d) ==
    IF IsAccessor(d)
    THEN Accessor(d.getter, Field(d.configurable, FALSE))
    ELSE Data(Field(d.value, Undefined), Field(d.writable, FALSE),
              Field(d.configurable, FALSE))

(* apply: a field the descriptor lacks is left alone, unless the property  *)
(* changes its kind.                                                       *)
Apply(d, held) ==
    IF held = Absent THEN Complete(d)
    ELSE LET configurable == Field(d.configurable, held.configurable)
         IN  IF IsAccessor(d) \/ (held.kind = "accessor" /\ ~IsData(d))
             THEN Accessor(IF IsAccessor(d) THEN d.getter ELSE held.getter,
                           configurable)
             ELSE IF held.kind = "accessor"
             THEN Data(Field(d.value, Undefined), Field(d.writable, FALSE),
                       configurable)
             ELSE Data(Field(d.value, held.value),
                       Field(d.writable, held.writable), configurable)

Permanent(p) == p # Absent /\ ~p.configurable

(* What a permanent property may still become: a writable one may change   *)
(* its value and may stop being writable.                                  *)
MayBecome(p, q) ==
    \/ q = p
    \/ /\ p.kind = "data" /\ p.writable
       /\ q # Absent /\ q.kind = "data" /\ ~q.configurable
=============================================================================
