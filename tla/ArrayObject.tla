---------------------------- MODULE ArrayObject ----------------------------
(***************************************************************************)
(* An Array (heap/array.rs, heap/ordinary.rs, heap/object.rs): `length` is *)
(* a property wired to the indices in both directions, and shortening may  *)
(* fail part way.  `outcome` is what the last operation answered.          *)
(*                                                                         *)
(* A definition with the comment "mutation" is the one after it with a bug *)
(* put in.                                                                 *)
(***************************************************************************)
EXTENDS PropertyRules, Integers

CONSTANTS Values,     \* what an element may hold
          Functions,  \* what an accessor may call
          Length,     \* the key `length`
          MaxLength   \* bound: the longest array

VARIABLES table,       \* the own properties
          extensible,
          outcome      \* "defined" or "refused"

object == <<table, extensible, outcome>>

Indices == 0..MaxLength - 1
Keys == Indices \cup {Length}
Sizes == 0..MaxLength

Elements == {Data(v, w, c) : v \in Values, w \in BOOLEAN, c \in BOOLEAN}
            \cup {Accessor(g, c) : g \in Functions, c \in BOOLEAN}
LengthData(n, w) == Data(n, w, FALSE)
Lengths == {LengthData(n, w) : n \in Sizes, w \in BOOLEAN}
Flags == BOOLEAN \cup {None}

ASSUME ArrayAssumption ==
    /\ MaxLength \in Nat
    /\ Length \notin Nat
    /\ Undefined \in Values
    /\ Absent \notin Elements /\ Absent \notin Lengths
    /\ None \notin Values /\ None \notin Functions
    /\ None \notin BOOLEAN /\ None \notin Sizes

(* Descriptors that name at most one kind.                                 *)
Descriptors(values) ==
    {Descriptor(v, w, None, c) : v \in values \cup {None}, w \in Flags, c \in Flags}
    \cup {Descriptor(None, None, g, c) : g \in Functions, c \in Flags}

ValuesOf(k) == IF k = Length THEN Sizes ELSE Values

LengthNow == table[Length].value
Present == {i \in Indices : table[i] # Absent}

ArrayTypeOK ==
    /\ table \in [Keys -> Elements \cup Lengths \cup {Absent}]
    /\ table[Length] \in Lengths
    /\ \A i \in Indices : table[i] \in Elements \cup {Absent}
    /\ extensible \in BOOLEAN
    /\ outcome \in {"defined", "refused"}

ArrayInit ==
    /\ table = [k \in Keys |-> IF k = Length THEN LengthData(0, TRUE) ELSE Absent]
    /\ extensible = TRUE
    /\ outcome = "defined"

-----------------------------------------------------------------------------
Refuse == outcome' = "refused" /\ UNCHANGED <<table, extensible>>
Store(changed) == outcome' = "defined" /\ table' = changed /\ UNCHANGED extensible

DefineOrdinary(k, d) ==
    IF Validate(d, table[k], extensible)
    THEN Store([table EXCEPT ![k] = Apply(d, @)])
    ELSE Refuse

(* mutation: an index is put past the end of an array of fixed length.     *)
DefineIndexAnyway(i, d) ==
    IF ~Validate(d, table[i], extensible)
    THEN Refuse
    ELSE Store([table EXCEPT ![i] = Apply(d, @),
                             ![Length].value =
                                 IF i >= @ /\ table[Length].writable
                                 THEN i + 1 ELSE @])

(* define_array_property: an index at or past `length` raises it.          *)
DefineIndex(i, d) ==
    IF \/ i >= LengthNow /\ ~table[Length].writable
       \/ ~Validate(d, table[i], extensible)
    THEN Refuse
    ELSE Store([table EXCEPT
                  ![i] = Apply(d, @),
                  ![Length] = LengthData(IF i >= LengthNow THEN i + 1 ELSE LengthNow,
                                         @.writable)])

(* delete_above: down to one past the highest index that refuses.          *)
Stuck(floor) == {i \in Present : i >= floor /\ ~table[i].configurable}
ReachedFrom(floor) ==
    {n \in floor..LengthNow : Stuck(n) = {} /\ (n > floor => n - 1 \in Stuck(floor))}
DeletedAbove(floor) ==
    [k \in Keys |-> IF k # Length /\ k >= floor THEN Absent ELSE table[k]]

(* set_array_length: the elements go first, and then `length` is defined,  *)
(* which the other fields of the descriptor may still have refused.        *)
SetLength(d) ==
    IF d.value = None
    THEN DefineOrdinary(Length, d)
    ELSE IF ~table[Length].writable /\ d.value # LengthNow
    THEN Refuse
    ELSE \E reached \in IF d.value >= LengthNow THEN {d.value}
                                                ELSE ReachedFrom(d.value) :
           LET left == IF d.value >= LengthNow THEN table ELSE DeletedAbove(reached)
               asked == [d EXCEPT !.value = reached]
               stored == Validate(asked, left[Length], extensible)
           IN  /\ table' = IF stored
                           THEN [left EXCEPT ![Length] = Apply(asked, @)]
                           ELSE left
               /\ outcome' = IF stored /\ reached = d.value
                             THEN "defined" ELSE "refused"
               /\ UNCHANGED extensible

Define(k, d) == IF k = Length THEN SetLength(d) ELSE DefineIndex(k, d)

(* Assignment to the array itself: an accessor is called, a property that  *)
(* is not writable refuses, a new one gets every attribute.                *)
Assign(k, v) ==
    LET held == table[k]
    IN  \/ held = Absent /\ Define(k, Descriptor(v, TRUE, None, TRUE))
        \/ /\ held # Absent /\ held.kind = "data"
           /\ IF held.writable
              THEN Define(k, Descriptor(v, None, None, None))
              ELSE Refuse
        \/ /\ held # Absent /\ held.kind = "accessor"
           /\ IF held.getter = Undefined THEN Refuse ELSE Store(table)

(* mutation: a permanent property goes.                                    *)
DeleteAnything(k) == Store([table EXCEPT ![k] = Absent])

Delete(k) ==
    IF Permanent(table[k]) THEN Refuse ELSE Store([table EXCEPT ![k] = Absent])

PreventExtensions ==
    /\ extensible' = FALSE /\ outcome' = "defined"
    /\ UNCHANGED table

(* shut: Object.seal and, with `frozen`, Object.freeze.                    *)
Shut(frozen) ==
    LET asked(k) ==
          Descriptor(None,
                     IF frozen /\ table[k].kind = "data" THEN FALSE ELSE None,
                     None, FALSE)
    IN  /\ extensible' = FALSE /\ outcome' = "defined"
        /\ table' = [k \in Keys |->
                       IF table[k] = Absent THEN Absent
                       ELSE Apply(asked(k), table[k])]

ArrayNext ==
    \/ \E k \in Keys : \/ \E d \in Descriptors(ValuesOf(k)) : Define(k, d)
                       \/ \E v \in ValuesOf(k) : Assign(k, v)
                       \/ Delete(k)
    \/ PreventExtensions
    \/ \E frozen \in BOOLEAN : Shut(frozen)

ArraySpec == ArrayInit /\ [][ArrayNext]_object

-----------------------------------------------------------------------------
(* No index is at or past `length`, whatever was defined, assigned,        *)
(* deleted, frozen or shortened part way (heap/array.rs).                  *)
LengthAboveIndices == \A i \in Present : i < LengthNow

(* What a program may rely on for ever: an object that takes no more       *)
(* properties never does, a key it does not have then never appears, and a *)
(* permanent property stays and changes only as a writable one may         *)
(* (heap/define.rs, the essential invariants of section 6.1.7.3).          *)
Stays ==
    /\ extensible' => extensible
    /\ \A k \in Keys :
          /\ Permanent(table[k]) => MayBecome(table[k], table'[k])
          /\ ~extensible /\ table[k] = Absent => table'[k] = Absent
PermanentStays == [][Stays]_object

(* A shortening that is refused after it deleted something leaves `length` *)
(* one past the index that refused (heap/array.rs, "the half that          *)
(* surprises people").  The code breaks this: see the README.              *)
RefusedShorteningMovesLength ==
    [][outcome' = "refused" /\ table' # table =>
         /\ table'[Length].value > 0
         /\ Permanent(table'[table'[Length].value - 1])]_object
=============================================================================
