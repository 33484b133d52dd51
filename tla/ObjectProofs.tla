---------------------------- MODULE ObjectProofs ----------------------------
(***************************************************************************)
(* For every set of values and functions, arrays of any length and chains  *)
(* of any number of proxies: no index is at or past `length`, what is      *)
(* permanent stays, and no chain of proxies goes back on what it reported. *)
(***************************************************************************)
EXTENDS ProxyPromises, WellFoundedInduction, TLAPS

ArrayInv == ArrayTypeOK /\ LengthAboveIndices

(* The keys, apart.                                                        *)
LEMMA KeysApart ==
    /\ Length \in Keys /\ Length \notin Indices
    /\ Indices \subseteq Keys /\ Indices \subseteq Nat
    /\ \A k \in Keys : k \in Indices \/ k = Length
    /\ \A i \in Indices : i + 1 \in Sizes
<1> QED BY ArrayAssumption DEF Keys, Indices, Sizes

(* A property is one of two kinds.                                         *)
LEMMA ElementIs ==
    ASSUME NEW p \in Elements
    PROVE  /\ p # Absent /\ p.configurable \in BOOLEAN
           /\ p.kind \in {"data", "accessor"}
           /\ p.kind = "data" =>
                 /\ p.value \in Values /\ p.writable \in BOOLEAN
                 /\ p = Data(p.value, p.writable, p.configurable)
           /\ p.kind = "accessor" =>
                 /\ p.getter \in Functions
                 /\ p = Accessor(p.getter, p.configurable)
<1>1. p # Absent
  BY ArrayAssumption
<1>2. CASE \E v \in Values, w \in BOOLEAN, c \in BOOLEAN : p = Data(v, w, c)
  <2>1. PICK v \in Values, w \in BOOLEAN, c \in BOOLEAN : p = Data(v, w, c)
    BY <1>2
  <2>2. /\ p.kind = "data" /\ p.value = v /\ p.writable = w /\ p.configurable = c
    BY <2>1 DEF Data
  <2> QED BY <1>1, <2>1, <2>2
<1>3. CASE \E g \in Functions, c \in BOOLEAN : p = Accessor(g, c)
  <2>1. PICK g \in Functions, c \in BOOLEAN : p = Accessor(g, c)
    BY <1>3
  <2>2. p.kind = "accessor" /\ p.getter = g /\ p.configurable = c
    BY <2>1 DEF Accessor
  <2> QED BY <1>1, <2>1, <2>2
<1> QED BY <1>2, <1>3 DEF Elements

LEMMA LengthIs ==
    ASSUME NEW p \in Lengths
    PROVE  /\ p # Absent /\ p.configurable = FALSE /\ p.kind = "data"
           /\ p.value \in Sizes /\ p.writable \in BOOLEAN
           /\ p = Data(p.value, p.writable, FALSE)
<1>1. PICK n \in Sizes, w \in BOOLEAN : p = LengthData(n, w)
  BY DEF Lengths
<1>2. p.kind = "data" /\ p.value = n /\ p.writable = w /\ p.configurable = FALSE
  BY <1>1 DEF LengthData, Data
<1>3. p # Absent
  BY ArrayAssumption
<1> QED BY <1>1, <1>2, <1>3 DEF LengthData

LEMMA DescriptorIs ==
    ASSUME NEW values, None \notin values, NEW d \in Descriptors(values)
    PROVE  /\ d.value \in values \cup {None}
           /\ d.writable \in BOOLEAN \cup {None}
           /\ d.configurable \in BOOLEAN \cup {None}
           /\ d.getter \in Functions \cup {None}
           /\ IsAccessor(d) => ~IsData(d)
<1> QED BY DEF Descriptors, Descriptor, Flags, IsAccessor, IsData

-----------------------------------------------------------------------------
(* What apply makes of a property validate let through.                    *)
LEMMA ApplyMakesElement ==
    ASSUME NEW d \in Descriptors(Values), NEW held \in Elements \cup {Absent}
    PROVE  Apply(d, held) \in Elements
<1>1. /\ d.value \in Values \cup {None} /\ d.writable \in BOOLEAN \cup {None}
      /\ d.configurable \in BOOLEAN \cup {None}
      /\ d.getter \in Functions \cup {None}
  BY ArrayAssumption, DescriptorIs
<1>2. /\ \A v \in Values, w \in BOOLEAN, c \in BOOLEAN : Data(v, w, c) \in Elements
      /\ \A g \in Functions, c \in BOOLEAN : Accessor(g, c) \in Elements
  BY DEF Elements
<1>3. CASE held = Absent
  <2>1. Complete(d) \in Elements
    BY <1>1, <1>2, ArrayAssumption DEF Complete, IsAccessor, Field
  <2> QED BY <1>3, <2>1 DEF Apply
<1>4. CASE held \in Elements /\ held # Absent
  <2> DEFINE c == Field(d.configurable, held.configurable)
  <2>1. c \in BOOLEAN
    BY <1>1, <1>4, ElementIs DEF Field
  <2>2. CASE IsAccessor(d) \/ (held.kind = "accessor" /\ ~IsData(d))
    <3>1. (IF IsAccessor(d) THEN d.getter ELSE held.getter) \in Functions
      BY <1>1, <1>4, <2>2, ElementIs DEF IsAccessor
    <3>2. Apply(d, held) = Accessor(IF IsAccessor(d) THEN d.getter ELSE held.getter, c)
      BY <1>4, <2>2 DEF Apply
    <3> QED BY <1>2, <2>1, <3>1, <3>2
  <2>3. CASE ~IsAccessor(d) /\ held.kind = "accessor" /\ IsData(d)
    <3>1. Apply(d, held) = Data(Field(d.value, Undefined), Field(d.writable, FALSE), c)
      BY <1>4, <2>3 DEF Apply
    <3>2. Field(d.value, Undefined) \in Values /\ Field(d.writable, FALSE) \in BOOLEAN
      BY <1>1, ArrayAssumption DEF Field
    <3> QED BY <1>2, <2>1, <3>1, <3>2
  <2>4. CASE ~IsAccessor(d) /\ held.kind # "accessor"
    <3>1. Apply(d, held) = Data(Field(d.value, held.value),
                                Field(d.writable, held.writable), c)
      BY <1>4, <2>4 DEF Apply
    <3>2. held.value \in Values /\ held.writable \in BOOLEAN
      BY <1>4, <2>4, ElementIs
    <3>3. Field(d.value, held.value) \in Values /\ Field(d.writable, held.writable) \in BOOLEAN
      BY <1>1, <3>2 DEF Field
    <3> QED BY <1>2, <2>1, <3>1, <3>3
  <2> QED BY <2>2, <2>3, <2>4
<1> QED BY <1>3, <1>4

(* A permanent property becomes only what it may.                          *)
LEMMA ApplyKeepsAccessor ==
    ASSUME NEW values, None \notin values, NEW d \in Descriptors(values),
           NEW held \in Elements, held.kind = "accessor", ~held.configurable,
           NEW e, Validate(d, held, e)
    PROVE  Apply(d, held) = held
<1>1. /\ held # Absent /\ held = Accessor(held.getter, FALSE)
      /\ held.configurable = FALSE
  BY ElementIs
<1>2. /\ d.configurable # TRUE /\ ~IsData(d) /\ d.getter \in {None, held.getter}
  BY <1>1 DEF Validate
<1>3. Field(d.configurable, held.configurable) = FALSE
  BY <1>1, <1>2, DescriptorIs DEF Field
<1>4. (IF IsAccessor(d) THEN d.getter ELSE held.getter) = held.getter
  BY <1>2 DEF IsAccessor
<1>5. Apply(d, held) = Accessor(IF IsAccessor(d) THEN d.getter ELSE held.getter,
                                Field(d.configurable, held.configurable))
  BY <1>1, <1>2 DEF Apply
<1> QED BY <1>1, <1>3, <1>4, <1>5

LEMMA ApplyKeepsData ==
    ASSUME NEW values, None \notin values, NEW d \in Descriptors(values),
           NEW held, held # Absent, held.writable \in BOOLEAN,
           held = Data(held.value, held.writable, FALSE), NEW e, Validate(d, held, e)
    PROVE  /\ ~IsAccessor(d)
           /\ Apply(d, held) = Data(Field(d.value, held.value),
                                    Field(d.writable, held.writable), FALSE)
           /\ Field(d.writable, held.writable) \in BOOLEAN
           /\ ~held.writable => Apply(d, held) = held
<1>1. held.kind = "data" /\ held.configurable = FALSE
  BY DEF Data
<1>2. /\ d.configurable # TRUE /\ ~IsAccessor(d)
      /\ ~held.writable => d.writable # TRUE /\ d.value \in {None, held.value}
  BY <1>1 DEF Validate
<1>3. Field(d.configurable, held.configurable) = FALSE
  BY <1>1, <1>2, DescriptorIs DEF Field
<1>4. Apply(d, held) = Data(Field(d.value, held.value),
                            Field(d.writable, held.writable), FALSE)
  BY <1>1, <1>2, <1>3 DEF Apply
<1>5. Field(d.writable, held.writable) \in BOOLEAN
  BY DescriptorIs DEF Field
<1>6. ~held.writable => /\ Field(d.value, held.value) = held.value
                        /\ Field(d.writable, held.writable) = held.writable
  BY <1>2, DescriptorIs DEF Field
<1> QED BY <1>2, <1>4, <1>5, <1>6

LEMMA ApplyKeeps ==
    ASSUME NEW d \in Descriptors(Values), NEW held \in Elements,
           Permanent(held), NEW e, Validate(d, held, e)
    PROVE  MayBecome(held, Apply(d, held))
<1>1. ~held.configurable /\ held.configurable = FALSE
  BY ElementIs DEF Permanent
<1>2. CASE held.kind = "accessor"
  BY <1>1, <1>2, ApplyKeepsAccessor, ArrayAssumption DEF MayBecome
<1>3. CASE held.kind = "data"
  <2>1. /\ held # Absent /\ held.writable \in BOOLEAN
        /\ held = Data(held.value, held.writable, FALSE)
    BY <1>1, <1>3, ElementIs
  <2>2. None \notin Values
    BY ArrayAssumption
  <2>5. /\ Apply(d, held) = Data(Field(d.value, held.value),
                                 Field(d.writable, held.writable), FALSE)
        /\ ~held.writable => Apply(d, held) = held
    BY <2>1, <2>2, ApplyKeepsData
  <2>3. Apply(d, held) # Absent
    BY ApplyMakesElement, ElementIs
  <2>4. Apply(d, held).kind = "data" /\ Apply(d, held).configurable = FALSE
    BY <2>5 DEF Data
  <2> QED BY <1>3, <2>5, <2>3, <2>4 DEF MayBecome
<1> QED BY <1>2, <1>3, ElementIs

LEMMA ApplyKeepsLength ==
    ASSUME NEW d \in Descriptors(Sizes), NEW held \in Lengths, NEW e,
           Validate(d, held, e)
    PROVE  /\ Apply(d, held) \in Lengths
           /\ MayBecome(held, Apply(d, held))
           /\ d.value = None => Apply(d, held).value = held.value
           /\ d.value # None => Apply(d, held).value = d.value
<1>0. None \notin Sizes
  BY ArrayAssumption
<1>1. /\ held # Absent /\ held.writable \in BOOLEAN /\ held.value \in Sizes
      /\ held = Data(held.value, held.writable, FALSE) /\ held.kind = "data"
  BY LengthIs
<1>2. /\ Apply(d, held) = Data(Field(d.value, held.value),
                               Field(d.writable, held.writable), FALSE)
      /\ Field(d.writable, held.writable) \in BOOLEAN
      /\ ~held.writable => Apply(d, held) = held
  BY <1>0, <1>1, ApplyKeepsData
<1>3. Field(d.value, held.value) \in Sizes
  BY <1>0, <1>1, DescriptorIs DEF Field
<1>4. Apply(d, held) \in Lengths
  <2>1. \A n \in Sizes, w \in BOOLEAN : LengthData(n, w) \in Lengths
    BY DEF Lengths
  <2> QED BY <1>2, <1>3, <2>1 DEF LengthData
<1>5. MayBecome(held, Apply(d, held))
  BY <1>1, <1>2, <1>4, LengthIs DEF MayBecome
<1> QED BY <1>2, <1>4, <1>5 DEF Data, Field

-----------------------------------------------------------------------------
(* What the invariant says of each key.                                    *)
LEMMA KeysHold ==
    ASSUME ArrayInv
    PROVE  /\ DOMAIN table = Keys
           /\ table[Length] \in Lengths
           /\ table[Length] # Absent /\ LengthNow \in Sizes /\ LengthNow \in Nat
           /\ Permanent(table[Length])
           /\ \A i \in Indices : /\ table[i] \in Elements \cup {Absent}
                                 /\ table[i] # Absent => i < LengthNow
           /\ extensible \in BOOLEAN
<1>1. table[Length] \in Lengths
  BY DEF ArrayInv, ArrayTypeOK
<1>2. /\ table[Length] # Absent /\ table[Length].configurable = FALSE
      /\ LengthNow \in Sizes
  BY <1>1, LengthIs DEF LengthNow
<1>3. LengthNow \in Nat
  BY <1>2, ArrayAssumption DEF Sizes
<1>4. Permanent(table[Length])
  BY <1>2 DEF Permanent
<1>5. \A i \in Indices : table[i] # Absent => i < LengthNow
  BY DEF ArrayInv, LengthAboveIndices, Present
<1> QED BY <1>1, <1>2, <1>3, <1>4, <1>5 DEF ArrayInv, ArrayTypeOK

(* What a step has to show, key by key.                                    *)
LEMMA KeyByKey ==
    ASSUME ArrayInv,
           table' = [k \in Keys |-> table'[k]],
           table'[Length] \in Lengths,
           MayBecome(table[Length], table'[Length]),
           ASSUME NEW i \in Indices
           PROVE  /\ table'[i] \in Elements \cup {Absent}
                  /\ table'[i] # Absent => i < LengthNow'
                  /\ Permanent(table[i]) => MayBecome(table[i], table'[i])
                  /\ ~extensible /\ table[i] = Absent => table'[i] = Absent,
           extensible' \in BOOLEAN, extensible' => extensible,
           outcome' \in {"defined", "refused"}
    PROVE  ArrayInv' /\ Stays
<1>1. \A k \in Keys : table'[k] \in Elements \cup Lengths \cup {Absent}
  BY KeysApart
<1>2. ArrayTypeOK'
  BY <1>1 DEF ArrayTypeOK
<1>3. LengthAboveIndices'
  BY DEF LengthAboveIndices, Present
<1>4. Stays
  BY KeysApart, KeysHold DEF Stays
<1> QED BY <1>2, <1>3, <1>4 DEF ArrayInv

LEMMA NothingMoves ==
    ASSUME ArrayInv, table' = table, extensible' = extensible,
           outcome' \in {"defined", "refused"}
    PROVE  ArrayInv' /\ Stays
<1>1. ArrayInv'
  BY DEF ArrayInv, ArrayTypeOK, LengthAboveIndices, Present, LengthNow
<1>2. Stays
  BY DEF Stays, MayBecome
<1> QED BY <1>1, <1>2

-----------------------------------------------------------------------------
LEMMA DefineIndexHolds ==
    ASSUME ArrayInv, NEW i \in Indices, NEW d \in Descriptors(Values),
           DefineIndex(i, d)
    PROVE  ArrayInv' /\ Stays
<1>1. CASE Refuse
  BY <1>1, NothingMoves DEF Refuse
<1>2. CASE ~Refuse
  <2> DEFINE longer == IF i >= LengthNow THEN i + 1 ELSE LengthNow
             length == LengthData(longer, table[Length].writable)
  <2>1. /\ ~(i >= LengthNow /\ ~table[Length].writable)
        /\ Validate(d, table[i], extensible)
        /\ outcome' = "defined" /\ extensible' = extensible
        /\ table' = [table EXCEPT ![i] = Apply(d, @),
                                  ![Length] = LengthData(longer, @.writable)]
    BY <1>2 DEF DefineIndex, Store
  <2>2. /\ table[i] \in Elements \cup {Absent}
        /\ DOMAIN table = Keys /\ Length \in Keys /\ i \in Keys /\ i # Length
    BY KeysHold, KeysApart
  <2>3. /\ table'[Length] = length
        /\ table'[i] = Apply(d, table[i])
        /\ \A j \in Indices : j # i => table'[j] = table[j]
        /\ DOMAIN table' = Keys /\ table' = [k \in Keys |-> table'[k]]
    BY <2>1, <2>2, KeysApart DEF LengthNow, ArrayInv, ArrayTypeOK
  <2>4. longer \in Sizes /\ longer \in Nat /\ i < longer /\ LengthNow <= longer
    BY KeysHold, KeysApart DEF Sizes
  <2>5. /\ table[Length] = Data(LengthNow, table[Length].writable, FALSE)
        /\ table[Length].writable \in BOOLEAN
    BY KeysHold, LengthIs DEF LengthNow
  <2>6. length = Data(longer, table[Length].writable, FALSE)
    BY DEF LengthData
  <2>7. length \in Lengths /\ length.value = longer
    <3>1. \A n \in Sizes, w \in BOOLEAN : LengthData(n, w) \in Lengths
      BY DEF Lengths
    <3>2. length.value = longer
      BY <2>6 DEF Data
    <3> QED BY <2>4, <2>5, <3>1, <3>2
  <2>8. MayBecome(table[Length], length)
    <3>1. CASE i >= LengthNow
      <4>1. table[Length].kind = "data" /\ table[Length].writable
        BY <2>1, <3>1, KeysHold, LengthIs
      <4>2. length # Absent /\ length.kind = "data" /\ ~length.configurable
        BY <2>7, LengthIs
      <4> QED BY <4>1, <4>2 DEF MayBecome
    <3>2. CASE ~(i >= LengthNow)
      BY <2>5, <2>6, <3>2 DEF MayBecome
    <3> QED BY <3>1, <3>2
  <2>9. ASSUME NEW j \in Indices
        PROVE  /\ table'[j] \in Elements \cup {Absent}
               /\ table'[j] # Absent => j < LengthNow'
               /\ Permanent(table[j]) => MayBecome(table[j], table'[j])
               /\ ~extensible /\ table[j] = Absent => table'[j] = Absent
    <3>1. LengthNow' = longer
      BY <2>3, <2>7 DEF LengthNow
    <3>2. CASE j = i
      <4>1. table'[i] \in Elements
        BY <2>2, <2>3, ApplyMakesElement
      <4>2. Permanent(table[i]) => MayBecome(table[i], table'[i])
        BY <2>1, <2>2, <2>3, ApplyKeeps DEF Permanent
      <4>3. table[i] = Absent => extensible
        BY <2>1 DEF Validate
      <4> QED BY <2>4, <3>1, <3>2, <4>1, <4>2, <4>3
    <3>3. CASE j # i
      <4>1. table'[j] = table[j]
        BY <2>3, <3>3
      <4>2. table[j] \in Elements \cup {Absent} /\ (table[j] # Absent => j < longer)
        BY <2>4, KeysHold, KeysApart
      <4>3. MayBecome(table[j], table[j])
        BY DEF MayBecome
      <4> QED BY <3>1, <4>1, <4>2, <4>3
    <3> QED BY <3>2, <3>3
  <2>10. extensible' \in BOOLEAN /\ (extensible' => extensible)
    BY <2>1, KeysHold
  <2> HIDE DEF longer, length
  <2> QED BY <2>1, <2>3, <2>7, <2>8, <2>9, <2>10, KeyByKey, Zenon
<1> QED BY <1>1, <1>2

LEMMA SetLengthHolds ==
    ASSUME ArrayInv, NEW d \in Descriptors(Sizes), SetLength(d)
    PROVE  ArrayInv' /\ Stays
<1>0. /\ table[Length] \in Lengths /\ Length \in Keys
      /\ table = [k \in Keys |-> table[k]]
      /\ d.value \in Sizes \cup {None}
  BY KeysHold, KeysApart, ArrayAssumption, DescriptorIs DEF ArrayInv, ArrayTypeOK
<1>1. CASE Refuse
  BY <1>1, NothingMoves DEF Refuse
<1>2. CASE d.value = None /\ ~Refuse
  <2>1. /\ Validate(d, table[Length], extensible)
        /\ table' = [table EXCEPT ![Length] = Apply(d, @)]
        /\ outcome' = "defined" /\ extensible' = extensible
    BY <1>2 DEF SetLength, DefineOrdinary, Store
  <2>2. /\ Apply(d, table[Length]) \in Lengths
        /\ MayBecome(table[Length], Apply(d, table[Length]))
        /\ Apply(d, table[Length]).value = LengthNow
    BY <1>0, <1>2, <2>1, ApplyKeepsLength DEF LengthNow
  <2>3. /\ table'[Length] = Apply(d, table[Length])
        /\ \A j \in Indices : table'[j] = table[j]
        /\ DOMAIN table' = Keys /\ table' = [k \in Keys |-> table'[k]]
    BY <1>0, <2>1, KeysApart
  <2>4. ASSUME NEW j \in Indices
        PROVE  /\ table'[j] \in Elements \cup {Absent}
               /\ table'[j] # Absent => j < LengthNow'
               /\ Permanent(table[j]) => MayBecome(table[j], table'[j])
               /\ ~extensible /\ table[j] = Absent => table'[j] = Absent
    <3>1. LengthNow' = LengthNow
      BY <2>2, <2>3 DEF LengthNow
    <3> QED BY <2>3, <3>1, KeysHold DEF MayBecome
  <2>5. extensible' \in BOOLEAN /\ (extensible' => extensible)
    BY <2>1, KeysHold
  <2> QED BY <2>1, <2>2, <2>3, <2>4, <2>5, KeyByKey, Zenon
<1>3. CASE d.value # None /\ ~Refuse
  <2> DEFINE left(n) == IF d.value >= LengthNow THEN table ELSE DeletedAbove(n)
             asked(n) == [d EXCEPT !.value = n]
  <2>1. PICK reached \in IF d.value >= LengthNow THEN {d.value}
                                                 ELSE ReachedFrom(d.value) :
          /\ table' = IF Validate(asked(reached), left(reached)[Length], extensible)
                      THEN [left(reached) EXCEPT ![Length] = Apply(asked(reached), @)]
                      ELSE left(reached)
          /\ outcome' \in {"defined", "refused"}
          /\ extensible' = extensible
    BY <1>3 DEF SetLength
  <2>2. d.value \in Sizes /\ d.value \in Nat
    BY <1>0, <1>3, ArrayAssumption DEF Sizes
  <2>3. reached \in Sizes /\ reached \in Nat
    BY <2>2, KeysHold, ArrayAssumption DEF ReachedFrom, Sizes
  <2>4. asked(reached) \in Descriptors(Sizes) /\ asked(reached).value = reached
    <3>1. PICK v \in Sizes \cup {None}, w \in Flags, c \in Flags :
            d = Descriptor(v, w, None, c)
      BY <1>3 DEF Descriptors, Descriptor
    <3>2. asked(reached) = Descriptor(reached, w, None, c)
      BY <3>1 DEF Descriptor
    <3>3. asked(reached) \in Descriptors(Sizes)
      BY <2>3, <3>2 DEF Descriptors
    <3> QED BY <3>2, <3>3 DEF Descriptor
  <2>5. /\ left(reached)[Length] = table[Length]
        /\ left(reached) = [k \in Keys |-> left(reached)[k]]
    BY <1>0 DEF DeletedAbove
  <2>6. ASSUME NEW j \in Indices
        PROVE  /\ left(reached)[j] \in {table[j], Absent}
               /\ left(reached)[j] # Absent => j < reached
               /\ Permanent(table[j]) => left(reached)[j] = table[j]
    <3>1. CASE d.value >= LengthNow
      BY <2>1, <2>2, <3>1, KeysHold, KeysApart
    <3>2. CASE ~(d.value >= LengthNow)
      <4>1. Stuck(reached) = {}
        BY <2>1, <3>2 DEF ReachedFrom
      <4>2. left(reached)[j] = IF j >= reached THEN Absent ELSE table[j]
        BY <3>2, KeysApart DEF DeletedAbove
      <4>3. Permanent(table[j]) => ~(j >= reached)
        BY <4>1 DEF Stuck, Present, Permanent
      <4> QED BY <2>3, <4>2, <4>3, KeysApart
    <3> QED BY <3>1, <3>2
  <2> HIDE DEF left, asked
  <2>7. \A j \in Indices : table'[j] = left(reached)[j]
    BY <2>1, <2>5, KeysApart
  <2>8. /\ table'[Length] \in Lengths
        /\ MayBecome(table[Length], table'[Length])
        /\ LengthNow' = reached \/ (LengthNow' = LengthNow)
        /\ DOMAIN table' = Keys /\ table' = [k \in Keys |-> table'[k]]
    <3>1. CASE Validate(asked(reached), table[Length], extensible)
      <4>1. /\ table'[Length] = Apply(asked(reached), table[Length])
            /\ DOMAIN table' = Keys /\ table' = [k \in Keys |-> table'[k]]
        BY <1>0, <2>1, <2>5, <3>1
      <4>2. reached # None
        BY <2>3, ArrayAssumption
      <4> QED BY <1>0, <2>4, <3>1, <4>1, <4>2, ApplyKeepsLength DEF LengthNow
    <3>2. CASE ~Validate(asked(reached), table[Length], extensible)
      <4>1. table' = left(reached)
        BY <2>1, <2>5, <3>2
      <4> QED BY <1>0, <2>5, <4>1 DEF LengthNow, MayBecome
    <3> QED BY <3>1, <3>2
  <2>9. ASSUME NEW j \in Indices
        PROVE  /\ table'[j] \in Elements \cup {Absent}
               /\ table'[j] # Absent => j < LengthNow'
               /\ Permanent(table[j]) => MayBecome(table[j], table'[j])
               /\ ~extensible /\ table[j] = Absent => table'[j] = Absent
    BY <2>6, <2>7, <2>8, KeysHold DEF MayBecome
  <2>10. extensible' \in BOOLEAN /\ (extensible' => extensible)
    BY <2>1, KeysHold
  <2> QED BY <2>1, <2>8, <2>9, <2>10, KeyByKey, Zenon
<1> QED BY <1>1, <1>2, <1>3

-----------------------------------------------------------------------------
LEMMA DefineHolds ==
    ASSUME ArrayInv, NEW k \in Keys, NEW d \in Descriptors(ValuesOf(k)),
           Define(k, d)
    PROVE  ArrayInv' /\ Stays
<1>1. CASE k = Length
  BY <1>1, SetLengthHolds DEF Define, ValuesOf
<1>2. CASE k \in Indices
  BY <1>2, KeysApart, DefineIndexHolds DEF Define, ValuesOf
<1> QED BY <1>1, <1>2, KeysApart

LEMMA AssignHolds ==
    ASSUME ArrayInv, NEW k \in Keys, NEW v \in ValuesOf(k), Assign(k, v)
    PROVE  ArrayInv' /\ Stays
<1>1. /\ Descriptor(v, TRUE, None, TRUE) \in Descriptors(ValuesOf(k))
      /\ Descriptor(v, None, None, None) \in Descriptors(ValuesOf(k))
  <2>1. TRUE \in Flags /\ None \in Flags
    BY DEF Flags
  <2>2. \A w, c \in Flags : Descriptor(v, w, None, c) \in Descriptors(ValuesOf(k))
    BY DEF Descriptors
  <2> QED BY <2>1, <2>2
<1>2. CASE Refuse \/ Store(table)
  BY <1>2, NothingMoves DEF Refuse, Store
<1>3. CASE \/ Define(k, Descriptor(v, TRUE, None, TRUE))
           \/ Define(k, Descriptor(v, None, None, None))
  BY <1>1, <1>3, DefineHolds
<1> QED BY <1>2, <1>3 DEF Assign

LEMMA DeleteHolds ==
    ASSUME ArrayInv, NEW k \in Keys, Delete(k)
    PROVE  ArrayInv' /\ Stays
<1>1. CASE Refuse
  BY <1>1, NothingMoves DEF Refuse
<1>2. CASE ~Refuse
  <2>1. /\ ~Permanent(table[k]) /\ table' = [table EXCEPT ![k] = Absent]
        /\ outcome' = "defined" /\ extensible' = extensible
    BY <1>2 DEF Delete, Store
  <2>2. k \in Indices /\ k # Length
    BY <2>1, KeysHold, KeysApart
  <2>3. /\ table'[Length] = table[Length] /\ LengthNow' = LengthNow
        /\ \A j \in Indices : table'[j] = IF j = k THEN Absent ELSE table[j]
        /\ DOMAIN table' = Keys /\ table' = [j \in Keys |-> table'[j]]
    BY <2>1, <2>2, KeysHold, KeysApart DEF LengthNow, ArrayInv, ArrayTypeOK
  <2>4. ASSUME NEW j \in Indices
        PROVE  /\ table'[j] \in Elements \cup {Absent}
               /\ table'[j] # Absent => j < LengthNow'
               /\ Permanent(table[j]) => MayBecome(table[j], table'[j])
               /\ ~extensible /\ table[j] = Absent => table'[j] = Absent
    BY <2>1, <2>3, KeysHold DEF MayBecome
  <2>5. /\ extensible' \in BOOLEAN /\ (extensible' => extensible)
        /\ table'[Length] \in Lengths /\ MayBecome(table[Length], table'[Length])
    BY <2>1, <2>3, KeysHold DEF MayBecome
  <2> QED BY <2>1, <2>3, <2>4, <2>5, KeyByKey, Zenon
<1> QED BY <1>1, <1>2

LEMMA ShutHolds ==
    ASSUME ArrayInv, NEW frozen \in BOOLEAN, Shut(frozen)
    PROVE  ArrayInv' /\ Stays
<1> DEFINE asked(k) ==
      Descriptor(None, IF frozen /\ table[k].kind = "data" THEN FALSE ELSE None,
                 None, FALSE)
<1>1. /\ extensible' = FALSE /\ outcome' = "defined"
      /\ table' = [k \in Keys |-> IF table[k] = Absent THEN Absent
                                  ELSE Apply(asked(k), table[k])]
  BY DEF Shut
<1>2. ASSUME NEW k \in Keys
      PROVE  /\ asked(k) \in Descriptors(Values) /\ asked(k) \in Descriptors(Sizes)
             /\ asked(k).value = None /\ asked(k).getter = None
             /\ asked(k).configurable = FALSE
             /\ asked(k).writable # TRUE
             /\ asked(k).writable # None => table[k].kind = "data"
  <2>1. (IF frozen /\ table[k].kind = "data" THEN FALSE ELSE None) \in Flags
    BY DEF Flags
  <2>2. asked(k) \in Descriptors(Values) /\ asked(k) \in Descriptors(Sizes)
    <3>1. FALSE \in Flags
      BY DEF Flags
    <3>2. \A values : \A w, c \in Flags :
            Descriptor(None, w, None, c) \in Descriptors(values)
      BY DEF Descriptors
    <3> QED BY <2>1, <3>1, <3>2
  <2>3. None # TRUE
    BY ArrayAssumption
  <2> QED BY <2>2, <2>3 DEF Descriptor
<1> HIDE DEF asked
<1>3. ASSUME NEW k \in Keys, table[k] # Absent, NEW e,
             table[k].kind \in {"data", "accessor"},
             table[k].kind = "data" => table[k].writable \in BOOLEAN
      PROVE  Validate(asked(k), table[k], e)
  <2>1. asked(k).configurable # TRUE /\ ~IsAccessor(asked(k))
    BY <1>2 DEF IsAccessor
  <2>2. IsData(asked(k)) => table[k].kind = "data"
    BY <1>2 DEF IsData
  <2>3. CASE table[k].kind = "accessor"
    BY <1>2, <1>3, <2>1, <2>2, <2>3 DEF Validate
  <2>4. CASE table[k].kind = "data"
    BY <1>2, <1>3, <2>1, <2>2, <2>4 DEF Validate
  <2> QED BY <1>3, <2>3, <2>4
<1>4. /\ table'[Length] \in Lengths /\ MayBecome(table[Length], table'[Length])
      /\ LengthNow' = LengthNow
  <2>1. /\ table[Length] \in Lengths /\ table[Length] # Absent /\ Length \in Keys
        /\ table[Length].kind = "data" /\ table[Length].writable \in BOOLEAN
    BY KeysHold, KeysApart, LengthIs
  <2>2. Validate(asked(Length), table[Length], extensible)
    BY <1>3, <2>1
  <2>3. table'[Length] = Apply(asked(Length), table[Length])
    BY <1>1, <2>1
  <2>4. asked(Length) \in Descriptors(Sizes) /\ asked(Length).value = None
    BY <1>2, <2>1
  <2>5. /\ Apply(asked(Length), table[Length]) \in Lengths
        /\ MayBecome(table[Length], Apply(asked(Length), table[Length]))
        /\ Apply(asked(Length), table[Length]).value = table[Length].value
    BY <2>1, <2>2, <2>4, ApplyKeepsLength
  <2> QED BY <2>3, <2>5 DEF LengthNow
<1>5. ASSUME NEW j \in Indices
      PROVE  /\ table'[j] \in Elements \cup {Absent}
             /\ table'[j] # Absent => j < LengthNow'
             /\ Permanent(table[j]) => MayBecome(table[j], table'[j])
             /\ ~extensible /\ table[j] = Absent => table'[j] = Absent
  <2>1. CASE table[j] = Absent
    BY <1>1, <2>1, KeysApart DEF Permanent
  <2>2. CASE table[j] # Absent
    <3>1. table[j] \in Elements /\ j \in Keys
      BY <2>2, KeysHold, KeysApart
    <3>2. table'[j] = Apply(asked(j), table[j])
      BY <1>1, <2>2, <3>1
    <3>3. \A e : Validate(asked(j), table[j], e)
      BY <1>3, <3>1, ElementIs
    <3>4. table'[j] \in Elements
      BY <1>2, <3>1, <3>2, ApplyMakesElement
    <3>5. Permanent(table[j]) => MayBecome(table[j], table'[j])
      BY <1>2, <3>1, <3>2, <3>3, ApplyKeeps
    <3> QED BY <1>4, <2>2, <3>4, <3>5, KeysHold
  <2> QED BY <2>1, <2>2
<1> QED BY <1>1, <1>4, <1>5, KeyByKey, Zenon

-----------------------------------------------------------------------------
LEMMA InitHolds == ArrayInit => ArrayInv
<1> SUFFICES ASSUME ArrayInit PROVE ArrayInv
  OBVIOUS
<1>1. LengthData(0, TRUE) \in Lengths
  <2>1. \A n \in Sizes, w \in BOOLEAN : LengthData(n, w) \in Lengths
    BY DEF Lengths
  <2>2. 0 \in Sizes
    BY ArrayAssumption DEF Sizes
  <2> QED BY <2>1, <2>2
<1>2. /\ table[Length] = LengthData(0, TRUE)
      /\ \A i \in Indices : table[i] = Absent
  BY KeysApart, Zenon DEF ArrayInit
<1>3. ArrayTypeOK
  BY <1>1, <1>2, KeysApart, Zenon DEF ArrayInit, ArrayTypeOK
<1>4. LengthAboveIndices
  BY <1>2 DEF LengthAboveIndices, Present
<1> QED BY <1>3, <1>4 DEF ArrayInv

LEMMA NextHolds ==
    ASSUME ArrayInv, [ArrayNext]_object
    PROVE  ArrayInv' /\ Stays
<1>1. CASE \E k \in Keys : \E d \in Descriptors(ValuesOf(k)) : Define(k, d)
  BY <1>1, DefineHolds
<1>2. CASE \E k \in Keys : \E v \in ValuesOf(k) : Assign(k, v)
  BY <1>2, AssignHolds
<1>3. CASE \E k \in Keys : Delete(k)
  BY <1>3, DeleteHolds
<1>4. CASE PreventExtensions
  <2>1. /\ table' = table /\ extensible' = FALSE /\ outcome' = "defined"
    BY <1>4 DEF PreventExtensions
  <2>2. ArrayInv'
    BY <2>1 DEF ArrayInv, ArrayTypeOK, LengthAboveIndices, Present, LengthNow
  <2>3. Stays
    BY <2>1 DEF Stays, MayBecome
  <2> QED BY <2>2, <2>3
<1>5. CASE \E frozen \in BOOLEAN : Shut(frozen)
  BY <1>5, ShutHolds
<1>6. CASE UNCHANGED object
  <2>1. table' = table /\ extensible' = extensible /\ outcome' = outcome
    BY <1>6 DEF object
  <2>2. outcome' \in {"defined", "refused"}
    BY <2>1 DEF ArrayInv, ArrayTypeOK
  <2> QED BY <2>1, <2>2, NothingMoves
<1> QED BY <1>1, <1>2, <1>3, <1>4, <1>5, <1>6 DEF ArrayNext

LEMMA AlwaysHolds == ArraySpec => []ArrayInv
<1>1. ArrayInv /\ [ArrayNext]_object => ArrayInv'
  BY NextHolds
<1> QED BY InitHolds, <1>1, PTL DEF ArraySpec

(* No index is at or past `length`, however the array was defined,         *)
(* assigned, deleted from, frozen or shortened part way (heap/array.rs).   *)
THEOREM LengthIsAbove == ArraySpec => []LengthAboveIndices
<1>1. ArrayInv => LengthAboveIndices
  BY DEF ArrayInv
<1> QED BY AlwaysHolds, <1>1, PTL

(* What section 6.1.7.3 lets a program rely on holds of every step of an   *)
(* array (heap/define.rs).                                                 *)
THEOREM PermanentDoesStay == ArraySpec => PermanentStays
<1>1. ArrayInv /\ [ArrayNext]_object => [Stays]_object
  BY NextHolds
<1> QED BY AlwaysHolds, <1>1, PTL DEF ArraySpec, PermanentStays

-----------------------------------------------------------------------------
(* Induction over the naturals, for a set: the least number outside it     *)
(* cannot be 0 and cannot follow one inside.                               *)

LEMMA Least ==
    ASSUME NEW T \in SUBSET Nat, T # {}
    PROVE  \E n \in T : \A m \in T : n <= m
<1> DEFINE R == OpToRel(<, Nat)
<1>1. IsWellFoundedOn(R, Nat)
  BY NatLessThanWellFounded, Zenon
<1>2. \A x, y \in Nat : <<y, x>> \in R <=> y < x
  BY DEF OpToRel
<1> HIDE DEF R
<1>3. PICK n \in T : \A m \in T : ~(<<m, n>> \in R)
  BY <1>1, WFMin
<1>4. \A m \in T : m \in Nat /\ n \in Nat /\ ~(m < n)
  <2> TAKE m \in T
  <2>1. m \in Nat /\ n \in Nat
    OBVIOUS
  <2> QED BY <1>2, <1>3, <2>1
<1> QED BY <1>3, <1>4

LEMMA Induction ==
    ASSUME NEW C, 0 \in C, \A n \in Nat : n \in C => n + 1 \in C
    PROVE  \A n \in Nat : n \in C
<1> SUFFICES ASSUME Nat \ C # {} PROVE FALSE
  OBVIOUS
<1>1. PICK n \in Nat \ C : \A m \in Nat \ C : n <= m
  BY Least
<1>2. n # 0 /\ n - 1 \in Nat /\ ~(n <= n - 1) /\ (n - 1) + 1 = n
  BY <1>1
<1>3. n - 1 \in C
  BY <1>1, <1>2
<1> QED BY <1>1, <1>2, <1>3

(* What holds of the first and of what follows one it holds of holds of    *)
(* all of them.                                                            *)
LEMMA OneByOne ==
    ASSUME NEW number \in Nat, NEW f, NEW D, f[0] \in D,
           \A n \in 1..number : f[n - 1] \in D => f[n] \in D
    PROVE  \A n \in 0..number : f[n] \in D
<1> DEFINE C == {n \in Nat : n \in 0..number => f[n] \in D}
<1>1. 0 \in C
  OBVIOUS
<1>2. \A n \in Nat : n \in C => n + 1 \in C
  <2> SUFFICES ASSUME NEW n \in Nat, n \in C, n + 1 \in 0..number
               PROVE  f[n + 1] \in D
    OBVIOUS
  <2>1. n \in 0..number /\ n + 1 \in 1..number /\ (n + 1) - 1 = n
    OBVIOUS
  <2> QED BY <2>1
<1>3. \A n \in Nat : n \in C
  BY <1>1, <1>2, Induction
<1> QED BY <1>3

-----------------------------------------------------------------------------
(* Proxies.  Whatever a chain of them answers about the key is faithful:   *)
(* permanent exactly if the array's own property is, then of its kind and  *)
(* the same unless it may be written, and missing exactly if the key is    *)
(* missing, once the array takes no more.                                  *)

Own == table[watched]
PropertiesOf(k) == IF k = Length THEN Lengths ELSE Elements \cup {Absent}

Faithful(p) ==
    /\ p \in PropertiesOf(watched)
    /\ Permanent(p) <=> Permanent(Own)
    /\ Permanent(Own) =>
          /\ p.kind = Own.kind
          /\ p = Own \/ (p.kind = "data" /\ p.writable /\ Own.writable)
    /\ ~extensible => (p = Absent <=> Own = Absent)

(* What has been promised is what the array still holds to.                *)
PromiseInv ==
    /\ watched \in Keys /\ promised \in Promises /\ kept = TRUE
    /\ promised.closed => ~extensible
    /\ promised.own = Absent => ~extensible /\ Own = Absent
    /\ promised.own \notin {None, Absent} =>
          /\ promised.own \in PropertiesOf(watched) /\ ~promised.own.configurable
          /\ Permanent(Own) /\ MayBecome(promised.own, Own)

ProxyInv == ArrayInv /\ PromiseInv

LEMMA PropertyIs ==
    ASSUME NEW k \in Keys, NEW p \in PropertiesOf(k), p # Absent
    PROVE  /\ p.configurable \in BOOLEAN
           /\ p.kind \in {"data", "accessor"}
           /\ p.kind = "data" =>
                 /\ p.value \in ValuesOf(k) /\ p.writable \in BOOLEAN
                 /\ p = Data(p.value, p.writable, p.configurable)
           /\ p.kind = "accessor" =>
                 /\ k # Length /\ p.getter \in Functions
                 /\ p = Accessor(p.getter, p.configurable)
           /\ k = Length => p.kind = "data" /\ p.configurable = FALSE
           /\ p # None
<1>1. p # None
  BY ProxyAssumption DEF PropertiesOf
<1>2. CASE k = Length
  BY <1>1, <1>2, LengthIs DEF PropertiesOf, ValuesOf
<1>3. CASE k # Length
  BY <1>1, <1>3, ElementIs DEF PropertiesOf, ValuesOf
<1> QED BY <1>2, <1>3

LEMMA OwnIs ==
    ASSUME ArrayInv, watched \in Keys
    PROVE  Own \in PropertiesOf(watched) /\ Faithful(Own)
<1>1. Own \in PropertiesOf(watched)
  BY KeysHold, KeysApart DEF Own, PropertiesOf
<1> QED BY <1>1 DEF Faithful

(* A descriptor that leaves nothing out.                                   *)
LEMMA DescribedIs ==
    ASSUME MayOmit = FALSE, NEW d \in Described
    PROVE  /\ d.configurable \in BOOLEAN
           /\ d.getter \in Functions \cup {None}
           /\ IsAccessor(d) => ~IsData(d)
           /\ ~IsAccessor(d) => d.value \in ValuesOf(watched) /\ d.writable \in BOOLEAN
<1>1. None \notin ValuesOf(watched)
  BY ArrayAssumption DEF ValuesOf
<1>2. /\ d \in Descriptors(ValuesOf(watched)) /\ d.configurable # None
      /\ IsAccessor(d) \/ (d.value # None /\ d.writable # None)
  BY DEF Described
<1> QED BY <1>1, <1>2, DescriptorIs

LEMMA CompleteIs ==
    ASSUME MayOmit = FALSE, NEW d \in Described
    PROVE  /\ Complete(d) = IF IsAccessor(d) THEN Accessor(d.getter, d.configurable)
                            ELSE Data(d.value, d.writable, d.configurable)
           /\ Complete(d).configurable = d.configurable
           /\ Complete(d).kind = IF IsAccessor(d) THEN "accessor" ELSE "data"
           /\ ~IsAccessor(d) => Complete(d).writable = d.writable
<1>1. d.configurable # None /\ (~IsAccessor(d) => d.value # None /\ d.writable # None)
  BY DescribedIs, ArrayAssumption DEF ValuesOf
<1>2. Complete(d) = IF IsAccessor(d) THEN Accessor(d.getter, d.configurable)
                    ELSE Data(d.value, d.writable, d.configurable)
  BY <1>1 DEF Complete, Field
<1> QED BY <1>2 DEF Accessor, Data

(* One proxy: what it may answer where its target answers faithfully.      *)
LEMMA DescribingIsFaithful ==
    ASSUME ArrayInv, watched \in Keys, MayOmit = FALSE,
           NEW held, Faithful(held), NEW d \in Described, MayDescribe(d, held)
    PROVE  Faithful(Complete(d))
<1> DEFINE p == Complete(d)
<1>1. /\ d.configurable \in BOOLEAN /\ d.getter \in Functions \cup {None}
      /\ IsAccessor(d) => ~IsData(d)
      /\ ~IsAccessor(d) => d.value \in ValuesOf(watched) /\ d.writable \in BOOLEAN
  BY DescribedIs
<1>2. /\ p = IF IsAccessor(d) THEN Accessor(d.getter, d.configurable)
             ELSE Data(d.value, d.writable, d.configurable)
      /\ p.configurable = d.configurable
      /\ p.kind = IF IsAccessor(d) THEN "accessor" ELSE "data"
      /\ ~IsAccessor(d) => p.writable = d.writable
  BY CompleteIs
<1> HIDE DEF p
<1>3. /\ Validate(d, held, extensible)
      /\ d.configurable # TRUE =>
           Permanent(held) /\ ~(d.writable = FALSE /\ IsWritable(held))
  BY DEF MayDescribe
<1>4. held = Absent => extensible
  BY <1>3 DEF Validate
<1>5. held \in PropertiesOf(watched)
  BY DEF Faithful
<1>6. IsData(d) <=> ~IsAccessor(d)
  <2>1. ~IsAccessor(d) => d.writable # None
    BY <1>1, ArrayAssumption
  <2> QED BY <2>1, <1>1 DEF IsData
<1>7. Permanent(held) =>
        /\ held # Absent /\ held.configurable = FALSE /\ d.configurable = FALSE
        /\ p.kind = held.kind
        /\ p = held \/ (p.kind = "data" /\ p.writable /\ held.writable)
  <2> SUFFICES ASSUME Permanent(held)
               PROVE  /\ held # Absent /\ held.configurable = FALSE
                      /\ d.configurable = FALSE /\ p.kind = held.kind
                      /\ p = held \/ (p.kind = "data" /\ p.writable /\ held.writable)
    OBVIOUS
  <2>1. /\ held # Absent /\ held.configurable = FALSE
        /\ held.kind \in {"data", "accessor"}
        /\ held.kind = "data" => /\ held.writable \in BOOLEAN
                                 /\ held = Data(held.value, held.writable, FALSE)
        /\ held.kind = "accessor" => held = Accessor(held.getter, FALSE)
    BY <1>5, PropertyIs DEF Permanent
  <2>2. /\ d.configurable # TRUE
        /\ IsAccessor(d) => held.kind = "accessor"
        /\ IsData(d) => held.kind = "data"
        /\ \/ held.kind = "accessor" /\ d.getter \in {None, held.getter}
           \/ held.kind = "data" /\ held.writable
           \/ /\ held.kind = "data" /\ ~held.writable
              /\ d.writable # TRUE
              /\ d.value \in {None, held.value}
    BY <1>3, <2>1 DEF Validate
  <2>3. d.configurable = FALSE /\ ~(d.writable = FALSE /\ IsWritable(held))
    BY <1>1, <1>3, <2>2
  <2>4. CASE IsAccessor(d)
    <3>1. held.kind = "accessor" /\ d.getter = held.getter
      BY <2>2, <2>4 DEF IsAccessor
    <3> QED BY <1>2, <2>1, <2>3, <2>4, <3>1
  <2>5. CASE ~IsAccessor(d)
    <3>1. held.kind = "data" /\ p = Data(d.value, d.writable, FALSE) /\ p.kind = "data"
          /\ p.writable = d.writable
      BY <1>2, <1>6, <2>2, <2>3, <2>5
    <3>2. CASE held.writable
      <4>1. d.writable = TRUE
        BY <1>1, <2>3, <2>5, <3>1, <3>2 DEF IsWritable
      <4> QED BY <2>1, <2>3, <3>1, <3>2, <4>1
    <3>3. CASE ~held.writable
      <4>1. d.writable = FALSE /\ d.value = held.value /\ held.writable = FALSE
        <5>1. d.value # None
          BY <1>1, <2>5, ArrayAssumption DEF ValuesOf
        <5> QED BY <1>1, <2>1, <2>2, <2>5, <3>1, <3>3, <5>1
      <4> QED BY <2>1, <2>3, <3>1, <4>1
    <3> QED BY <3>2, <3>3
  <2> QED BY <2>4, <2>5
<1>8. p # Absent /\ p \in PropertiesOf(watched)
  <2>1. CASE watched = Length
    <3>1. Permanent(held)
      BY <1>5, <2>1, LengthIs DEF PropertiesOf, Permanent
    <3>2. held.kind = "data" /\ d.configurable = FALSE
      BY <1>5, <1>7, <2>1, <3>1, LengthIs DEF PropertiesOf
    <3>3. ~IsAccessor(d)
      BY <1>2, <1>7, <3>1, <3>2
    <3>4. p = LengthData(d.value, d.writable) /\ d.value \in Sizes /\ d.writable \in BOOLEAN
      BY <1>1, <1>2, <2>1, <3>2, <3>3 DEF LengthData, ValuesOf
    <3>5. p \in Lengths
      BY <3>4 DEF Lengths
    <3> QED BY <2>1, <3>5, LengthIs DEF PropertiesOf
  <2>2. CASE watched # Length
    <3>1. CASE IsAccessor(d)
      <4>1. d.getter \in Functions /\ p = Accessor(d.getter, d.configurable)
        BY <1>1, <1>2, <3>1 DEF IsAccessor
      <4>2. p \in Elements
        BY <1>1, <4>1 DEF Elements
      <4> QED BY <2>2, <4>2, ElementIs DEF PropertiesOf
    <3>2. CASE ~IsAccessor(d)
      <4>1. d.value \in Values /\ d.writable \in BOOLEAN
            /\ p = Data(d.value, d.writable, d.configurable)
        BY <1>1, <1>2, <2>2, <3>2 DEF ValuesOf
      <4>2. p \in Elements
        BY <1>1, <4>1 DEF Elements
      <4> QED BY <2>2, <4>2, ElementIs DEF PropertiesOf
    <3> QED BY <3>1, <3>2
  <2> QED BY <2>1, <2>2
<1>9. Permanent(p) <=> Permanent(held)
  <2>1. Permanent(p) <=> d.configurable = FALSE
    BY <1>1, <1>2, <1>8 DEF Permanent
  <2> QED BY <2>1, <1>3, <1>7
<1>10. Permanent(Own) =>
          /\ p.kind = Own.kind
          /\ p = Own \/ (p.kind = "data" /\ p.writable /\ Own.writable)
  <2> SUFFICES ASSUME Permanent(Own)
               PROVE  /\ p.kind = Own.kind
                      /\ p = Own \/ (p.kind = "data" /\ p.writable /\ Own.writable)
    OBVIOUS
  <2>1. /\ Permanent(held) /\ held.kind = Own.kind
        /\ held = Own \/ (held.kind = "data" /\ held.writable /\ Own.writable)
    BY DEF Faithful
  <2> QED BY <2>1, <1>7
<1>11. ~extensible => (p = Absent <=> Own = Absent)
  <2>1. ~extensible => held # Absent /\ (held = Absent <=> Own = Absent)
    BY <1>4 DEF Faithful
  <2> QED BY <2>1, <1>8
<1> QED BY <1>8, <1>9, <1>10, <1>11 DEF Faithful, p

LEMMA LosingIsFaithful ==
    ASSUME NEW held, Faithful(held), MayLose(held), watched \in Keys
    PROVE  /\ ~Permanent(Own) /\ (~extensible => Own = Absent)
           /\ held # Absent => extensible /\ watched # Length
<1>1. /\ held \in PropertiesOf(watched) /\ (Permanent(held) <=> Permanent(Own))
      /\ ~extensible => (held = Absent <=> Own = Absent)
      /\ held # Absent => held.configurable /\ extensible
  BY DEF Faithful, MayLose
<1>2. ~Permanent(held)
  BY <1>1 DEF Permanent
<1>3. held # Absent => watched # Length
  BY <1>1, LengthIs DEF PropertiesOf
<1> QED BY <1>1, <1>2, <1>3

LEMMA AbsenceIsFaithful ==
    ASSUME ArrayInv, watched \in Keys, NEW held, Faithful(held), MayLose(held)
    PROVE  Faithful(Absent)
<1>1. ~Permanent(Own) /\ (~extensible => Own = Absent)
  BY LosingIsFaithful
<1>2. ~Permanent(Absent)
  BY DEF Permanent
<1>3. watched # Length
  <2>1. held # Absent => watched # Length
    BY LosingIsFaithful
  <2>2. watched = Length => held # Absent
    BY LengthIs DEF Faithful, PropertiesOf
  <2> QED BY <2>1, <2>2
<1>4. Absent \in PropertiesOf(watched)
  BY <1>3 DEF PropertiesOf
<1> QED BY <1>1, <1>2, <1>4 DEF Faithful

-----------------------------------------------------------------------------
(* The answers of a chain, level by level.                                 *)

Recurs(f, number, base, step) ==
    f = [n \in 0..number |-> IF n = 0 THEN base ELSE step[n][f[n - 1]]]

LEMMA RecursionExists ==
    ASSUME NEW number \in Nat, NEW base, NEW step
    PROVE  \E f : Recurs(f, number, base, step)
<1> DEFINE Is(f, m) == f = [n \in 0..m |-> IF n = 0 THEN base ELSE step[n][f[n - 1]]]
           C == {m \in Nat : \E f : Is(f, m)}
<1>1. 0 \in C
  <2>1. Is([n \in 0..0 |-> base], 0)
    OBVIOUS
  <2> QED BY <2>1
<1>2. ASSUME NEW m \in Nat, m \in C
      PROVE  m + 1 \in C
  <2>1. PICK f : Is(f, m)
    BY <1>2
  <2> DEFINE g == [n \in 0..(m + 1) |-> IF n = 0 THEN base ELSE step[n][f[n - 1]]]
  <2>2. \A n \in 0..m : f[n] = IF n = 0 THEN base ELSE step[n][f[n - 1]]
    BY <2>1
  <2>3. \A n \in 0..m : g[n] = f[n]
    BY <2>2
  <2>4. \A n \in 0..(m + 1) : n # 0 => n - 1 \in 0..m
    OBVIOUS
  <2>5. \A n \in 0..(m + 1) : n # 0 => step[n][g[n - 1]] = step[n][f[n - 1]]
    BY <2>3, <2>4
  <2>6. Is(g, m + 1)
    BY <2>5
  <2> HIDE DEF g, Is
  <2>7. m + 1 \in Nat /\ \E h : Is(h, m + 1)
    BY <2>6
  <2> QED BY <2>7
<1> HIDE DEF C
<1>3. \A m \in Nat : m \in C
  BY <1>1, <1>2, Induction
<1> QED BY <1>3 DEF C, Recurs

(* What one proxy may answer where its target answers one of `targets`.    *)
OwnFrom(targets) ==
    targets
    \cup {Complete(d) : d \in {e \in Described : \E held \in targets : MayDescribe(e, held)}}
    \cup {p \in {Absent} : \E held \in targets : MayLose(held)}
OwnEnds(f) ==
    f = [n \in 0..Depth |-> IF n = 0 THEN {table[watched]} ELSE OwnFrom(f[n - 1])]

LEMMA OwnAtIs == OwnEnds(OwnAt)
<1> DEFINE first == {table[watched]}
           D == SUBSET ({table[watched], Absent} \cup {Complete(d) : d \in Described})
           step == [n \in 1..Depth |-> [targets \in D |-> OwnFrom(targets)]]
<1>1. Depth \in Nat
  BY ProxyAssumption
<1>2. \A targets \in D : OwnFrom(targets) \in D
  BY DEF OwnFrom
<1>3. first \in D
  OBVIOUS
<1>4. \A n \in 1..Depth : \A targets \in D :
         step[n][targets] = OwnFrom(targets) /\ step[n][targets] \in D
  BY <1>2, Zenon
<1> HIDE DEF D, step, first
<1>5. PICK f : Recurs(f, Depth, first, step)
  BY <1>1, RecursionExists
<1>6. \A n \in 0..Depth : f[n] \in D
  <2>1. \A n \in 0..Depth :
           f[n] = IF n = 0 THEN first ELSE step[n][f[n - 1]]
    BY <1>5 DEF Recurs
  <2>2. f[0] \in D
    <3>1. 0 \in 0..Depth
      BY <1>1
    <3> QED BY <1>3, <2>1, <3>1
  <2>3. \A n \in 1..Depth : f[n - 1] \in D => f[n] \in D
    BY <1>4, <2>1
  <2> QED BY <1>1, <2>2, <2>3, OneByOne
<1>7. OwnEnds(f)
  <2>1. \A n \in 0..Depth : n # 0 => step[n][f[n - 1]] = OwnFrom(f[n - 1])
    <3> TAKE n \in 0..Depth
    <3>1. n # 0 => n \in 1..Depth /\ n - 1 \in 0..Depth
      BY <1>1
    <3> QED BY <1>4, <1>6, <3>1
  <2> QED BY <1>5, <2>1 DEF OwnEnds, first, Recurs
<1>8. OwnAt = CHOOSE g : OwnEnds(g)
  BY DEF OwnAt, OwnEnds, OwnFrom
<1> QED BY <1>7, <1>8

LEMMA OwnIsFaithful ==
    ASSUME ArrayInv, watched \in Keys, MayOmit = FALSE
    PROVE  \A n \in 0..Depth : \A p \in OwnAt[n] : Faithful(p)
<1> DEFINE D == {X \in SUBSET (PropertiesOf(watched)) : \A p \in X : Faithful(p)}
<1>1. \A n \in 0..Depth : OwnAt[n] = IF n = 0 THEN {table[watched]} ELSE OwnFrom(OwnAt[n - 1])
  BY OwnAtIs DEF OwnEnds
<1>2. Depth \in Nat
  BY ProxyAssumption
<1>3. OwnAt[0] \in D
  BY <1>1, <1>2, OwnIs DEF Own
<1>4. ASSUME NEW X \in D
      PROVE  OwnFrom(X) \in D
  <2>1. \A p \in OwnFrom(X) : Faithful(p)
    BY DescribingIsFaithful, AbsenceIsFaithful DEF OwnFrom
  <2> QED BY <2>1 DEF Faithful
<1>5. \A n \in 1..Depth : OwnAt[n - 1] \in D => OwnAt[n] \in D
  <2> TAKE n \in 1..Depth
  <2>1. OwnAt[n] = OwnFrom(OwnAt[n - 1])
    BY <1>1
  <2> QED BY <1>4, <2>1
<1> HIDE DEF D
<1>6. \A n \in 0..Depth : OwnAt[n] \in D
  BY <1>2, <1>3, <1>5, OneByOne
<1> QED BY <1>6 DEF D

(* What a read of the key may answer.                                      *)
ReadFirst ==
    IF table[watched] = Absent THEN {Undefined}
    ELSE IF table[watched].kind = "data" THEN {table[watched].value}
    ELSE IF table[watched].getter = Undefined THEN {Undefined} ELSE ValuesOf(watched)
ReadFrom(values, targets) ==
    values \cup {v \in ValuesOf(watched) : \E h \in targets : MayRead(v, h)}
ReadEnds(f) ==
    f = [n \in 0..Depth |->
           IF n = 0 THEN ReadFirst ELSE ReadFrom(f[n - 1], OwnAt[n - 1])]

LEMMA ReadAtIs == ReadEnds(ReadAt)
<1> DEFINE D == SUBSET (ReadFirst \cup ValuesOf(watched))
           step == [n \in 1..Depth |-> [values \in D |-> ReadFrom(values, OwnAt[n - 1])]]
<1>1. Depth \in Nat
  BY ProxyAssumption
<1>2. \A values \in D : \A targets : ReadFrom(values, targets) \in D
  BY DEF ReadFrom
<1>3. ReadFirst \in D
  OBVIOUS
<1>4. \A n \in 1..Depth : \A values \in D :
         /\ step[n][values] = ReadFrom(values, OwnAt[n - 1])
         /\ step[n][values] \in D
  BY <1>2
<1> HIDE DEF D, step
<1>5. PICK f : Recurs(f, Depth, ReadFirst, step)
  BY <1>1, RecursionExists
<1>6. \A n \in 0..Depth : f[n] \in D
  <2>1. \A n \in 0..Depth :
           f[n] = IF n = 0 THEN ReadFirst ELSE step[n][f[n - 1]]
    BY <1>5 DEF Recurs
  <2>2. f[0] \in D
    <3>1. 0 \in 0..Depth
      BY <1>1
    <3> QED BY <1>3, <2>1, <3>1
  <2>3. \A n \in 1..Depth : f[n - 1] \in D => f[n] \in D
    BY <1>4, <2>1
  <2> QED BY <1>1, <2>2, <2>3, OneByOne
<1>7. ReadEnds(f)
  <2>1. \A n \in 0..Depth : n # 0 => step[n][f[n - 1]] = ReadFrom(f[n - 1], OwnAt[n - 1])
    <3> TAKE n \in 0..Depth
    <3>1. n # 0 => n \in 1..Depth /\ n - 1 \in 0..Depth
      BY <1>1
    <3> QED BY <1>4, <1>6, <3>1
  <2> QED BY <1>5, <2>1 DEF ReadEnds, Recurs
<1>8. ReadAt = CHOOSE g : ReadEnds(g)
  BY DEF ReadAt, ReadEnds, ReadFirst, ReadFrom
<1> QED BY <1>7, <1>8

(* A fixed property is read as what it is, through however many proxies.   *)
LEMMA ReadIsFaithful ==
    ASSUME ArrayInv, watched \in Keys, MayOmit = FALSE
    PROVE  \A n \in 0..Depth : \A v \in ReadAt[n] : MayRead(v, Own)
<1> DEFINE D == {X \in SUBSET (ReadFirst \cup ValuesOf(watched)) :
                    \A v \in X : MayRead(v, Own)}
<1>1. \A n \in 0..Depth :
         ReadAt[n] = IF n = 0 THEN ReadFirst ELSE ReadFrom(ReadAt[n - 1], OwnAt[n - 1])
  BY ReadAtIs DEF ReadEnds
<1>2. Depth \in Nat /\ 0 \in 0..Depth
  BY ProxyAssumption
<1>3. \A v \in ReadFirst : MayRead(v, Own)
  <2>1. Own # Absent => Own.kind \in {"data", "accessor"}
    BY OwnIs, PropertyIs
  <2> QED BY <2>1 DEF ReadFirst, MayRead, Own, Permanent
<1>4. ReadAt[0] \in D
  BY <1>1, <1>2, <1>3
<1>5. ASSUME NEW held, Faithful(held), NEW v, MayRead(v, held)
      PROVE  MayRead(v, Own)
  <2> SUFFICES ASSUME Permanent(Own)
               PROVE  /\ Own.kind = "data" /\ ~Own.writable => v = Own.value
                      /\ Own.kind = "accessor" /\ Own.getter = Undefined => v = Undefined
    BY DEF MayRead
  <2>1. /\ held.kind = Own.kind /\ Permanent(held)
        /\ held = Own \/ (held.kind = "data" /\ held.writable /\ Own.writable)
    BY <1>5 DEF Faithful
  <2> QED BY <1>5, <2>1 DEF MayRead
<1>6. \A n \in 1..Depth : ReadAt[n - 1] \in D => ReadAt[n] \in D
  <2> SUFFICES ASSUME NEW n \in 1..Depth, ReadAt[n - 1] \in D
               PROVE  ReadAt[n] \in D
    OBVIOUS
  <2>1. ReadAt[n] = ReadFrom(ReadAt[n - 1], OwnAt[n - 1])
    BY <1>1
  <2>2. \A h \in OwnAt[n - 1] : Faithful(h)
    <3>1. n - 1 \in 0..Depth
      BY <1>2
    <3> QED BY <3>1, OwnIsFaithful
  <2> QED BY <1>5, <2>1, <2>2 DEF ReadFrom
<1> HIDE DEF D
<1>7. \A n \in 0..Depth : ReadAt[n] \in D
  BY <1>2, <1>4, <1>6, OneByOne
<1> QED BY <1>7 DEF D

(* Whether the key is listed.                                              *)
ListFirst == {table[watched] # Absent}
ListFrom(answers, targets) ==
    answers \cup {there \in BOOLEAN : \E has \in answers, held \in targets :
                                          MayList(there, has, held)}
ListEnds(f) ==
    f = [n \in 0..Depth |->
           IF n = 0 THEN ListFirst ELSE ListFrom(f[n - 1], OwnAt[n - 1])]

LEMMA ListedAtIs == ListEnds(ListedAt)
<1> DEFINE D == SUBSET (ListFirst \cup BOOLEAN)
           step == [n \in 1..Depth |-> [answers \in D |-> ListFrom(answers, OwnAt[n - 1])]]
<1>1. Depth \in Nat
  BY ProxyAssumption
<1>2. \A answers \in D : \A targets : ListFrom(answers, targets) \in D
  BY DEF ListFrom
<1>3. ListFirst \in D
  OBVIOUS
<1>4. \A n \in 1..Depth : \A answers \in D :
         /\ step[n][answers] = ListFrom(answers, OwnAt[n - 1])
         /\ step[n][answers] \in D
  BY <1>2
<1> HIDE DEF D, step
<1>5. PICK f : Recurs(f, Depth, ListFirst, step)
  BY <1>1, RecursionExists
<1>6. \A n \in 0..Depth : f[n] \in D
  <2>1. \A n \in 0..Depth :
           f[n] = IF n = 0 THEN ListFirst ELSE step[n][f[n - 1]]
    BY <1>5 DEF Recurs
  <2>2. f[0] \in D
    <3>1. 0 \in 0..Depth
      BY <1>1
    <3> QED BY <1>3, <2>1, <3>1
  <2>3. \A n \in 1..Depth : f[n - 1] \in D => f[n] \in D
    BY <1>4, <2>1
  <2> QED BY <1>1, <2>2, <2>3, OneByOne
<1>7. ListEnds(f)
  <2>1. \A n \in 0..Depth : n # 0 => step[n][f[n - 1]] = ListFrom(f[n - 1], OwnAt[n - 1])
    <3> TAKE n \in 0..Depth
    <3>1. n # 0 => n \in 1..Depth /\ n - 1 \in 0..Depth
      BY <1>1
    <3> QED BY <1>4, <1>6, <3>1
  <2> QED BY <1>5, <2>1 DEF ListEnds, Recurs
<1>8. ListedAt = CHOOSE g : ListEnds(g)
  BY DEF ListedAt, ListEnds, ListFirst, ListFrom
<1> QED BY <1>7, <1>8

ListedRight(there) ==
    /\ there \in BOOLEAN
    /\ Permanent(Own) => there
    /\ ~extensible => (there <=> Own # Absent)

LEMMA ListIsFaithful ==
    ASSUME ArrayInv, watched \in Keys, MayOmit = FALSE
    PROVE  \A n \in 0..Depth : \A there \in ListedAt[n] : ListedRight(there)
<1> DEFINE D == {X \in SUBSET BOOLEAN : \A there \in X : ListedRight(there)}
<1>1. \A n \in 0..Depth :
         ListedAt[n] = IF n = 0 THEN ListFirst ELSE ListFrom(ListedAt[n - 1], OwnAt[n - 1])
  BY ListedAtIs DEF ListEnds
<1>2. Depth \in Nat /\ 0 \in 0..Depth
  BY ProxyAssumption
<1>3. \A there \in ListFirst : ListedRight(there)
  <2>1. ListedRight(Own # Absent)
    BY DEF ListedRight, Permanent
  <2> QED BY <2>1 DEF ListFirst, Own
<1>4. ListedAt[0] \in D
  <2>1. ListedAt[0] = ListFirst
    BY <1>1, <1>2
  <2> QED BY <1>3, <2>1 DEF ListedRight
<1>5. ASSUME NEW held, Faithful(held), NEW has, ListedRight(has),
             NEW there \in BOOLEAN, MayList(there, has, held)
      PROVE  ListedRight(there)
  <2>1. /\ Permanent(held) <=> Permanent(Own)
        /\ Permanent(Own) => has
        /\ ~extensible => (has <=> Own # Absent)
        /\ has /\ (Permanent(held) \/ ~extensible) => there
        /\ there /\ ~has => extensible
    BY <1>5 DEF Faithful, ListedRight, MayList
  <2> QED BY <2>1 DEF ListedRight
<1>6. \A n \in 1..Depth : ListedAt[n - 1] \in D => ListedAt[n] \in D
  <2> SUFFICES ASSUME NEW n \in 1..Depth, ListedAt[n - 1] \in D
               PROVE  ListedAt[n] \in D
    OBVIOUS
  <2>1. ListedAt[n] = ListFrom(ListedAt[n - 1], OwnAt[n - 1])
    BY <1>1
  <2>2. \A h \in OwnAt[n - 1] : Faithful(h)
    <3>1. n - 1 \in 0..Depth
      BY <1>2
    <3> QED BY <3>1, OwnIsFaithful
  <2> QED BY <1>5, <2>1, <2>2 DEF ListFrom
<1> HIDE DEF D
<1>7. \A n \in 0..Depth : ListedAt[n] \in D
  BY <1>2, <1>4, <1>6, OneByOne
<1> QED BY <1>7 DEF D
-----------------------------------------------------------------------------
(* What a program learns of an answer keeps the invariant where the answer *)
(* agrees with the array.                                                  *)

Agrees(own) ==
    \/ own = Absent /\ ~extensible /\ Own = Absent
    \/ /\ own \in PropertiesOf(watched) /\ Permanent(own)
       /\ Permanent(Own) /\ MayBecome(own, Own)

PromisedData == {LengthData(v, w) : v \in ValuesOf(watched), w \in BOOLEAN}
PromisedAccessors == {Accessor(g, FALSE) : g \in Functions}
PromisedOwns == {None, Absent} \cup PromisedData \cup PromisedAccessors

LEMMA PromisedDataIs ==
    ASSUME NEW v \in ValuesOf(watched), NEW w \in BOOLEAN
    PROVE  Data(v, w, FALSE) \in PromisedData
<1>1. LengthData(v, w) \in PromisedData
  BY DEF PromisedData
<1> QED BY <1>1, Zenon DEF LengthData

LEMMA PromisedAccessorIs ==
    ASSUME NEW g \in Functions
    PROVE  Accessor(g, FALSE) \in PromisedAccessors
<1> QED BY Zenon DEF PromisedAccessors

LEMMA PromisesAre ==
    ASSUME NEW closed \in BOOLEAN, NEW own \in PromisedOwns
    PROVE  [closed |-> closed, own |-> own] \in Promises
<1>1. Promises = [closed : BOOLEAN, own : PromisedOwns]
  BY DEF Promises, PromisedOwns, PromisedData, PromisedAccessors, LengthData
<1> QED BY <1>1

LEMMA AgreeingIsPromised ==
    ASSUME watched \in Keys, NEW own, Agrees(own), NEW closed \in BOOLEAN
    PROVE  /\ [closed |-> closed, own |-> own] \in Promises
           /\ own # None /\ (own = Absent \/ ~own.configurable)
<1>1. CASE own = Absent
  <2>1. own \in PromisedOwns
    BY <1>1 DEF PromisedOwns
  <2> QED BY <1>1, <2>1, ProxyAssumption, PromisesAre
<1>2. CASE own # Absent
  <2>1. own \in PropertiesOf(watched) /\ ~own.configurable
    BY <1>2 DEF Agrees, Permanent
  <2>2. /\ own.configurable = FALSE /\ own # None
        /\ own.kind \in {"data", "accessor"}
        /\ own.kind = "data" =>
              /\ own.value \in ValuesOf(watched) /\ own.writable \in BOOLEAN
              /\ own = Data(own.value, own.writable, FALSE)
        /\ own.kind = "accessor" =>
              own.getter \in Functions /\ own = Accessor(own.getter, FALSE)
    BY <1>2, <2>1, PropertyIs
  <2>3. own \in PromisedData \/ own \in PromisedAccessors
    <3>1. CASE own.kind = "data"
      <4>1. /\ own.value \in ValuesOf(watched) /\ own.writable \in BOOLEAN
            /\ own = Data(own.value, own.writable, FALSE)
        BY <2>2, <3>1
      <4>2. Data(own.value, own.writable, FALSE) \in PromisedData
        BY <4>1, PromisedDataIs
      <4> QED BY ONLY <4>1, <4>2
    <3>2. CASE own.kind = "accessor"
      <4>1. own.getter \in Functions /\ own = Accessor(own.getter, FALSE)
        BY <2>2, <3>2
      <4>2. Accessor(own.getter, FALSE) \in PromisedAccessors
        BY <4>1, PromisedAccessorIs
      <4> QED BY ONLY <4>1, <4>2
    <3>3. own.kind = "data" \/ own.kind = "accessor"
      BY ONLY <2>2
    <3> QED BY ONLY <3>1, <3>2, <3>3
  <2>4. own \in PromisedOwns
    BY ONLY <2>3 DEF PromisedOwns
  <2>5. [closed |-> closed, own |-> own] \in Promises
    BY <2>4, PromisesAre
  <2> QED BY <2>1, <2>2, <2>5
<1> QED BY <1>1, <1>2

LEMMA PromisedIsEither ==
    ASSUME ProxyInv
    PROVE  /\ watched \in Keys /\ kept = TRUE /\ promised.closed \in BOOLEAN
           /\ promised = [closed |-> promised.closed, own |-> promised.own]
           /\ promised.closed => ~extensible
           /\ promised.own = None \/ Agrees(promised.own)
<1>1. PromiseInv
  BY DEF ProxyInv
<1>2. promised.own \notin {None, Absent} => Agrees(promised.own)
  BY <1>1 DEF PromiseInv, Agrees, Permanent
<1>3. promised.own = Absent => Agrees(promised.own)
  BY <1>1 DEF PromiseInv, Agrees
<1> QED BY <1>1, <1>2, <1>3 DEF PromiseInv, Promises

(* The invariant again, of a promise that agrees.                          *)
Learnt(closed, own) ==
    /\ watched \in Keys /\ kept = TRUE /\ closed \in BOOLEAN
    /\ promised = [closed |-> closed, own |-> own]
    /\ closed => ~extensible
    /\ own = None \/ Agrees(own)

LEMMA LearntIsInv ==
    ASSUME NEW closed, NEW own, Learnt(closed, own)
    PROVE  PromiseInv
<1> USE DEF Learnt
<1>1. promised.closed = closed /\ promised.own = own
  OBVIOUS
<1>2. CASE own = None
  <2>1. promised \in Promises
    <3>1. own \in PromisedOwns
      BY <1>2 DEF PromisedOwns
    <3> QED BY <3>1, PromisesAre
  <2> QED BY <1>1, <1>2, <2>1, ProxyAssumption DEF PromiseInv
<1>3. CASE Agrees(own)
  <2>1. promised \in Promises /\ own # None /\ (own = Absent \/ ~own.configurable)
    BY <1>3, AgreeingIsPromised
  <2>2. own # Absent =>
          /\ own \in PropertiesOf(watched) /\ ~own.configurable
          /\ Permanent(Own) /\ MayBecome(own, Own)
    BY <1>3, <2>1 DEF Agrees
  <2>3. own = Absent => ~extensible /\ Own = Absent
    BY <1>3 DEF Agrees, Permanent
  <2> QED BY <1>1, <2>1, <2>2, <2>3 DEF PromiseInv
<1> QED BY <1>2, <1>3

LEMMA LearntIsInvAfter ==
    \A closed, own : Learnt(closed, own)' => PromiseInv'
<1>1. (\A closed, own : Learnt(closed, own) => PromiseInv)'
  <2>1. \A closed, own : Learnt(closed, own) => PromiseInv
    BY LearntIsInv
  <2> QED BY <2>1, PTL
<1> QED BY <1>1

LEMMA ArrayInvStays ==
    ASSUME ArrayInv, UNCHANGED <<table, extensible, outcome>>
    PROVE  ArrayInv'
<1>1. /\ table' = table /\ extensible' = extensible /\ outcome' = outcome
  OBVIOUS
<1> QED BY <1>1 DEF ArrayInv, ArrayTypeOK, LengthAboveIndices, Present, LengthNow

(* An answer that teaches what agrees, and is honest, keeps the invariant. *)
LEMMA LearningKeeps ==
    ASSUME ProxyInv, NEW closed, NEW own, NEW honest, Learn(closed, own, honest),
           closed \in BOOLEAN, honest = TRUE, closed => ~extensible,
           own = None \/ Agrees(own)
    PROVE  ProxyInv'
<1>1. /\ watched \in Keys /\ kept = TRUE /\ promised.closed \in BOOLEAN
      /\ promised.closed => ~extensible
      /\ promised.own = None \/ Agrees(promised.own)
  BY PromisedIsEither
<1>2. /\ promised' = [closed |-> promised.closed \/ closed,
                      own |-> IF own = None THEN promised.own ELSE own]
      /\ kept' = (kept /\ honest)
      /\ table' = table /\ extensible' = extensible /\ outcome' = outcome
      /\ watched' = watched
  BY DEF Learn
<1>3. PICK c, o : /\ c \in BOOLEAN /\ promised' = [closed |-> c, own |-> o]
                  /\ c => ~extensible
                  /\ o = None \/ Agrees(o)
  <2> DEFINE o == IF own = None THEN promised.own ELSE own
             c == promised.closed \/ closed
  <2>1. o = None \/ Agrees(o)
    BY <1>1
  <2>2. c \in BOOLEAN /\ (c => ~extensible)
    BY <1>1
  <2>3. promised' = [closed |-> c, own |-> o]
    BY <1>2
  <2> HIDE DEF c, o
  <2> QED BY <2>1, <2>2, <2>3
<1>4. ArrayInv'
  BY <1>2, ArrayInvStays DEF ProxyInv
<1>5. o = None \/ Agrees(o)'
  BY <1>2, <1>3 DEF Agrees, Own, PropertiesOf
<1>6. watched' \in Keys /\ kept' = TRUE /\ (c => ~extensible')
  BY <1>1, <1>2, <1>3
<1>7. PromiseInv'
  <2>1. Learnt(c, o)'
    BY <1>3, <1>5, <1>6 DEF Learnt
  <2> QED BY <2>1, LearntIsInvAfter
<1> QED BY <1>4, <1>7 DEF ProxyInv

-----------------------------------------------------------------------------
(* The steps of a program that asks.                                       *)

LEMMA TargetIsFaithful ==
    ASSUME ArrayInv, watched \in Keys, MayOmit = FALSE
    PROVE  \A held \in Target : Faithful(held)
<1>1. Depth \in Nat
  BY ProxyAssumption
<1>2. ASSUME NEW n \in 0..Depth - 1
      PROVE  \A held \in OwnAt[n] : Faithful(held)
  <2>1. n \in 0..Depth
    BY <1>1
  <2> QED BY <2>1, OwnIsFaithful
<1> QED BY <1>2 DEF Target

(* What was promised of a property, and what a faithful answer says now.   *)
LEMMA StillHolds ==
    ASSUME ProxyInv, ~Nothing, NEW held, Faithful(held)
    PROVE  /\ promised.own # Absent /\ promised.own # None
           /\ promised.own \in PropertiesOf(watched)
           /\ promised.own.configurable = FALSE /\ Permanent(promised.own)
           /\ held.kind = promised.own.kind /\ Permanent(held)
           /\ Permanent(Own)
           /\ held = promised.own \/ (promised.own.kind = "data" /\ promised.own.writable)
<1>1. /\ promised.own # Absent /\ promised.own # None
      /\ promised.own \in PropertiesOf(watched) /\ Permanent(promised.own)
      /\ Permanent(Own) /\ MayBecome(promised.own, Own)
  BY PromisedIsEither DEF Nothing, Agrees
<1>2. promised.own.configurable = FALSE
  BY <1>1, PromisedIsEither, PropertyIs DEF Permanent
<1>3. /\ Permanent(held) /\ held.kind = Own.kind
      /\ held = Own \/ (held.kind = "data" /\ held.writable /\ Own.writable)
  BY <1>1 DEF Faithful
<1>4. CASE Own = promised.own
  BY <1>1, <1>2, <1>3, <1>4
<1>5. CASE Own # promised.own
  BY <1>1, <1>2, <1>3, <1>5 DEF MayBecome
<1> QED BY <1>4, <1>5

LEMMA AskOwnKeeps ==
    ASSUME ProxyInv, MayOmit = FALSE, AskOwn
    PROVE  ProxyInv'
<1> DEFINE teaches(p) == IF Permanent(p) THEN p
                         ELSE IF p = Absent /\ promised.closed THEN Absent ELSE None
           honest(p) == CASE promised.own = None -> TRUE
                          [] promised.own = Absent -> p = Absent
                          [] OTHER -> MayBecome(promised.own, p)
<1>1. ArrayInv /\ watched \in Keys /\ Depth \in 0..Depth
  BY PromisedIsEither, ProxyAssumption DEF ProxyInv
<1>2. PICK p \in OwnAt[Depth] : Learn(FALSE, teaches(p), honest(p))
  BY DEF AskOwn
<1>3. Faithful(p)
  BY <1>1, OwnIsFaithful
<1>4. honest(p)
  <2>1. CASE promised.own = None
    BY <2>1, ProxyAssumption
  <2>2. CASE promised.own = Absent
    <3>1. ~extensible /\ Own = Absent
      BY <2>2, PromisedIsEither, ProxyAssumption DEF Agrees, Permanent
    <3>2. p = Absent
      BY <1>3, <3>1 DEF Faithful
    <3> QED BY <2>2, <3>2, ProxyAssumption
  <2>3. CASE ~Nothing
    <3>1. MayBecome(promised.own, p)
      BY <1>3, <2>3, StillHolds DEF MayBecome, Permanent
    <3> QED BY <2>3, <3>1 DEF Nothing
  <2> QED BY <2>1, <2>2, <2>3 DEF Nothing
<1>5. teaches(p) = None \/ Agrees(teaches(p))
  <2>1. CASE Permanent(p)
    <3>1. p \in PropertiesOf(watched) /\ Permanent(Own) /\ MayBecome(p, Own)
      BY <1>3, <2>1 DEF Faithful, MayBecome, Permanent
    <3> QED BY <2>1, <3>1 DEF Agrees
  <2>2. CASE ~Permanent(p) /\ p = Absent /\ promised.closed
    <3>1. ~extensible /\ Own = Absent
      BY <1>3, <2>2, PromisedIsEither DEF Faithful
    <3> QED BY <2>2, <3>1 DEF Agrees
  <2> QED BY <2>1, <2>2
<1> HIDE DEF teaches, honest
<1>6. \A closed, own, right :
         Learn(closed, own, right) /\ closed = FALSE /\ right = TRUE
             /\ (own = None \/ Agrees(own)) => ProxyInv'
  BY LearningKeeps
<1>7. honest(p) = TRUE
  BY <1>4 DEF honest
<1> QED BY <1>2, <1>5, <1>6, <1>7

LEMMA AskReadKeeps ==
    ASSUME ProxyInv, MayOmit = FALSE, AskRead
    PROVE  ProxyInv'
<1> DEFINE honest(v) == Nothing \/ MayRead(v, promised.own)
<1>1. ArrayInv /\ watched \in Keys /\ Depth \in 0..Depth
  BY PromisedIsEither, ProxyAssumption DEF ProxyInv
<1>2. PICK v \in ReadAt[Depth] : Learn(FALSE, None, honest(v))
  BY DEF AskRead
<1>3. MayRead(v, Own)
  BY <1>1, ReadIsFaithful
<1>4. honest(v)
  <2>1. ASSUME ~Nothing
        PROVE  MayRead(v, promised.own)
    <3>1. Faithful(Own)
      BY <1>1, OwnIs
    <3>2. /\ Permanent(Own) /\ Own.kind = promised.own.kind
          /\ Own = promised.own \/ (promised.own.kind = "data" /\ promised.own.writable)
      BY <2>1, <3>1, StillHolds
    <3> QED BY <1>3, <3>2 DEF MayRead
  <2> QED BY <2>1
<1> HIDE DEF honest
<1>5. \A closed, own, right :
         Learn(closed, own, right) /\ closed = FALSE /\ right = TRUE /\ own = None
             => ProxyInv'
  BY LearningKeeps
<1>6. honest(v) = TRUE
  BY <1>4 DEF honest
<1> QED BY <1>2, <1>5, <1>6

LEMMA AskExtensibleKeeps ==
    ASSUME ProxyInv, AskExtensible
    PROVE  ProxyInv'
<1>1. extensible \in BOOLEAN /\ (promised.closed => ~extensible)
  BY PromisedIsEither DEF ProxyInv, ArrayInv, ArrayTypeOK
<1> DEFINE closing == ~extensible
           honest == promised.closed => ~extensible
<1>2. Learn(closing, None, honest)
  BY DEF AskExtensible
<1>3. closing \in BOOLEAN /\ honest = TRUE /\ (closing => ~extensible)
  BY <1>1
<1> HIDE DEF closing, honest
<1>4. \A closed, own, right :
         Learn(closed, own, right) /\ closed \in BOOLEAN /\ (closed => ~extensible)
             /\ right = TRUE /\ own = None => ProxyInv'
  BY LearningKeeps
<1> QED BY <1>2, <1>3, <1>4

LEMMA AskPreventKeeps ==
    ASSUME ProxyInv, AskPrevent
    PROVE  ProxyInv'
<1>1. ~extensible /\ Learn(TRUE, None, TRUE)
  BY Zenon DEF AskPrevent
<1>2. \A closed, own, right :
         Learn(closed, own, right) /\ closed = TRUE /\ ~extensible
             /\ right = TRUE /\ own = None => ProxyInv'
  BY LearningKeeps
<1> QED BY <1>1, <1>2, Zenon

LEMMA AskKeysKeeps ==
    ASSUME ProxyInv, MayOmit = FALSE, AskKeys
    PROVE  ProxyInv'
<1> DEFINE teaches(there) == IF ~there /\ promised.closed THEN Absent ELSE None
           honest(there) == promised.own # None => (there <=> promised.own # Absent)
<1>1. ArrayInv /\ watched \in Keys /\ Depth \in 0..Depth
  BY PromisedIsEither, ProxyAssumption DEF ProxyInv
<1>2. PICK there \in ListedAt[Depth] : Learn(FALSE, teaches(there), honest(there))
  BY DEF AskKeys
<1>3. /\ Permanent(Own) => there
      /\ ~extensible => (there <=> Own # Absent)
  BY <1>1, ListIsFaithful DEF ListedRight
<1>4. honest(there)
  <2>1. CASE promised.own = Absent
    BY <1>3, <2>1, PromisedIsEither, ProxyAssumption DEF Agrees, Permanent
  <2>2. CASE ~Nothing
    <3>1. Permanent(Own)
      BY <1>1, <2>2, OwnIs, StillHolds
    <3> QED BY <1>3, <2>2, <3>1 DEF Nothing
  <2> QED BY <2>1, <2>2 DEF Nothing
<1>5. teaches(there) = None \/ Agrees(teaches(there))
  <2>1. CASE ~there /\ promised.closed
    BY <1>3, <2>1, PromisedIsEither DEF Agrees
  <2> QED BY <2>1
<1> HIDE DEF teaches, honest
<1>6. \A closed, own, right :
         Learn(closed, own, right) /\ closed = FALSE /\ right = TRUE
             /\ (own = None \/ Agrees(own)) => ProxyInv'
  BY LearningKeeps
<1>7. honest(there) = TRUE
  BY <1>4 DEF honest
<1> QED BY <1>2, <1>5, <1>6, <1>7

LEMMA DenyKeeps ==
    ASSUME ProxyInv, MayOmit = FALSE, Deny
    PROVE  ProxyInv'
<1> DEFINE teaches == IF promised.closed THEN Absent ELSE None
<1>1. ArrayInv /\ watched \in Keys
  BY PromisedIsEither DEF ProxyInv
<1>2. PICK held \in Target : MayLose(held)
  BY DEF Deny
<1>3. Learn(FALSE, teaches, Nothing)
  BY DEF Deny
<1>4. ~Permanent(Own) /\ (~extensible => Own = Absent)
  BY <1>1, <1>2, TargetIsFaithful, LosingIsFaithful
<1>5. Nothing
  BY <1>4, PromisedIsEither DEF Nothing, Agrees
<1>6. teaches = None \/ Agrees(teaches)
  BY <1>4, PromisedIsEither DEF Agrees
<1> HIDE DEF teaches
<1>7. \A closed, own, right :
         Learn(closed, own, right) /\ closed = FALSE /\ right = TRUE
             /\ (own = None \/ Agrees(own)) => ProxyInv'
  BY LearningKeeps
<1>8. Nothing = TRUE
  BY <1>5 DEF Nothing
<1> QED BY <1>3, <1>6, <1>7, <1>8

LEMMA ClaimDefinedKeeps ==
    ASSUME ProxyInv, MayOmit = FALSE, ClaimDefined
    PROVE  ProxyInv'
<1> DEFINE honest(d) == CASE promised.own = None -> TRUE
                          [] promised.own = Absent -> FALSE
                          [] OTHER -> Validate(d, promised.own, TRUE)
<1>1. ArrayInv /\ watched \in Keys
  BY PromisedIsEither DEF ProxyInv
<1>2. PICK d \in Descriptors(ValuesOf(watched)) :
        (\E held \in Target : MayDefine(d, held)) /\ Learn(FALSE, None, honest(d))
  BY DEF ClaimDefined
<1>3. PICK held \in Target : MayDefine(d, held)
  BY <1>2
<1>4. Faithful(held)
  BY <1>1, TargetIsFaithful
<1>5. honest(d)
  <2>1. CASE promised.own = None
    BY <2>1, ProxyAssumption
  <2>2. CASE promised.own = Absent
    <3>1. ~extensible /\ Own = Absent
      BY <2>2, PromisedIsEither, ProxyAssumption DEF Agrees, Permanent
    <3>2. held = Absent
      BY <1>4, <3>1 DEF Faithful
    <3> QED BY <1>3, <3>1, <3>2 DEF MayDefine
  <2>3. CASE ~Nothing
    <3>1. /\ promised.own # Absent /\ promised.own.configurable = FALSE
          /\ held.kind = promised.own.kind /\ Permanent(held)
          /\ held = promised.own \/ (promised.own.kind = "data" /\ promised.own.writable)
      BY <1>4, <2>3, StillHolds
    <3>2. held # Absent /\ ~held.configurable
      BY <3>1 DEF Permanent
    <3>3. /\ d.configurable # TRUE
          /\ IsAccessor(d) => held.kind = "accessor"
          /\ IsData(d) => held.kind = "data"
          /\ \/ held.kind = "accessor" /\ d.getter \in {None, held.getter}
             \/ held.kind = "data" /\ held.writable
             \/ /\ held.kind = "data" /\ ~held.writable
                /\ d.writable # TRUE
                /\ d.value \in {None, held.value}
      BY <1>3, <3>2 DEF MayDefine, Validate
    <3>4. Validate(d, promised.own, TRUE)
      BY <3>1, <3>3 DEF Validate
    <3> QED BY <2>3, <3>4 DEF Nothing
  <2> QED BY <2>1, <2>2, <2>3 DEF Nothing
<1> HIDE DEF honest
<1>6. \A closed, own, right :
         Learn(closed, own, right) /\ closed = FALSE /\ right = TRUE /\ own = None
             => ProxyInv'
  BY LearningKeeps
<1>7. honest(d) = TRUE
  BY <1>5 DEF honest, Validate
<1> QED BY <1>2, <1>6, <1>7

LEMMA ClaimWrittenKeeps ==
    ASSUME ProxyInv, MayOmit = FALSE, ClaimWritten
    PROVE  ProxyInv'
<1> DEFINE honest(v) == Nothing \/ MayWrite(v, promised.own)
<1>1. ArrayInv /\ watched \in Keys
  BY PromisedIsEither DEF ProxyInv
<1>2. PICK v \in ValuesOf(watched) :
        (\E held \in Target : MayWrite(v, held)) /\ Learn(FALSE, None, honest(v))
  BY DEF ClaimWritten
<1>3. PICK held \in Target : MayWrite(v, held)
  BY <1>2
<1>4. Faithful(held)
  BY <1>1, TargetIsFaithful
<1>5. honest(v)
  <2>1. ASSUME ~Nothing
        PROVE  MayWrite(v, promised.own)
    <3>1. /\ Permanent(held) /\ held.kind = promised.own.kind
          /\ held = promised.own \/ (promised.own.kind = "data" /\ promised.own.writable)
      BY <1>4, <2>1, StillHolds
    <3> QED BY <1>3, <3>1 DEF MayWrite
  <2> QED BY <2>1
<1> HIDE DEF honest
<1>6. \A closed, own, right :
         Learn(closed, own, right) /\ closed = FALSE /\ right = TRUE /\ own = None
             => ProxyInv'
  BY LearningKeeps
<1>7. honest(v) = TRUE
  BY <1>5 DEF honest, MayWrite
<1> QED BY <1>2, <1>6, <1>7

-----------------------------------------------------------------------------
(* The array changes: what was promised is what it may still become.       *)
LEMMA ArrayKeeps ==
    ASSUME ProxyInv, [ArrayNext]_object, UNCHANGED <<watched, promised, kept>>
    PROVE  ProxyInv'
<1>1. /\ watched \in Keys /\ kept = TRUE /\ promised.closed \in BOOLEAN
      /\ promised = [closed |-> promised.closed, own |-> promised.own]
      /\ promised.closed => ~extensible
      /\ promised.own = None \/ Agrees(promised.own)
  BY PromisedIsEither
<1>2. watched' = watched /\ promised' = promised /\ kept' = kept
  OBVIOUS
<1>3. ArrayInv' /\ Stays
  BY NextHolds DEF ProxyInv
<1>4. PICK c, o : c = promised.closed /\ o = promised.own
  OBVIOUS
<1>5. /\ extensible' => extensible
      /\ Permanent(Own) => MayBecome(Own, Own')
      /\ ~extensible /\ Own = Absent => Own' = Absent
  BY <1>1, <1>2, <1>3 DEF Stays, Own
<1>6. ASSUME Agrees(o)
      PROVE  Agrees(o)'
  <2>1. CASE o = Absent
    BY <1>2, <1>5, <1>6, <2>1 DEF Agrees, Permanent
  <2>2. CASE o # Absent
    <3>1. /\ o \in PropertiesOf(watched) /\ Permanent(o)
          /\ Permanent(Own) /\ MayBecome(o, Own)
      BY <1>6, <2>2 DEF Agrees
    <3>2. MayBecome(Own, Own')
      BY <1>5, <3>1
    <3>3. Permanent(Own)' /\ MayBecome(o, Own')
      BY <3>1, <3>2 DEF MayBecome, Permanent
    <3>4. o \in PropertiesOf(watched)'
      BY <1>2, <3>1 DEF PropertiesOf
    <3> QED BY <3>1, <3>3, <3>4 DEF Agrees
  <2> QED BY <2>1, <2>2
<1>7. Learnt(c, o)'
  BY <1>1, <1>2, <1>4, <1>5, <1>6 DEF Learnt
<1> QED BY <1>3, <1>7, LearntIsInvAfter DEF ProxyInv

LEMMA AnswersStutter ==
    ASSUME AskOwn \/ AskExtensible \/ AskPrevent \/ AskRead \/ AskKeys
             \/ Deny \/ ClaimDefined \/ ClaimWritten
    PROVE  UNCHANGED object
<1> QED BY DEF AskOwn, AskExtensible, AskPrevent, AskRead, AskKeys, Deny,
           ClaimDefined, ClaimWritten, Learn, object

LEMMA ProxyInvAtFirst == Init => ProxyInv
<1> SUFFICES ASSUME Init PROVE ProxyInv
  OBVIOUS
<1>1. ArrayInv /\ watched \in Keys /\ kept = TRUE
  BY InitHolds DEF Init
<1>2. \A closed, own :
         promised = [closed |-> closed, own |-> own] /\ closed = FALSE /\ own = None
             => PromiseInv
  BY <1>1, LearntIsInv DEF Learnt
<1>3. promised = [closed |-> FALSE, own |-> None]
  BY DEF Init
<1> QED BY <1>1, <1>2, <1>3 DEF ProxyInv

LEMMA ProxyInvKept ==
    ASSUME MayOmit = FALSE, ProxyInv, [Next]_vars
    PROVE  ProxyInv'
<1>1. CASE ArrayNext /\ UNCHANGED <<watched, promised, kept>>
  BY <1>1, ArrayKeeps
<1>2. CASE AskOwn
  BY <1>2, AskOwnKeeps, Zenon
<1>3. CASE AskExtensible
  BY <1>3, AskExtensibleKeeps
<1>4. CASE AskPrevent
  BY <1>4, AskPreventKeeps
<1>5. CASE AskRead
  BY <1>5, AskReadKeeps, Zenon
<1>6. CASE AskKeys
  BY <1>6, AskKeysKeeps, Zenon
<1>7. CASE Deny
  BY <1>7, DenyKeeps, Zenon
<1>8. CASE ClaimDefined
  BY <1>8, ClaimDefinedKeeps, Zenon
<1>9. CASE ClaimWritten
  BY <1>9, ClaimWrittenKeeps, Zenon
<1>10. CASE UNCHANGED vars
  BY <1>10, ArrayKeeps DEF vars, object
<1> QED BY <1>1, <1>2, <1>3, <1>4, <1>5, <1>6, <1>7, <1>8, <1>9, <1>10 DEF Next

LEMMA ProxyInvHolds == ASSUME MayOmit = FALSE PROVE Spec => []ProxyInv
<1>1. ProxyInv /\ [Next]_vars => ProxyInv'
  BY ProxyInvKept, Zenon
<1> QED BY ProxyInvAtFirst, <1>1, PTL DEF Spec

(* No chain of proxies, whatever its traps answer and however the array is *)
(* changed meanwhile, goes back on what it once reported as permanent      *)
(* (vm/proxy.rs, "The invariants, and why they are not optional"), where   *)
(* every descriptor a trap gives says all its fields.  A descriptor that   *)
(* leaves some out breaks it: see the README.                              *)
THEOREM ProxiesKeepPromises == ASSUME MayOmit = FALSE PROVE Spec => []PromisesKept
<1>1. ProxyInv => PromisesKept
  BY PromisedIsEither DEF PromisesKept
<1> QED BY <1>1, ProxyInvHolds, PTL

(* What is held to be promised is a property that could be permanent, or   *)
(* none (vm/proxy_shape.rs).                                               *)
THEOREM ProxyTypesHold == ASSUME MayOmit = FALSE PROVE Spec => []TypeOK
<1>1. ProxyInv => TypeOK
  BY DEF ProxyInv, PromiseInv, ArrayInv, TypeOK
<1> QED BY <1>1, ProxyInvHolds, PTL

(* Asking a proxy does nothing to the array behind it, which is changed by *)
(* its own operations and keeps what section 6.1.7.3 asks (heap/define.rs),*)
(* whatever the traps leave out.                                           *)
THEOREM ProxiesImplementArray == Spec => ArraySpec
<1>1. Init => ArrayInit
  BY DEF Init
<1>2. [Next]_vars => [ArrayNext]_object
  BY AnswersStutter DEF Next, vars, object
<1> QED BY <1>1, <1>2, PTL DEF Spec, ArraySpec
=============================================================================
