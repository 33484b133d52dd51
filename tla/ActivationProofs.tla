-------------------------- MODULE ActivationProofs --------------------------
(***************************************************************************)
(* That code finds its own environment, operands and handlers wherever it  *)
(* goes on, for any number of bodies, constructs and Rust calls.           *)
(***************************************************************************)
EXTENDS Activation, FiniteSetTheorems, WellFoundedInduction, TLAPS

-----------------------------------------------------------------------------
(* Counting constructs.                                                    *)

LEMMA Least ==
    ASSUME NEW T \in SUBSET Nat, T # {}
    PROVE  \E n \in T : \A m \in T : n <= m
<1> DEFINE R == OpToRel(<, Nat)
<1>1. IsWellFoundedOn(R, Nat)
  BY NatLessThanWellFounded, Zenon
<1>2. \A x, y \in Nat : <<y, x>> \in R <=> y < x
  BY DEF OpToRel
<1> HIDE DEF R
<1>3. PICK n \in T : \A m \in T : ~(<<m, n>> \in R)
  BY <1>1, WFMin
<1>4. \A m \in T : m \in Nat /\ n \in Nat /\ ~(m < n)
  <2> TAKE m \in T
  <2>1. m \in Nat /\ n \in Nat
    OBVIOUS
  <2> QED BY <1>2, <1>3, <2>1
<1> QED BY <1>3, <1>4

LEMMA CountIsFinite ==
    ASSUME NEW open, NEW k, NEW n \in Nat
    PROVE  /\ IsFiniteSet({i \in 1..n : open[i] = k})
           /\ Count(open, k, n) \in Nat
<1>1. IsFiniteSet(1..n)
  <2>1. 1 \in Int /\ n \in Int
    OBVIOUS
  <2> QED BY ONLY <2>1, FS_Interval
<1>2. IsFiniteSet({i \in 1..n : open[i] = k})
  BY <1>1, FS_Subset
<1> QED BY <1>2, FS_CardinalityType DEF Count

LEMMA CountNothing ==
    ASSUME NEW open, NEW k
    PROVE  Count(open, k, 0) = 0
<1>1. {i \in 1..0 : open[i] = k} = {}
  OBVIOUS
<1> QED BY <1>1, FS_EmptySet DEF Count

LEMMA CountOneMore ==
    ASSUME NEW open, NEW k, NEW n \in Nat
    PROVE  Count(open, k, n + 1)
              = IF open[n + 1] = k THEN Count(open, k, n) + 1 ELSE Count(open, k, n)
<1> DEFINE S == {i \in 1..n : open[i] = k}
           T == {i \in 1..n + 1 : open[i] = k}
<1>1. IsFiniteSet(S)
  BY CountIsFinite
<1>2. CASE open[n + 1] = k
  <2>1. T = S \cup {n + 1} /\ n + 1 \notin S
    BY <1>2
  <2>2. Cardinality(S \cup {n + 1}) = Cardinality(S) + 1
    BY <1>1, <2>1, FS_AddElement
  <2> QED BY <1>2, <2>1, <2>2 DEF Count
<1>3. CASE open[n + 1] # k
  <2>1. T = S
    BY <1>3
  <2> QED BY <1>3, <2>1 DEF Count
<1> QED BY <1>2, <1>3

LEMMA CountAlike ==
    ASSUME NEW a, NEW b, NEW k, NEW n \in Nat, \A i \in 1..n : a[i] = b[i]
    PROVE  Count(a, k, n) = Count(b, k, n)
<1>1. {i \in 1..n : a[i] = k} = {i \in 1..n : b[i] = k}
  OBVIOUS
<1> QED BY <1>1 DEF Count

LEMMA CountGrows ==
    ASSUME NEW open, NEW k, NEW m \in Nat, NEW n \in Nat, m <= n
    PROVE  Count(open, k, m) <= Count(open, k, n)
<1>1. {i \in 1..m : open[i] = k} \subseteq {i \in 1..n : open[i] = k}
  OBVIOUS
<1>2. IsFiniteSet({i \in 1..n : open[i] = k})
  BY CountIsFinite
<1> QED BY <1>1, <1>2, FS_Subset DEF Count

LEMMA CountAt ==
    ASSUME NEW open, NEW k, NEW n \in Nat, NEW i \in 1..n, open[i] = k
    PROVE  /\ Count(open, k, i) = Count(open, k, i - 1) + 1
           /\ Count(open, k, i) >= 1 /\ Count(open, k, i) <= Count(open, k, n)
           /\ Count(open, k, i - 1) \in Nat /\ Count(open, k, i) \in Nat
<1>1. i - 1 \in Nat /\ i \in Nat /\ (i - 1) + 1 = i /\ i <= n
  OBVIOUS
<1>2. Count(open, k, i - 1) \in Nat /\ Count(open, k, i) \in Nat /\ Count(open, k, n) \in Nat
  BY <1>1, CountIsFinite
<1>3. Count(open, k, (i - 1) + 1)
        = IF open[(i - 1) + 1] = k THEN Count(open, k, i - 1) + 1 ELSE Count(open, k, i - 1)
  BY <1>1, CountOneMore
<1>4. Count(open, k, i) <= Count(open, k, n)
  BY <1>1, CountGrows
<1> QED BY <1>1, <1>2, <1>3, <1>4

(* Each of a kind is the first, the second, ...                            *)
LEMMA CountReaches ==
    ASSUME NEW open, NEW k, NEW n \in Nat, NEW j \in 1..Count(open, k, n)
    PROVE  \E i \in 1..n : open[i] = k /\ Count(open, k, i) = j
<1> DEFINE T == {m \in Nat : m <= n /\ j <= Count(open, k, m)}
<1>0. \A m \in Nat : Count(open, k, m) \in Nat
  BY CountIsFinite
<1>1. n \in T
  BY <1>0
<1>2. PICK m \in T : \A l \in T : m <= l
  BY <1>1, Least
<1>3. m # 0
  BY <1>0, <1>2, CountNothing
<1>4. m - 1 \in Nat /\ (m - 1) + 1 = m /\ m - 1 <= n /\ m \in 1..n /\ ~(m <= m - 1)
  BY <1>2, <1>3
<1>5. Count(open, k, m - 1) < j
  BY <1>0, <1>2, <1>4
<1>6. Count(open, k, (m - 1) + 1)
        = IF open[(m - 1) + 1] = k THEN Count(open, k, m - 1) + 1 ELSE Count(open, k, m - 1)
  BY <1>4, CountOneMore
<1>7. PICK a \in Nat, b \in Nat : a = Count(open, k, m - 1) /\ b = Count(open, k, m)
  BY <1>0, <1>4
<1>8. j <= b /\ j > a /\ j \in Nat
  BY <1>0, <1>2, <1>5, <1>7
<1>9. open[m] = k /\ b = a + 1
  BY <1>4, <1>6, <1>7, <1>8
<1>10. b = j
  BY <1>8, <1>9
<1> QED BY <1>4, <1>7, <1>9, <1>10

-----------------------------------------------------------------------------
(* What the machine is made of.                                            *)

Marks == [of : Nat, at : Nat]
Registers == [env : Environment, var : Nat, this : Nat, target : Nat, realm : Realms]
Frames == [code : Code, regs : Registers, stack_base : Nat, handlers_base : Nat,
           constructed : BOOLEAN, generator : Nat]
Handlers == [target : Code, frames : Nat, depth : Nat, env : Environment,
             references : Nat]
Floors == [handlers : Nat, frames : Nat]
Vms == [stack : Seq(Marks), handlers : Seq(Handlers), frames : Seq(Frames),
        references : Seq(Marks), regs : Registers, escaped : BOOLEAN,
        thrown : BOOLEAN, current : Code, floor : Floors]
Waits == [kind : {"conversion", "native", "eval"}, running : BOOLEAN,
          failed : BOOLEAN, code : Code, entry : Nat, realm : Realms,
          regs : Registers, floor : Floors]
Owners == [Ids -> [kind : Kinds, regs : Registers]]
Shelves == [code : Code, begun : BOOLEAN, env : Environment, var : Nat, this : Nat,
            target : Nat, stack : Seq(Marks), references : Seq(Marks),
            handlers : Seq(Handlers)]

-----------------------------------------------------------------------------
(* One body, waiting or running, at depth d: what lies between its bases   *)
(* and its tops is what its code has open.                                 *)
EnvOf(c) == [of |-> c.of, level |-> Blocks(c.open)]
Level(c, env, stack, handlers, d, base, top, hbase, htop) ==
    /\ env = EnvOf(c)
    /\ OperandsFit(stack, c, base, top)
    /\ HandlersFit(handlers, c, d, hbase, base, htop)

(* Code that has called waits for the operand its call answers.            *)
Awaiting(code) == code.open # <<>> /\ Last(code.open) = "operand"
Before(code) == [code EXCEPT !.open = Front(@)]

(* The body at depth d of an execution v entered at `entry`.               *)
CodeAt(v, d) == IF d = Len(v.frames) THEN v.current ELSE Before(v.frames[d + 1].code)
EnvAt(v, d) == IF d = Len(v.frames) THEN v.regs.env ELSE v.frames[d + 1].regs.env
TopAt(v, d) == IF d = Len(v.frames) THEN Len(v.stack) ELSE v.frames[d + 1].stack_base
HandlersTopAt(v, d) ==
    IF d = Len(v.frames) THEN Len(v.handlers) ELSE v.frames[d + 1].handlers_base
BaseAt(v, entry, d) == IF d = v.floor.frames THEN entry ELSE v.frames[d].stack_base
HandlersBaseAt(v, d) ==
    IF d = v.floor.frames THEN v.floor.handlers ELSE v.frames[d].handlers_base

(* Whose code it is.                                                       *)
Belongs(v, d, o, m) ==
    LET c == CodeAt(v, d)
    IN  /\ c \in Code
        /\ c.of \in 1..m
        /\ (o[c.of].kind \in Bodies) <=> d > v.floor.frames
        /\ c.preparing => o[c.of].kind = "generator"
        /\ d > v.floor.frames /\ v.frames[d].generator # Nobody
              => c.of = v.frames[d].generator /\ ~c.preparing

Sits(v, entry, d, o, m) ==
    /\ Belongs(v, d, o, m)
    /\ d < Len(v.frames) => Awaiting(v.frames[d + 1].code)
    /\ Level(CodeAt(v, d), EnvAt(v, d), v.stack, v.handlers, d,
             BaseAt(v, entry, d), TopAt(v, d), HandlersBaseAt(v, d), HandlersTopAt(v, d))

(* No mark is above its stack, none below the floor of the execution that  *)
(* took it, and they do not decrease; a handler stands between the frames  *)
(* it was installed between.                                               *)
MarksInOrder(v, entry) ==
    LET f == v.frames
        h == v.handlers
        fl == v.floor
    IN  /\ fl.frames <= Len(f) /\ fl.handlers <= Len(h) /\ entry <= Len(v.stack)
        /\ \A i \in DOMAIN f :
              /\ f[i].stack_base <= Len(v.stack) /\ f[i].handlers_base <= Len(h)
              /\ i <= fl.frames => f[i].stack_base <= entry
                                   /\ f[i].handlers_base <= fl.handlers
              /\ i > fl.frames => f[i].stack_base >= entry
                                  /\ f[i].handlers_base >= fl.handlers
        /\ \A i, j \in DOMAIN f : i < j =>
              /\ f[i].stack_base <= f[j].stack_base
              /\ f[i].handlers_base <= f[j].handlers_base
        /\ \A j \in DOMAIN h :
              /\ h[j].frames <= Len(f) /\ h[j].depth <= Len(v.stack)
              /\ j <= fl.handlers => h[j].frames <= fl.frames /\ h[j].depth <= entry
              /\ j > fl.handlers => h[j].frames >= fl.frames /\ h[j].depth >= entry
        /\ \A i, j \in DOMAIN h : i < j =>
              h[i].frames <= h[j].frames /\ h[i].depth <= h[j].depth
        /\ \A i \in DOMAIN f, j \in DOMAIN h :
              IF j <= f[i].handlers_base
              THEN h[j].frames < i /\ h[j].depth <= f[i].stack_base
              ELSE h[j].frames >= i /\ h[j].depth >= f[i].stack_base

(* An execution: of a chunk, or of a body Rust has called.                 *)
Lowest(v, chunk) == IF chunk THEN v.floor.frames ELSE v.floor.frames + 1
Bottom(v, entry) ==
    /\ v.floor.frames < Len(v.frames)
    /\ LET b == v.frames[v.floor.frames + 1]
       IN  b.code = NoCode /\ b.stack_base = entry /\ b.handlers_base = v.floor.handlers
Fine(v, entry, chunk, o, m) ==
    /\ v \in Vms
    /\ MarksInOrder(v, entry)
    /\ ~chunk => Bottom(v, entry)
    /\ \A d \in Lowest(v, chunk)..Len(v.frames) : Sits(v, entry, d, o, m)

(* An execution that is over.                                              *)
Over(v, entry) ==
    /\ v \in Vms
    /\ MarksInOrder(v, entry)
    /\ v.current = NoCode
    /\ Len(v.frames) = v.floor.frames /\ Len(v.handlers) = v.floor.handlers

-----------------------------------------------------------------------------
(* Executions under one another, each below the Rust call that waits for   *)
(* the next.                                                               *)

InControl(rs) == rs # <<>> /\ ~Last(rs).running
EntryOf(rs, k) == IF k = 0 THEN 0 ELSE rs[k].entry
ChunkOf(rs, k) == IF k = 0 THEN TRUE ELSE rs[k].kind = "eval"

(* What is above the k-th Rust call's execution.                           *)
FloorOver(v, rs, k) ==
    IF k < Len(rs) THEN rs[k + 1].floor
    ELSE IF rs[k].running THEN v.floor
    ELSE [handlers |-> Len(v.handlers), frames |-> Len(v.frames)]

(* The execution the k-th Rust call was made in, as it was.                *)
Saved(v, rs, k) ==
    [stack |-> SubSeq(v.stack, 1, rs[k].entry),
     handlers |-> SubSeq(v.handlers, 1, FloorOver(v, rs, k).handlers),
     frames |-> SubSeq(v.frames, 1, FloorOver(v, rs, k).frames),
     references |-> <<>>,
     regs |-> [(IF rs[k].running THEN rs[k].regs ELSE v.regs) EXCEPT !.realm = rs[k].realm],
     escaped |-> FALSE, thrown |-> FALSE,
     current |-> Before(rs[k].code),
     floor |-> rs[k].floor]

Calling(v, rs) ==
    /\ rs \in Seq(Waits)
    /\ \A k \in DOMAIN rs :
          /\ k < Len(rs) => rs[k].running
          /\ ~rs[k].running => rs[k].kind = "native"
          /\ Awaiting(rs[k].code)
          /\ rs[k].entry <= Len(v.stack)
          /\ rs[k].floor.frames <= v.floor.frames
          /\ rs[k].floor.handlers <= v.floor.handlers
    /\ \A k, l \in DOMAIN rs : k < l =>
          /\ rs[k].entry <= rs[l].entry
          /\ rs[k].floor.frames <= rs[l].floor.frames
          /\ rs[k].floor.handlers <= rs[l].floor.handlers
    /\ InControl(rs) => /\ v.current = NoCode
                        /\ v.floor = Last(rs).floor
                        /\ Len(v.stack) = Last(rs).entry

TopIsFine(v, rs, o, m) ==
    ~InControl(rs) =>
       IF v.current # NoCode
       THEN Fine(v, EntryOf(rs, Len(rs)), ChunkOf(rs, Len(rs)), o, m)
       ELSE Over(v, EntryOf(rs, Len(rs)))

(* A parked body, its marks counted from its own bases.                    *)
Shelved(p, g, o) ==
    LET c == Before(p.code)
    IN  /\ p \in Shelves
        /\ p.code.of = g /\ ~p.code.preparing /\ Awaiting(p.code)
        /\ o[g].kind \in Bodies
        /\ Level(c, p.env, p.stack, p.handlers, 1, 0, Len(p.stack), 0, Len(p.handlers))

Spine(v, rs, o, m, gs, pk) ==
    /\ v \in Vms /\ o \in Owners /\ m \in Ids /\ gs \subseteq 1..m
    /\ Calling(v, rs)
    /\ \A k \in DOMAIN rs :
          Fine(Saved(v, rs, k), EntryOf(rs, k - 1), ChunkOf(rs, k - 1), o, m)
    /\ TopIsFine(v, rs, o, m)
    /\ pk \in [Ids -> Shelves \cup {NotParked}]
    /\ \A g \in Ids : pk[g] # NotParked => g \in 1..m /\ Shelved(pk[g], g, o)

-----------------------------------------------------------------------------
(* One body.                                                               *)

(* What a part of a body's code has open.                                  *)
LEMMA PartCounts ==
    ASSUME NEW open \in Seq(Constructs), NEW n \in 0..Len(open), NEW k
    PROVE  /\ SubSeq(open, 1, n) \in Seq(Constructs)
           /\ Len(SubSeq(open, 1, n)) = n
           /\ \A i \in 1..n : SubSeq(open, 1, n)[i] = open[i]
           /\ \A i \in 0..n : Count(SubSeq(open, 1, n), k, i) = Count(open, k, i)
           /\ \A i \in 1..n : SubSeq(SubSeq(open, 1, n), 1, i - 1) = SubSeq(open, 1, i - 1)
<1> DEFINE part == SubSeq(open, 1, n)
<1>1. part \in Seq(Constructs) /\ Len(part) = n /\ \A i \in 1..n : part[i] = open[i]
  OBVIOUS
<1> HIDE DEF part
<1>2. ASSUME NEW i \in 0..n PROVE Count(part, k, i) = Count(open, k, i)
  <2>1. i \in Nat /\ \A j \in 1..i : part[j] = open[j]
    BY <1>1
  <2> QED BY <2>1, CountAlike
<1>3. ASSUME NEW i \in 1..n PROVE SubSeq(part, 1, i - 1) = SubSeq(open, 1, i - 1)
  BY <1>1
<1> QED BY <1>1, <1>2, <1>3 DEF part

LEMMA MoreCounts ==
    ASSUME NEW open \in Seq(Constructs), NEW x \in Constructs
    PROVE  LET more == Append(open, x)
           IN  /\ more \in Seq(Constructs) /\ Len(more) = Len(open) + 1
               /\ more[Len(open) + 1] = x
               /\ \A i \in 1..Len(open) : more[i] = open[i]
               /\ \A k : \A i \in 0..Len(open) : Count(more, k, i) = Count(open, k, i)
               /\ \A k : Count(more, k, Len(more))
                           = IF x = k THEN Count(open, k, Len(open)) + 1
                             ELSE Count(open, k, Len(open))
               /\ \A i \in 1..Len(open) + 1 :
                     SubSeq(more, 1, i - 1) = SubSeq(open, 1, i - 1)
               /\ Front(more) = open /\ Last(more) = x
<1> DEFINE more == Append(open, x)
<1>1. /\ more \in Seq(Constructs) /\ Len(more) = Len(open) + 1 /\ more[Len(open) + 1] = x
      /\ \A i \in 1..Len(open) : more[i] = open[i]
      /\ Len(open) \in Nat
  OBVIOUS
<1> HIDE DEF more
<1>2. ASSUME NEW k, NEW i \in 0..Len(open) PROVE Count(more, k, i) = Count(open, k, i)
  <2>1. i \in Nat /\ \A j \in 1..i : more[j] = open[j]
    BY <1>1
  <2> QED BY <2>1, CountAlike
<1>3. ASSUME NEW k
      PROVE  Count(more, k, Len(more)) = IF x = k THEN Count(open, k, Len(open)) + 1
                                         ELSE Count(open, k, Len(open))
  <2>1. Count(more, k, Len(open) + 1)
          = IF more[Len(open) + 1] = k THEN Count(more, k, Len(open)) + 1
            ELSE Count(more, k, Len(open))
    BY <1>1, CountOneMore
  <2>2. Count(more, k, Len(open)) = Count(open, k, Len(open))
    BY <1>1, <1>2
  <2> QED BY <1>1, <2>1, <2>2
<1>4. ASSUME NEW i \in 1..Len(open) + 1
      PROVE  SubSeq(more, 1, i - 1) = SubSeq(open, 1, i - 1)
  BY <1>1
<1>5. Front(more) = open /\ Last(more) = x
  BY <1>1 DEF Front, Last
<1> QED BY <1>1, <1>2, <1>3, <1>4, <1>5 DEF more

(* Where the mark of a construct is, above the base it is counted from.    *)
LEMMA PlaceIn ==
    ASSUME NEW open \in Seq(Constructs), NEW k, NEW i \in 1..Len(open), open[i] = k,
           NEW base \in Nat, NEW top, top = base + Count(open, k, Len(open))
    PROVE  base + Count(open, k, i) \in base + 1..top
<1>1. Len(open) \in Nat
  OBVIOUS
<1>2. PICK n \in Nat : n = Count(open, k, Len(open))
  BY <1>1, CountIsFinite
<1>3. PICK j \in Nat : j = Count(open, k, i)
  BY <1>1, CountAt
<1>4. j >= 1 /\ j <= n
  BY <1>1, <1>2, <1>3, CountAt
<1> QED BY <1>2, <1>3, <1>4

LEMMA LevelStarts ==
    ASSUME NEW c, c.open = <<>>, NEW stack, NEW handlers, NEW d,
           NEW base \in Nat, NEW hbase \in Nat
    PROVE  Level(c, [of |-> c.of, level |-> 0], stack, handlers, d,
                 base, base, hbase, hbase)
<1>1. Len(c.open) = 0 /\ DOMAIN c.open = {}
  OBVIOUS
<1>2. \A k : Count(c.open, k, Len(c.open)) = 0
  BY <1>1, CountNothing
<1> QED BY <1>1, <1>2 DEF Level, EnvOf, OperandsFit, HandlersFit, Blocks

LEMMA LevelAlike ==
    ASSUME NEW c \in Code, NEW env, NEW stack, NEW handlers, NEW d,
           NEW base \in Nat, NEW top \in Nat, NEW hbase \in Nat, NEW htop \in Nat,
           Level(c, env, stack, handlers, d, base, top, hbase, htop),
           NEW s, NEW h,
           \A i \in base + 1..top : s[i] = stack[i],
           \A j \in hbase + 1..htop : h[j] = handlers[j]
    PROVE  Level(c, env, s, h, d, base, top, hbase, htop)
<1>0. c.open \in Seq(Constructs) /\ Len(c.open) \in Nat /\ DOMAIN c.open = 1..Len(c.open)
  BY DEF Code
<1>1. OperandsFit(s, c, base, top)
  <2>1. top = base + Count(c.open, "operand", Len(c.open))
    BY DEF Level, OperandsFit
  <2>2. ASSUME NEW i \in DOMAIN c.open, c.open[i] = "operand"
        PROVE  base + Count(c.open, "operand", i) \in base + 1..top
    BY <1>0, <2>1, <2>2, PlaceIn
  <2> QED BY <2>2 DEF Level, OperandsFit
<1>2. HandlersFit(h, c, d, hbase, base, htop)
  <2>1. htop = hbase + Count(c.open, "try", Len(c.open))
    BY DEF Level, HandlersFit
  <2>2. ASSUME NEW i \in DOMAIN c.open, c.open[i] = "try"
        PROVE  hbase + Count(c.open, "try", i) \in hbase + 1..htop
    BY <1>0, <2>1, <2>2, PlaceIn
  <2> QED BY <2>2 DEF Level, HandlersFit
<1> QED BY <1>1, <1>2 DEF Level, EnvOf

(* The first constructs a body has open, and what it has for them.         *)
LEMMA LevelShort ==
    ASSUME NEW c \in Code, NEW env, NEW stack \in Seq(Marks), NEW handlers \in Seq(Handlers),
           NEW d, NEW base \in Nat, NEW hbase \in Nat,
           Level(c, env, stack, handlers, d, base, Len(stack), hbase, Len(handlers)),
           NEW n \in 0..Len(c.open),
           NEW short, short = [c EXCEPT !.open = SubSeq(@, 1, n)],
           NEW top, top = base + Count(c.open, "operand", n),
           NEW htop, htop = hbase + Count(c.open, "try", n)
    PROVE  /\ short \in Code /\ short.of = c.of /\ short.preparing = c.preparing
           /\ top \in base..Len(stack) /\ htop \in hbase..Len(handlers)
           /\ Level(short, [of |-> c.of, level |-> Count(c.open, "block", n)],
                    SubSeq(stack, 1, top), SubSeq(handlers, 1, htop), d,
                    base, top, hbase, htop)
<1>0. c.open \in Seq(Constructs) /\ Len(c.open) \in Nat /\ DOMAIN c.open = 1..Len(c.open)
      /\ n \in Nat /\ n <= Len(c.open)
  BY DEF Code
<1>4. /\ Len(stack) = base + Count(c.open, "operand", Len(c.open))
      /\ Len(handlers) = hbase + Count(c.open, "try", Len(c.open))
  BY DEF Level, EnvOf, OperandsFit, HandlersFit
<1>5. top \in base..Len(stack) /\ htop \in hbase..Len(handlers)
  <2>1. ASSUME NEW k PROVE /\ Count(c.open, k, n) \in Nat
                           /\ Count(c.open, k, Len(c.open)) \in Nat
                           /\ Count(c.open, k, n) <= Count(c.open, k, Len(c.open))
    <3>1. Count(c.open, k, n) \in Nat /\ Count(c.open, k, Len(c.open)) \in Nat
      BY <1>0, CountIsFinite
    <3>2. Count(c.open, k, n) <= Count(c.open, k, Len(c.open))
      BY <1>0, CountGrows
    <3> QED BY <3>1, <3>2
  <2>2. Len(stack) \in Nat /\ Len(handlers) \in Nat
    OBVIOUS
  <2>3. PICK a \in Nat, b \in Nat : /\ a = Count(c.open, "operand", n) /\ a <= b
                                   /\ b = Count(c.open, "operand", Len(c.open))
    BY <2>1
  <2>4. PICK p \in Nat, q \in Nat : /\ p = Count(c.open, "try", n) /\ p <= q
                                   /\ q = Count(c.open, "try", Len(c.open))
    BY <2>1
  <2>5. top = base + a /\ htop = hbase + p
    BY <2>3, <2>4
  <2>6. Len(stack) = base + b /\ Len(handlers) = hbase + q
    BY <1>4, <2>3, <2>4
  <2>7. top \in base..Len(stack)
    BY <2>2, <2>3, <2>5, <2>6, SMTT(30)
  <2>8. htop \in hbase..Len(handlers)
    BY <2>2, <2>4, <2>5, <2>6, SMTT(30)
  <2> QED BY <2>7, <2>8
<1>6. /\ short \in Code /\ short.of = c.of /\ short.preparing = c.preparing
      /\ short.open = SubSeq(c.open, 1, n)
  <2>1. SubSeq(c.open, 1, n) \in Seq(Constructs)
    BY <1>0, PartCounts
  <2> QED BY <2>1 DEF Code
<1>7. /\ Len(short.open) = n /\ DOMAIN short.open = 1..n
      /\ \A i \in 1..n : short.open[i] = c.open[i]
      /\ \A i \in 1..n : SubSeq(short.open, 1, i - 1) = SubSeq(c.open, 1, i - 1)
      /\ \A k : \A i \in 0..n : Count(short.open, k, i) = Count(c.open, k, i)
  <2>1. ASSUME NEW k
        PROVE  /\ Len(SubSeq(c.open, 1, n)) = n
               /\ \A i \in 1..n : SubSeq(c.open, 1, n)[i] = c.open[i]
               /\ \A i \in 0..n : Count(SubSeq(c.open, 1, n), k, i) = Count(c.open, k, i)
               /\ \A i \in 1..n : SubSeq(SubSeq(c.open, 1, n), 1, i - 1)
                                      = SubSeq(c.open, 1, i - 1)
    BY <1>0, PartCounts
  <2>2. DOMAIN short.open = 1..n
    <3>1. short.open \in Seq(Constructs)
      BY <1>6 DEF Code
    <3> QED BY <1>6, <2>1, <3>1
  <2> QED BY ONLY <1>6, <2>1, <2>2
<1>8. \A i \in 1..n : i \in 1..Len(c.open) /\ i \in 0..n /\ i - 1 \in 0..n
  BY <1>0
<1>9. OperandsFit(SubSeq(stack, 1, top), short, base, top)
  <2>1. top = base + Count(short.open, "operand", Len(short.open))
    BY ONLY <1>0, <1>7, top = base + Count(c.open, "operand", n)
  <2>2. ASSUME NEW i \in 1..n, short.open[i] = "operand"
        PROVE  SubSeq(stack, 1, top)[base + Count(short.open, "operand", i)]
                  = [of |-> short.of, at |-> i]
    <3>1. base + Count(short.open, "operand", i) \in base + 1..top
      BY <1>6, <1>7, <2>1, <2>2, PlaceIn DEF Code
    <3>2. stack[base + Count(c.open, "operand", i)] = [of |-> c.of, at |-> i]
      BY <1>0, <1>7, <1>8, <2>2 DEF Level, OperandsFit
    <3>3. Count(short.open, "operand", i) = Count(c.open, "operand", i)
      BY <1>7, <1>8
    <3>4. PICK p : p = base + Count(c.open, "operand", i)
      OBVIOUS
    <3>5. p \in base + 1..top
      BY <3>1, <3>3, <3>4
    <3>6. SubSeq(stack, 1, top)[p] = stack[p]
      BY <1>5, <3>5, SMTT(30)
    <3> QED BY <1>6, <3>2, <3>3, <3>4, <3>6
  <2> QED BY <1>7, <2>1, <2>2 DEF OperandsFit
<1>10. HandlersFit(SubSeq(handlers, 1, htop), short, d, hbase, base, htop)
  <2>1. htop = hbase + Count(short.open, "try", Len(short.open))
    BY ONLY <1>0, <1>7, htop = hbase + Count(c.open, "try", n)
  <2>2. ASSUME NEW i \in 1..n, short.open[i] = "try"
        PROVE  LeadsBack(SubSeq(handlers, 1, htop)[hbase + Count(short.open, "try", i)],
                         short, i, d, base)
    <3>1. hbase + Count(short.open, "try", i) \in hbase + 1..htop
      BY <1>6, <1>7, <2>1, <2>2, PlaceIn DEF Code
    <3>2. LeadsBack(handlers[hbase + Count(c.open, "try", i)], c, i, d, base)
      BY <1>0, <1>7, <1>8, <2>2 DEF Level, HandlersFit
    <3>3. Count(short.open, "try", i) = Count(c.open, "try", i)
      BY <1>7, <1>8
    <3>4. PICK p : p = hbase + Count(c.open, "try", i)
      OBVIOUS
    <3>5. p \in hbase + 1..htop
      BY <3>1, <3>3, <3>4
    <3>6. SubSeq(handlers, 1, htop)[p] = handlers[p]
      BY <1>5, <3>5, SMTT(30)
    <3>7. LeadsBack(handlers[p], short, i, d, base)
      <4>1. [short EXCEPT !.open = SubSeq(@, 1, i - 1)] = [c EXCEPT !.open = SubSeq(@, 1, i - 1)]
        BY <1>0, <1>6, <1>7 DEF Code
      <4>2. \A k : Count(short.open, k, i - 1) = Count(c.open, k, i - 1)
        BY <1>7, <1>8
      <4> QED BY <1>6, <3>2, <3>4, <4>1, <4>2 DEF LeadsBack
    <3> QED BY <3>3, <3>4, <3>6, <3>7
  <2> QED BY <1>7, <2>1, <2>2 DEF HandlersFit
<1>11. [of |-> c.of, level |-> Count(c.open, "block", n)] = [of |-> short.of, level |-> Blocks(short.open)]
  BY <1>6, <1>7, <1>0, SMTT(30) DEF Blocks, EnvOf
<1> QED BY <1>5, <1>6, <1>9, <1>10, <1>11 DEF Level, EnvOf

(* Opening a construct.                                                    *)
LEMMA OpenCode ==
    ASSUME NEW c \in Code, NEW x \in Constructs
    PROVE  LET e == Open(c, x)
           IN  /\ e \in Code /\ e.of = c.of /\ e.preparing = c.preparing
               /\ e.open = Append(c.open, x) /\ Before(e) = c
               /\ x = "operand" => Awaiting(e)
               /\ Mark(e) \in Marks
               /\ x = "block" => EnvOf(e) = [EnvOf(c) EXCEPT !.level = @ + 1]
               /\ x # "block" => EnvOf(e) = EnvOf(c)
<1>0. c.open \in Seq(Constructs) /\ Len(c.open) \in Nat /\ DOMAIN c.open = 1..Len(c.open)
  BY DEF Code
<1>1. PICK n \in Nat : n = Len(c.open)
  BY <1>0
<1>2. PICK e, open : e = Open(c, x) /\ open = Append(c.open, x)
  OBVIOUS
<1>3. /\ open \in Seq(Constructs) /\ Len(open) = n + 1
      /\ \A k : Count(open, k, n + 1) = IF x = k THEN Count(c.open, k, n) + 1
                                        ELSE Count(c.open, k, n)
      /\ Front(open) = c.open /\ Last(open) = x /\ open # <<>>
  BY <1>0, <1>1, <1>2, MoreCounts
<1>4. /\ e \in Code /\ e.of = c.of /\ e.preparing = c.preparing /\ e.open = open
  BY <1>2, <1>3 DEF Code, Open
<1>5. Before(e) = c
  BY <1>2, <1>3, <1>4 DEF Code, Open, Before
<1>6. x = "operand" => Awaiting(e)
  BY <1>3, <1>4 DEF Awaiting
<1>7. Mark(e) \in Marks
  BY <1>1, <1>3, <1>4 DEF Mark, Marks, Code
<1>8. ASSUME NEW k PROVE Count(c.open, k, n) \in Nat
  BY <1>1, CountIsFinite
<1>9. /\ x = "block" => EnvOf(e) = [EnvOf(c) EXCEPT !.level = @ + 1]
      /\ x # "block" => EnvOf(e) = EnvOf(c)
  BY <1>1, <1>3, <1>4, <1>8 DEF EnvOf, Blocks
<1> QED BY ONLY <1>2, <1>4, <1>5, <1>6, <1>7, <1>9

LEMMA LevelOpens ==
    ASSUME NEW c \in Code, NEW env, NEW stack \in Seq(Marks), NEW handlers \in Seq(Handlers),
           NEW d, NEW base \in Nat, NEW hbase \in Nat,
           Level(c, env, stack, handlers, d, base, Len(stack), hbase, Len(handlers)),
           NEW x \in Constructs, NEW e, e = Open(c, x),
           NEW s \in Seq(Marks), NEW h \in Seq(Handlers),
           x = "operand" => s = Append(stack, Mark(e)),
           x # "operand" => s = stack,
           x = "try" => /\ h = Append(handlers, h[Len(h)])
                        /\ h[Len(h)].target = c /\ h[Len(h)].frames = d
                        /\ h[Len(h)].depth = Len(stack) /\ h[Len(h)].env = env,
           x # "try" => h = handlers
    PROVE  Level(e, EnvOf(e), s, h, d, base, Len(s), hbase, Len(h))
<1>0. c.open \in Seq(Constructs) /\ Len(c.open) \in Nat /\ DOMAIN c.open = 1..Len(c.open)
  BY DEF Code
<1>1. PICK n \in Nat : n = Len(c.open)
  BY <1>0
<1>2. PICK open : open = Append(c.open, x)
  OBVIOUS
<1>3. /\ open \in Seq(Constructs) /\ Len(open) = n + 1 /\ open[n + 1] = x
      /\ \A i \in 1..n : open[i] = c.open[i]
      /\ \A k : \A i \in 0..n : Count(open, k, i) = Count(c.open, k, i)
      /\ \A k : Count(open, k, n + 1) = IF x = k THEN Count(c.open, k, n) + 1
                                        ELSE Count(c.open, k, n)
      /\ \A i \in 1..n + 1 : SubSeq(open, 1, i - 1) = SubSeq(c.open, 1, i - 1)
      /\ Front(open) = c.open /\ Last(open) = x
  BY <1>0, <1>1, <1>2, MoreCounts, SMTT(30)
<1>4. /\ e \in Code /\ e.of = c.of /\ e.preparing = c.preparing /\ e.open = open
  BY <1>2, <1>3 DEF Code, Open
<1>6. DOMAIN e.open = 1..n + 1 /\ n + 1 \in Nat
  BY <1>1, <1>3, <1>4
<1>7. /\ Len(stack) = base + Count(c.open, "operand", n)
      /\ Len(handlers) = hbase + Count(c.open, "try", n)
      /\ env = EnvOf(c)
  BY <1>1 DEF Level, OperandsFit, HandlersFit
<1>8. ASSUME NEW k PROVE Count(c.open, k, n) \in Nat /\ Count(open, k, n + 1) \in Nat
  BY <1>6, <1>1, CountIsFinite
<1>10. OperandsFit(s, e, base, Len(s))
  <2>1. Len(s) = base + Count(e.open, "operand", Len(e.open))
    <3>1. PICK a \in Nat : a = Count(c.open, "operand", n)
      BY <1>8
    <3>2. Len(s) = IF x = "operand" THEN Len(stack) + 1 ELSE Len(stack)
      OBVIOUS
    <3> QED BY <1>3, <1>4, <1>7, <3>1, <3>2, SMTT(30)
  <2>2. ASSUME NEW i \in 1..n + 1, e.open[i] = "operand"
        PROVE  s[base + Count(e.open, "operand", i)] = [of |-> e.of, at |-> i]
    <3>1. CASE i = n + 1
      <4>1. x = "operand"
        BY <1>3, <1>4, <2>2, <3>1
      <4>2. base + Count(e.open, "operand", i) = Len(stack) + 1
        BY <1>3, <1>4, <1>7, <1>8, <3>1, <4>1
      <4>3. Mark(e) = [of |-> e.of, at |-> n + 1]
        BY <1>3, <1>4 DEF Mark
      <4> QED BY <3>1, <4>1, <4>2, <4>3
    <3>2. CASE i # n + 1
      <4>1. i \in 1..n
        BY <1>6, <3>2
      <4>2. i \in 0..n /\ i \in DOMAIN c.open /\ c.open[i] = "operand"
        BY <1>0, <1>1, <1>3, <1>4, <2>2, <4>1, SMTT(30)
      <4>3. stack[base + Count(c.open, "operand", i)] = [of |-> c.of, at |-> i]
        BY <4>2 DEF Level, OperandsFit
      <4>4. base + Count(c.open, "operand", i) \in base + 1..Len(stack)
        BY <1>0, <1>1, <1>7, <4>1, <4>2, PlaceIn
      <4>5. PICK p \in base + 1..Len(stack) : p = base + Count(c.open, "operand", i)
        BY <4>4
      <4>6. s[p] = stack[p]
        <5>1. p \in 1..Len(stack)
          BY <4>5
        <5>2. x = "operand" => s = Append(stack, Mark(e))
          OBVIOUS
        <5>3. x # "operand" => s = stack
          OBVIOUS
        <5> QED BY ONLY <5>1, <5>2, <5>3, stack \in Seq(Marks)
      <4> QED BY <1>3, <1>4, <4>2, <4>3, <4>5, <4>6
    <3> QED BY <3>1, <3>2
  <2> QED BY <1>6, <2>1, <2>2 DEF OperandsFit
<1>11. HandlersFit(h, e, d, hbase, base, Len(h))
  <2>3. PICK hd : hd = h[Len(h)]
    OBVIOUS
  <2>4. IF x = "try" THEN h = Append(handlers, hd) ELSE h = handlers
    BY <2>3
  <2>5. /\ Len(h) = IF x = "try" THEN Len(handlers) + 1 ELSE Len(handlers)
        /\ x = "try" => h[Len(handlers) + 1] = hd
        /\ \A p \in 1..Len(handlers) : h[p] = handlers[p]
    BY ONLY <2>4, handlers \in Seq(Handlers)
  <2>1. Len(h) = hbase + Count(e.open, "try", Len(e.open))
    <3>1. PICK a \in Nat : a = Count(c.open, "try", n)
      BY <1>8
    <3>2. Count(e.open, "try", Len(e.open)) = IF x = "try" THEN a + 1 ELSE a
      BY ONLY <1>3, <1>4, <3>1
    <3> QED BY ONLY <1>7, <2>5, <3>1, <3>2, hbase \in Nat
  <2>2. ASSUME NEW i \in 1..n + 1, e.open[i] = "try"
        PROVE  LeadsBack(h[hbase + Count(e.open, "try", i)], e, i, d, base)
    <3>0. /\ [e EXCEPT !.open = SubSeq(@, 1, i - 1)] = [c EXCEPT !.open = SubSeq(@, 1, i - 1)]
      BY <1>0, <1>1, <1>3, <1>4 DEF Code, Open
    <3>1. CASE i = n + 1
      <4>1. x = "try"
        BY <1>3, <1>4, <2>2, <3>1
      <4>2. hbase + Count(e.open, "try", i) = Len(handlers) + 1
        BY <1>3, <1>4, <1>7, <1>8, <3>1, <4>1
      <4>3. [c EXCEPT !.open = SubSeq(@, 1, i - 1)] = c
        <5>1. SubSeq(c.open, 1, n) = c.open
          BY <1>0, <1>1
        <5> QED BY <1>1, <3>1, <5>1 DEF Code
      <4>4. \A k : Count(e.open, k, i - 1) = Count(c.open, k, n)
        BY <1>1, <1>3, <1>4, <3>1
      <4>5. LeadsBack(hd, e, i, d, base)
        BY <1>1, <1>4, <1>7, <2>3, <3>0, <4>1, <4>3, <4>4 DEF LeadsBack, EnvOf, Blocks
      <4> QED BY <2>5, <4>1, <4>2, <4>5
    <3>2. CASE i # n + 1
      <4>1. i \in 1..n
        BY <1>6, <3>2
      <4>2. i \in 0..n /\ i - 1 \in 0..n /\ i \in DOMAIN c.open /\ c.open[i] = "try"
        <5>1. i \in 0..n /\ i - 1 \in 0..n /\ i \in DOMAIN c.open
          BY <1>0, <1>1, <4>1, SMTT(30)
        <5>2. c.open[i] = "try"
          BY <1>3, <1>4, <2>2, <4>1
        <5> QED BY <5>1, <5>2
      <4>3. LeadsBack(handlers[hbase + Count(c.open, "try", i)], c, i, d, base)
        BY <4>2 DEF Level, HandlersFit
      <4>4. hbase + Count(c.open, "try", i) \in hbase + 1..Len(handlers)
        BY <1>0, <1>1, <1>7, <4>1, <4>2, PlaceIn
      <4>5. PICK p \in hbase + 1..Len(handlers) : p = hbase + Count(c.open, "try", i)
        BY <4>4
      <4>6. p \in 1..Len(handlers)
        BY <4>5
      <4>7. \A k : Count(e.open, k, i - 1) = Count(c.open, k, i - 1)
        BY <1>3, <1>4, <4>2
      <4>8. LeadsBack(handlers[p], e, i, d, base)
        BY <1>4, <3>0, <4>3, <4>5, <4>7 DEF LeadsBack
      <4> QED BY <1>3, <1>4, <2>5, <4>2, <4>5, <4>6, <4>8
    <3> QED BY <3>1, <3>2
  <2> QED BY <1>6, <2>1, <2>2 DEF HandlersFit
<1>12. Level(e, EnvOf(e), s, h, d, base, Len(s), hbase, Len(h))
  BY <1>10, <1>11 DEF Level
<1> QED BY <1>12

(* The operand that was waited for.                                        *)
LEMMA LevelAnswers ==
    ASSUME NEW c \in Code, NEW env, NEW stack \in Seq(Marks), NEW handlers \in Seq(Handlers),
           NEW d, NEW base \in Nat, NEW hbase \in Nat,
           Level(c, env, stack, handlers, d, base, Len(stack), hbase, Len(handlers)),
           NEW e, e = Open(c, "operand"),
           NEW s, s = Append(stack, Mark(e))
    PROVE  Level(e, env, s, handlers, d, base, Len(s), hbase, Len(handlers))
<1>1. PICK x \in Constructs : x = "operand"
  BY DEF Constructs
<1>2. x # "try" /\ x # "block"
  BY <1>1
<1>3. e = Open(c, x)
  BY <1>1
<1>4. Mark(e) \in Marks
  BY <1>3, OpenCode
<1>5. s \in Seq(Marks)
  BY ONLY <1>4, s = Append(stack, Mark(e)), stack \in Seq(Marks)
<1>6. EnvOf(e) = env
  <2>1. EnvOf(e) = EnvOf(c)
    BY <1>2, <1>3, OpenCode
  <2> QED BY <2>1 DEF Level
<1>7. x = "operand" => s = Append(stack, Mark(e))
  OBVIOUS
<1>8. Level(e, EnvOf(e), s, handlers, d, base, Len(s), hbase, Len(handlers))
  BY ONLY <1>1, <1>2, <1>3, <1>5, <1>7, LevelOpens, c \in Code,
          stack \in Seq(Marks), handlers \in Seq(Handlers), base \in Nat, hbase \in Nat,
          Level(c, env, stack, handlers, d, base, Len(stack), hbase, Len(handlers))
<1> QED BY <1>6, <1>8

(* Closing the last construct.                                             *)
LEMMA LevelCloses ==
    ASSUME NEW c \in Code, NEW env, NEW stack \in Seq(Marks), NEW handlers \in Seq(Handlers),
           NEW d, NEW base \in Nat, NEW hbase \in Nat,
           Level(c, env, stack, handlers, d, base, Len(stack), hbase, Len(handlers)),
           c.open # <<>>, NEW x, x = Last(c.open),
           NEW s, s = IF x = "operand" THEN Front(stack) ELSE stack,
           NEW h, h = IF x = "try" THEN Front(handlers) ELSE handlers,
           NEW env2, env2 = IF x = "block" THEN [env EXCEPT !.level = @ - 1] ELSE env
    PROVE  /\ Before(c) \in Code /\ Before(c).of = c.of
           /\ Before(c).preparing = c.preparing
           /\ x = "block" => env.level \in Nat \ {0}
           /\ x = "operand" => Len(stack) > base
           /\ x = "try" => Len(handlers) > hbase
           /\ Level(Before(c), env2, s, h, d, base, Len(s), hbase, Len(h))
<1>0. /\ c.open \in Seq(Constructs) /\ Len(c.open) \in Nat \ {0}
      /\ DOMAIN c.open = 1..Len(c.open)
  BY DEF Code
<1>1. PICK n : n = Len(c.open) - 1
  OBVIOUS
<1>2. n \in Nat
  BY <1>0, <1>1
<1>3. Len(c.open) = n + 1 /\ n \in 0..Len(c.open) /\ c.open[n + 1] = x
  BY <1>0, <1>1, <1>2 DEF Last
<1>4. [c EXCEPT !.open = SubSeq(@, 1, n)] = Before(c)
  BY <1>1 DEF Before, Front
<1>5. PICK top, htop : /\ top = base + Count(c.open, "operand", n)
                       /\ htop = hbase + Count(c.open, "try", n)
  OBVIOUS
<1>6. /\ Before(c) \in Code /\ Before(c).of = c.of /\ Before(c).preparing = c.preparing
      /\ top \in base..Len(stack) /\ htop \in hbase..Len(handlers)
      /\ Level(Before(c), [of |-> c.of, level |-> Count(c.open, "block", n)],
               SubSeq(stack, 1, top), SubSeq(handlers, 1, htop), d, base, top, hbase, htop)
  <2>1. Before(c) = [c EXCEPT !.open = SubSeq(@, 1, n)]
    BY <1>4
  <2> QED BY <1>3, <1>5, <2>1, LevelShort
<1>7. ASSUME NEW k
      PROVE  /\ Count(c.open, k, n) \in Nat
             /\ Count(c.open, k, n + 1) = IF x = k THEN Count(c.open, k, n) + 1
                                          ELSE Count(c.open, k, n)
  BY ONLY <1>2, <1>3, CountIsFinite, CountOneMore, ZenonT(60)
<1>8. /\ Len(stack) = base + Count(c.open, "operand", n + 1)
      /\ Len(handlers) = hbase + Count(c.open, "try", n + 1)
      /\ env = [of |-> c.of, level |-> Count(c.open, "block", n + 1)]
  BY <1>3 DEF Level, EnvOf, OperandsFit, HandlersFit, Blocks
<1>9. /\ Len(stack) = IF x = "operand" THEN top + 1 ELSE top
      /\ top \in Nat /\ top >= base
  <2>1. PICK a \in Nat : a = Count(c.open, "operand", n)
    BY <1>7
  <2>2. Count(c.open, "operand", n + 1) = IF x = "operand" THEN a + 1 ELSE a
    BY <1>7, <2>1
  <2>3. top = base + a
    BY <1>5, <2>1
  <2> QED BY <1>8, <2>2, <2>3
<1>10. /\ Len(handlers) = IF x = "try" THEN htop + 1 ELSE htop
       /\ htop \in Nat /\ htop >= hbase
  <2>1. PICK a \in Nat : a = Count(c.open, "try", n)
    BY <1>7
  <2>2. Count(c.open, "try", n + 1) = IF x = "try" THEN a + 1 ELSE a
    BY <1>7, <2>1
  <2>3. htop = hbase + a
    BY <1>5, <2>1
  <2> QED BY <1>8, <2>2, <2>3
<1>12. SubSeq(stack, 1, top) = s /\ Len(s) = top
  <2>1. CASE x = "operand"
    BY <1>9, <2>1 DEF Front
  <2>2. CASE x # "operand"
    BY <1>9, <2>2
  <2> QED BY <2>1, <2>2
<1>13. SubSeq(handlers, 1, htop) = h /\ Len(h) = htop
  <2>1. CASE x = "try"
    BY <1>10, <2>1 DEF Front
  <2>2. CASE x # "try"
    BY <1>10, <2>2
  <2> QED BY <2>1, <2>2
<1>14. /\ [of |-> c.of, level |-> Count(c.open, "block", n)]
             = env2
       /\ x = "block" => env.level \in Nat \ {0}
  BY <1>7, <1>8
<1>15. Level(Before(c), env2, s, h, d, base, Len(s), hbase, Len(h))
  BY ONLY <1>6, <1>12, <1>13, <1>14
<1>16. /\ x = "operand" => Len(stack) > base
       /\ x = "try" => Len(handlers) > hbase
  BY ONLY <1>9, <1>10, base \in Nat, hbase \in Nat
<1> QED BY ONLY <1>6, <1>14, <1>15, <1>16

(* The marks of the handlers a body has installed.                         *)
HandlersStand(handlers, from, to, d, base, top) ==
    /\ \A j \in from + 1..to : handlers[j].frames = d /\ handlers[j].depth \in base..top
    /\ \A i, j \in from + 1..to : i < j => handlers[i].depth <= handlers[j].depth

LEMMA LevelMarks ==
    ASSUME NEW c \in Code, NEW env, NEW stack, NEW handlers,
           NEW d \in Nat, NEW base \in Nat, NEW top \in Nat, NEW hbase \in Nat, NEW htop \in Nat,
           Level(c, env, stack, handlers, d, base, top, hbase, htop)
    PROVE  /\ base <= top /\ hbase <= htop
           /\ HandlersStand(handlers, hbase, htop, d, base, top)
<1>0. c.open \in Seq(Constructs) /\ Len(c.open) \in Nat /\ DOMAIN c.open = 1..Len(c.open)
  BY DEF Code
<1>1. PICK n \in Nat : n = Len(c.open)
  BY <1>0
<1>2. /\ top = base + Count(c.open, "operand", n)
      /\ htop = hbase + Count(c.open, "try", n)
  BY <1>1 DEF Level, EnvOf, OperandsFit, HandlersFit
<1>3. \A k : Count(c.open, k, n) \in Nat
  BY CountIsFinite
<1>4. base <= top /\ hbase <= htop
  BY <1>2, <1>3
<1>5. ASSUME NEW j \in hbase + 1..htop
      PROVE  \E i \in 1..n : /\ Count(c.open, "try", i) = j - hbase
                             /\ LeadsBack(handlers[j], c, i, d, base)
  <2>1. j - hbase \in 1..Count(c.open, "try", n)
    <3>1. PICK a \in Nat : a = Count(c.open, "try", n)
      BY <1>3
    <3> QED BY <1>2, <3>1
  <2>2. PICK i \in 1..n : c.open[i] = "try" /\ Count(c.open, "try", i) = j - hbase
    BY <2>1, CountReaches
  <2>3. hbase + Count(c.open, "try", i) = j
    BY <2>2
  <2> QED BY <1>0, <1>1, <2>2, <2>3 DEF Level, HandlersFit
<1>6. ASSUME NEW j \in hbase + 1..htop
      PROVE  /\ handlers[j].frames = d
             /\ handlers[j].depth \in base..top
  <2>1. PICK i \in 1..n : LeadsBack(handlers[j], c, i, d, base)
    BY <1>5
  <2>2. i - 1 \in Nat /\ i - 1 <= n
    OBVIOUS
  <2>3. /\ Count(c.open, "operand", i - 1) \in Nat
        /\ Count(c.open, "operand", i - 1) <= Count(c.open, "operand", n)
    BY <2>2, CountIsFinite, CountGrows
  <2>4. handlers[j].depth \in base..top
    BY <1>2, <1>3, <2>1, <2>3, SMTT(30) DEF LeadsBack
  <2> QED BY <2>1, <2>4 DEF LeadsBack
<1>7. ASSUME NEW i \in hbase + 1..htop, NEW j \in hbase + 1..htop, i < j
      PROVE  handlers[i].depth <= handlers[j].depth
  <2>1. PICK a \in 1..n : /\ Count(c.open, "try", a) = i - hbase
                          /\ LeadsBack(handlers[i], c, a, d, base)
    BY <1>5
  <2>2. PICK b \in 1..n : /\ Count(c.open, "try", b) = j - hbase
                          /\ LeadsBack(handlers[j], c, b, d, base)
    BY <1>5
  <2>3. a <= b
    <3> SUFFICES ASSUME b <= a PROVE Count(c.open, "try", b) <= Count(c.open, "try", a) => a <= b
      BY CountGrows, <1>7
    <3> QED BY <1>7, <2>1, <2>2
  <2>4. a - 1 \in Nat /\ b - 1 \in Nat /\ a - 1 <= b - 1
    BY <2>3
  <2>5. /\ Count(c.open, "operand", a - 1) <= Count(c.open, "operand", b - 1)
        /\ Count(c.open, "operand", a - 1) \in Nat /\ Count(c.open, "operand", b - 1) \in Nat
    BY <2>4, CountGrows, CountIsFinite
  <2> QED BY <2>1, <2>2, <2>5 DEF LeadsBack
<1> QED BY <1>4, <1>6, <1>7 DEF HandlersStand

(* A throw caught by the innermost try of a body.                          *)
LandedLevel(c, stack, handlers, d, base, hbase, hd, e, s, h) ==
    /\ hd = handlers[Len(handlers)]
    /\ e = [hd.target EXCEPT !.open = Append(@, "operand"), !.of = c.of]
    /\ s = Append(SubSeq(stack, 1, hd.depth), Mark(e))
    /\ h = Front(handlers)
    /\ e \in Code /\ e.of = c.of /\ e.preparing = c.preparing
    /\ hd.depth \in Nat /\ base <= hd.depth /\ hd.depth <= Len(stack)
    /\ Level(e, hd.env, s, h, d, base, Len(s), hbase, Len(h))

LEMMA LevelLands ==
    ASSUME NEW c \in Code, NEW env, NEW stack \in Seq(Marks), NEW handlers \in Seq(Handlers),
           NEW d, NEW base \in Nat, NEW hbase \in Nat,
           Level(c, env, stack, handlers, d, base, Len(stack), hbase, Len(handlers)),
           Len(handlers) > hbase
    PROVE  \E hd, e, s, h : LandedLevel(c, stack, handlers, d, base, hbase, hd, e, s, h)
<1>a. PICK hd : hd = handlers[Len(handlers)]
  OBVIOUS
<1>b. PICK e : e = [hd.target EXCEPT !.open = Append(@, "operand"), !.of = c.of]
  OBVIOUS
<1>c. PICK s, h : s = Append(SubSeq(stack, 1, hd.depth), Mark(e)) /\ h = Front(handlers)
  OBVIOUS
<1>0. c.open \in Seq(Constructs) /\ Len(c.open) \in Nat /\ DOMAIN c.open = 1..Len(c.open)
  BY DEF Code
<1>1. PICK n \in Nat : n = Len(c.open)
  BY <1>0
<1>2. Len(handlers) = hbase + Count(c.open, "try", n)
  BY <1>1 DEF Level, HandlersFit
<1>3. Count(c.open, "try", n) \in 1..Count(c.open, "try", n)
  <2>1. PICK a \in Nat : a = Count(c.open, "try", n)
    BY CountIsFinite
  <2> QED BY <1>2, <2>1
<1>4. PICK i \in 1..n : /\ c.open[i] = "try"
                        /\ Count(c.open, "try", i) = Count(c.open, "try", n)
  BY <1>3, CountReaches, SMTT(30)
<1>5. LeadsBack(hd, c, i, d, base)
  BY <1>a, <1>0, <1>1, <1>2, <1>4 DEF Level, HandlersFit
<1>6. PICK p : p = i - 1
  OBVIOUS
<1>7. p \in 0..Len(c.open) /\ i = p + 1 /\ p \in Nat
  BY ONLY <1>1, <1>6, i \in 1..n, n \in Nat
<1>8. PICK short : short = [c EXCEPT !.open = SubSeq(@, 1, p)]
  OBVIOUS
<1>9. hd.target = short /\ hd.frames = d /\ hd.depth = base + Count(c.open, "operand", p)
      /\ hd.env = [of |-> c.of, level |-> Count(c.open, "block", p)]
  BY <1>5, <1>6, <1>8 DEF LeadsBack
<1>10. hbase + Count(c.open, "try", p) = Len(handlers) - 1
  <2>1. Count(c.open, "try", p) \in Nat
        /\ Count(c.open, "try", p + 1) = Count(c.open, "try", p) + 1
    BY <1>4, <1>7, CountIsFinite, CountOneMore
  <2>2. PICK a \in Nat : a = Count(c.open, "try", p)
    BY <2>1
  <2> QED BY <1>2, <1>4, <1>7, <2>1, <2>2
<1>11. /\ short \in Code /\ short.of = c.of /\ short.preparing = c.preparing
       /\ hd.depth \in base..Len(stack) /\ Len(handlers) - 1 \in hbase..Len(handlers)
       /\ Level(short, hd.env, SubSeq(stack, 1, hd.depth), SubSeq(handlers, 1, Len(handlers) - 1),
                d, base, hd.depth, hbase, Len(handlers) - 1)
  <2>1. Len(handlers) - 1 = hbase + Count(c.open, "try", p)
    BY <1>10
  <2>2. PICK htop : htop = Len(handlers) - 1
    OBVIOUS
  <2>3. hd.env = [of |-> c.of, level |-> Count(c.open, "block", p)]
    BY <1>9
  <2>4. PICK top : top = hd.depth
    OBVIOUS
  <2>5. htop = hbase + Count(c.open, "try", p) /\ top = base + Count(c.open, "operand", p)
    BY <1>9, <2>1, <2>2, <2>4
  <2>6. /\ short \in Code /\ short.of = c.of /\ short.preparing = c.preparing
        /\ top \in base..Len(stack) /\ htop \in hbase..Len(handlers)
        /\ Level(short, [of |-> c.of, level |-> Count(c.open, "block", p)],
                 SubSeq(stack, 1, top), SubSeq(handlers, 1, htop), d, base, top, hbase, htop)
    BY <1>7, <1>8, <2>5, LevelShort, SMTT(30)
  <2> QED BY ONLY <2>2, <2>3, <2>4, <2>6
<1>12. PICK t : t = SubSeq(stack, 1, hd.depth)
  OBVIOUS
<1>13. t \in Seq(Marks) /\ Len(t) = hd.depth /\ s = Append(t, Mark(e))
  BY <1>c, <1>11, <1>12
<1>14. h \in Seq(Handlers) /\ Len(h) = Len(handlers) - 1
       /\ h = SubSeq(handlers, 1, Len(handlers) - 1)
  <2>1. PICK a \in Nat : a = Len(handlers) - 1
    BY ONLY <1>11, hbase \in Nat
  <2>2. h = SubSeq(handlers, 1, a)
    BY ONLY <1>c, <2>1 DEF Front
  <2>3. Len(handlers) = a + 1
    BY ONLY <2>1, handlers \in Seq(Handlers)
  <2>4. h \in Seq(Handlers) /\ Len(h) = a
    BY ONLY <2>2, <2>3, a \in Nat, handlers \in Seq(Handlers)
  <2> QED BY ONLY <2>1, <2>2, <2>4
<1>15. Level(short, hd.env, t, h, d, base, Len(t), hbase, Len(h))
  BY <1>11, <1>12, <1>13, <1>14
<1>16. e = Open(short, "operand")
  BY <1>b, <1>9, <1>11 DEF Open, Code
<1>17. "operand" \in Constructs
  BY DEF Constructs
<1>18. e \in Code /\ e.of = c.of /\ e.preparing = c.preparing
  BY ONLY <1>11, <1>16, <1>17, OpenCode
<1>20. Level(e, hd.env, s, h, d, base, Len(s), hbase, Len(h))
  BY ONLY <1>11, <1>13, <1>14, <1>15, <1>16, LevelAnswers,
                  base \in Nat, hbase \in Nat
<1>21. hd.depth \in Nat /\ base <= hd.depth /\ hd.depth <= Len(stack)
  BY <1>11
<1>22. LandedLevel(c, stack, handlers, d, base, hbase, hd, e, s, h)
  BY ONLY <1>a, <1>b, <1>c, <1>18, <1>20, <1>21 DEF LandedLevel
<1> QED BY <1>22

LEMMA SumIsAbove ==
    ASSUME NEW b \in Nat, NEW t \in Nat, NEW j \in 1..t - b
    PROVE  b + j \in b + 1..t
OBVIOUS

(* A body goes on elsewhere: over other bases, at another depth.           *)
MovedTo(stack, handlers, base, top, hbase, htop, s, h, e, base2, top2, hbase2, htop2) ==
    /\ top2 = base2 + (top - base) /\ htop2 = hbase2 + (htop - hbase)
    /\ \A i \in 1..top - base : s[base2 + i] = stack[base + i]
    /\ \A j \in 1..htop - hbase :
          /\ h[hbase2 + j].target = handlers[hbase + j].target
          /\ h[hbase2 + j].env = handlers[hbase + j].env
          /\ h[hbase2 + j].frames = e
          /\ h[hbase2 + j].depth = handlers[hbase + j].depth - base + base2

LEMMA LevelMoves ==
    ASSUME NEW c \in Code, NEW env, NEW stack, NEW handlers,
           NEW d, NEW base \in Nat, NEW top \in Nat, NEW hbase \in Nat, NEW htop \in Nat,
           Level(c, env, stack, handlers, d, base, top, hbase, htop),
           NEW e, NEW base2 \in Nat, NEW hbase2 \in Nat, NEW s, NEW h, NEW top2, NEW htop2,
           MovedTo(stack, handlers, base, top, hbase, htop, s, h, e, base2, top2, hbase2, htop2)
    PROVE  Level(c, env, s, h, e, base2, top2, hbase2, htop2)
<1>a. /\ top2 = base2 + (top - base) /\ htop2 = hbase2 + (htop - hbase)
      /\ \A i \in 1..top - base : s[base2 + i] = stack[base + i]
      /\ \A j \in 1..htop - hbase :
            /\ h[hbase2 + j].target = handlers[hbase + j].target
            /\ h[hbase2 + j].env = handlers[hbase + j].env
            /\ h[hbase2 + j].frames = e
            /\ h[hbase2 + j].depth = handlers[hbase + j].depth - base + base2
  BY DEF MovedTo
<1>0. c.open \in Seq(Constructs) /\ Len(c.open) \in Nat /\ DOMAIN c.open = 1..Len(c.open)
  BY DEF Code
<1>1. PICK n \in Nat : n = Len(c.open)
  BY <1>0
<1>2. /\ top = base + Count(c.open, "operand", n)
      /\ htop = hbase + Count(c.open, "try", n)
      /\ env = [of |-> c.of, level |-> Blocks(c.open)]
  BY <1>1 DEF Level, EnvOf, OperandsFit, HandlersFit
<1>3. \A k : Count(c.open, k, n) \in Nat
  BY CountIsFinite
<1>4. top - base = Count(c.open, "operand", n) /\ htop - hbase = Count(c.open, "try", n)
  BY <1>2, <1>3
<1>5. OperandsFit(s, c, base2, base2 + (top - base))
  <2>1. ASSUME NEW i \in 1..n, c.open[i] = "operand"
        PROVE  s[base2 + Count(c.open, "operand", i)] = [of |-> c.of, at |-> i]
    <3>1. Count(c.open, "operand", i) \in 1..top - base
      <4>1. /\ Count(c.open, "operand", i) \in Nat /\ Count(c.open, "operand", i) >= 1
            /\ Count(c.open, "operand", i) <= Count(c.open, "operand", n)
        BY <2>1, CountAt
      <4> QED BY <1>3, <1>4, <4>1
    <3>2. stack[base + Count(c.open, "operand", i)] = [of |-> c.of, at |-> i]
      BY <1>0, <1>1, <2>1 DEF Level, OperandsFit
    <3> QED BY <1>a, <3>1, <3>2
  <2> QED BY <1>0, <1>1, <1>4, <2>1 DEF OperandsFit
<1>6. HandlersFit(h, c, e, hbase2, base2, hbase2 + (htop - hbase))
  <2>1. ASSUME NEW i \in 1..n, c.open[i] = "try"
        PROVE  LeadsBack(h[hbase2 + Count(c.open, "try", i)], c, i, e, base2)
    <3>1. PICK j \in 1..htop - hbase : j = Count(c.open, "try", i)
      <4>1. /\ Count(c.open, "try", i) \in Nat /\ Count(c.open, "try", i) >= 1
            /\ Count(c.open, "try", i) <= Count(c.open, "try", n)
        BY <2>1, CountAt
      <4> QED BY <1>3, <1>4, <4>1
    <3>2. LeadsBack(handlers[hbase + j], c, i, d, base)
      BY <1>0, <1>1, <2>1, <3>1 DEF Level, HandlersFit
    <3>3. PICK a \in Nat : a = Count(c.open, "operand", i - 1)
      <4>1. i - 1 \in Nat
        OBVIOUS
      <4> QED BY <4>1, CountIsFinite
    <3>4. handlers[hbase + j].depth = base + a
      BY <3>2, <3>3 DEF LeadsBack
    <3>5. h[hbase2 + j].depth = base2 + a
      BY <1>a, <3>1, <3>4
    <3> QED BY <1>a, <3>1, <3>2, <3>3, <3>5 DEF LeadsBack
  <2> QED BY <1>0, <1>1, <1>4, <2>1 DEF HandlersFit
<1> QED BY <1>a, <1>2, <1>5, <1>6 DEF Level, EnvOf

-----------------------------------------------------------------------------
(* One execution.                                                          *)

LEMMA VmTypes ==
    ASSUME NEW v \in Vms
    PROVE  /\ v.stack \in Seq(Marks) /\ v.handlers \in Seq(Handlers)
           /\ v.frames \in Seq(Frames) /\ v.references \in Seq(Marks)
           /\ v.regs \in Registers /\ v.regs.env \in Environment /\ v.current \in Code
           /\ v.floor \in Floors /\ v.floor.frames \in Nat /\ v.floor.handlers \in Nat
           /\ Len(v.stack) \in Nat /\ Len(v.handlers) \in Nat /\ Len(v.frames) \in Nat
           /\ DOMAIN v.stack = 1..Len(v.stack) /\ DOMAIN v.handlers = 1..Len(v.handlers)
           /\ DOMAIN v.frames = 1..Len(v.frames)
           /\ \A i \in 1..Len(v.frames) :
                 /\ v.frames[i] \in Frames
                 /\ v.frames[i].stack_base \in Nat /\ v.frames[i].handlers_base \in Nat
                 /\ v.frames[i].code \in Code /\ v.frames[i].regs \in Registers
                 /\ v.frames[i].regs.env \in Environment /\ v.frames[i].generator \in Nat
           /\ \A j \in 1..Len(v.handlers) :
                 /\ v.handlers[j] \in Handlers
                 /\ v.handlers[j].target \in Code /\ v.handlers[j].env \in Environment
                 /\ v.handlers[j].frames \in Nat /\ v.handlers[j].depth \in Nat
<1>1. /\ v.stack \in Seq(Marks) /\ v.handlers \in Seq(Handlers)
      /\ v.frames \in Seq(Frames) /\ v.references \in Seq(Marks)
      /\ v.regs \in Registers /\ v.current \in Code /\ v.floor \in Floors
  BY DEF Vms
<1>2. v.regs.env \in Environment /\ v.floor.frames \in Nat /\ v.floor.handlers \in Nat
  BY <1>1 DEF Registers, Floors
<1>3. /\ Len(v.stack) \in Nat /\ Len(v.handlers) \in Nat /\ Len(v.frames) \in Nat
      /\ DOMAIN v.stack = 1..Len(v.stack) /\ DOMAIN v.handlers = 1..Len(v.handlers)
      /\ DOMAIN v.frames = 1..Len(v.frames)
  BY <1>1
<1>4. ASSUME NEW i \in 1..Len(v.frames)
      PROVE  /\ v.frames[i] \in Frames
             /\ v.frames[i].stack_base \in Nat /\ v.frames[i].handlers_base \in Nat
             /\ v.frames[i].code \in Code /\ v.frames[i].regs \in Registers
             /\ v.frames[i].regs.env \in Environment /\ v.frames[i].generator \in Nat
  <2>1. v.frames[i] \in Frames
    BY <1>1
  <2> QED BY <2>1 DEF Frames, Registers
<1>5. ASSUME NEW j \in 1..Len(v.handlers)
      PROVE  /\ v.handlers[j] \in Handlers
             /\ v.handlers[j].target \in Code /\ v.handlers[j].env \in Environment
             /\ v.handlers[j].frames \in Nat /\ v.handlers[j].depth \in Nat
  <2>1. v.handlers[j] \in Handlers
    BY <1>1
  <2> QED BY <2>1 DEF Handlers
<1> QED BY ONLY <1>1, <1>2, <1>3, <1>4, <1>5

LEMMA CodeTypes ==
    ASSUME NEW c \in Code
    PROVE  /\ c.open \in Seq(Constructs) /\ Len(c.open) \in Nat
           /\ c.of \in 0..MaxActivations /\ c.preparing \in BOOLEAN
           /\ Before(c).of = c.of /\ Before(c).preparing = c.preparing
           /\ c.open # <<>> => Before(c) \in Code
           /\ (c = NoCode) => c.of = 0
<1>1. /\ c.open \in Seq(Constructs) /\ Len(c.open) \in Nat
      /\ c.of \in 0..MaxActivations /\ c.preparing \in BOOLEAN
  BY DEF Code
<1>2. Before(c).of = c.of /\ Before(c).preparing = c.preparing
  BY DEF Before, Code
<1>3. c.open # <<>> => Before(c) \in Code
  <2>1. c.open # <<>> => Front(c.open) \in Seq(Constructs)
    BY <1>1 DEF Front
  <2> QED BY <1>1, <2>1 DEF Before, Code
<1>4. (c = NoCode) => c.of = 0
  BY DEF NoCode, Nobody
<1> QED BY <1>1, <1>2, <1>3, <1>4

(* The running body of an execution, and where it begins.                  *)
Runs(v, entry, o, m, D, base, hbase) ==
    /\ v \in Vms /\ D \in Nat /\ D >= v.floor.frames /\ D = Len(v.frames)
    /\ base \in Nat /\ hbase \in Nat
    /\ base = BaseAt(v, entry, D) /\ hbase = HandlersBaseAt(v, D)
    /\ v.current \in Code /\ v.current.of \in 1..m
    /\ (o[v.current.of].kind \in Bodies) <=> D > v.floor.frames
    /\ v.current.preparing => o[v.current.of].kind = "generator"
    /\ D > v.floor.frames /\ v.frames[D].generator # Nobody
          => v.current.of = v.frames[D].generator /\ ~v.current.preparing
    /\ base >= entry /\ base <= Len(v.stack)
    /\ hbase >= v.floor.handlers /\ hbase <= Len(v.handlers)
    /\ Level(v.current, v.regs.env, v.stack, v.handlers, D,
             base, Len(v.stack), hbase, Len(v.handlers))

LEMMA FineDepth ==
    ASSUME NEW v, NEW entry, NEW chunk \in BOOLEAN, NEW o, NEW m,
           Fine(v, entry, chunk, o, m)
    PROVE  Len(v.frames) \in Lowest(v, chunk)..Len(v.frames)
BY VmTypes DEF Fine, Lowest, Bottom, MarksInOrder

LEMMA FineTop ==
    ASSUME NEW v, NEW entry \in Nat, NEW chunk \in BOOLEAN, NEW o, NEW m \in Nat,
           Fine(v, entry, chunk, o, m)
    PROVE  Runs(v, entry, o, m, Len(v.frames), BaseAt(v, entry, Len(v.frames)),
                HandlersBaseAt(v, Len(v.frames)))
<1>0. PICK D, base, hbase : D = Len(v.frames)
                     /\ base = BaseAt(v, entry, D) /\ hbase = HandlersBaseAt(v, D)
  OBVIOUS
<1>a. D \in Lowest(v, chunk)..Len(v.frames)
  BY <1>0, FineDepth
<1>1. v \in Vms /\ MarksInOrder(v, entry) /\ Sits(v, entry, D, o, m)
  BY <1>a DEF Fine
<1>2. D \in Nat /\ D >= v.floor.frames /\ v.floor.frames \in Nat /\ v.floor.handlers \in Nat
  BY <1>0, <1>1, <1>a, VmTypes DEF Lowest
<1>3. /\ base \in Nat /\ base >= entry /\ base <= Len(v.stack)
      /\ hbase \in Nat /\ hbase >= v.floor.handlers /\ hbase <= Len(v.handlers)
  BY <1>0, <1>1, <1>2, VmTypes, SMTT(30) DEF BaseAt, HandlersBaseAt, MarksInOrder
<1>4. /\ CodeAt(v, D) = v.current /\ EnvAt(v, D) = v.regs.env
      /\ TopAt(v, D) = Len(v.stack) /\ HandlersTopAt(v, D) = Len(v.handlers)
  BY <1>0 DEF CodeAt, EnvAt, TopAt, HandlersTopAt
<1>5. Level(v.current, v.regs.env, v.stack, v.handlers, D,
            base, Len(v.stack), hbase, Len(v.handlers))
  BY <1>0, <1>1, <1>4 DEF Sits
<1>6. Belongs(v, D, o, m)
  BY <1>1 DEF Sits
<1>7. /\ v.current \in Code /\ v.current.of \in 1..m
      /\ (o[v.current.of].kind \in Bodies) <=> D > v.floor.frames
      /\ v.current.preparing => o[v.current.of].kind = "generator"
      /\ D > v.floor.frames /\ v.frames[D].generator # Nobody
            => v.current.of = v.frames[D].generator /\ ~v.current.preparing
  BY <1>4, <1>6 DEF Belongs
<1>8. Runs(v, entry, o, m, D, base, hbase)
  BY <1>0, <1>1, <1>2, <1>3, <1>5, <1>7 DEF Runs
<1> QED BY <1>0, <1>8
(* The waiting bodies of an execution v are those of w.                    *)
LEMMA SitsAlike ==
    ASSUME NEW v \in Vms, NEW w \in Vms, NEW entry \in Nat, NEW o, NEW m \in Nat,
           NEW D \in Nat, w.floor = v.floor,
           D <= Len(v.frames), D <= Len(w.frames),
           \A i \in 1..D : w.frames[i] = v.frames[i],
           NEW d \in Nat, d < D, d >= v.floor.frames,
           Sits(v, entry, d, o, m),
           v.frames[D].stack_base <= Len(v.stack), v.frames[D].stack_base <= Len(w.stack),
           v.frames[D].handlers_base <= Len(v.handlers),
           v.frames[D].handlers_base <= Len(w.handlers),
           \A i \in 1..v.frames[D].stack_base : w.stack[i] = v.stack[i],
           \A i \in 1..v.frames[D].handlers_base : w.handlers[i] = v.handlers[i],
           v.frames[d + 1].stack_base <= v.frames[D].stack_base,
           v.frames[d + 1].handlers_base <= v.frames[D].handlers_base,
           d > v.floor.frames \/ entry <= v.frames[d + 1].stack_base
    PROVE  Sits(w, entry, d, o, m)
<1>1. d + 1 \in 1..D /\ d + 1 \in 1..Len(v.frames) /\ d + 1 \in 1..Len(w.frames)
      /\ d # Len(v.frames) /\ d # Len(w.frames) /\ d < Len(w.frames) /\ d < Len(v.frames)
  BY VmTypes, SMTT(30)
<1>2. w.frames[d + 1] = v.frames[d + 1] /\ (d > v.floor.frames => w.frames[d] = v.frames[d])
  <2>1. d > v.floor.frames => d \in 1..D
    BY VmTypes
  <2> QED BY <1>1, <2>1
<1>3. /\ CodeAt(w, d) = CodeAt(v, d) /\ EnvAt(w, d) = EnvAt(v, d)
      /\ TopAt(w, d) = v.frames[d + 1].stack_base
      /\ TopAt(v, d) = v.frames[d + 1].stack_base
      /\ HandlersTopAt(w, d) = v.frames[d + 1].handlers_base
      /\ HandlersTopAt(v, d) = v.frames[d + 1].handlers_base
  BY <1>1, <1>2 DEF CodeAt, EnvAt, TopAt, HandlersTopAt
<1>4. /\ BaseAt(w, entry, d) = BaseAt(v, entry, d)
      /\ HandlersBaseAt(w, d) = HandlersBaseAt(v, d)
  BY <1>1, <1>2, VmTypes, SMTT(30) DEF BaseAt, HandlersBaseAt
<1>5. PICK c, env, base, hbase, top, htop :
         /\ c = CodeAt(v, d) /\ env = EnvAt(v, d)
         /\ base = BaseAt(v, entry, d) /\ hbase = HandlersBaseAt(v, d)
         /\ top = v.frames[d + 1].stack_base /\ htop = v.frames[d + 1].handlers_base
  OBVIOUS
<1>6. base \in Nat /\ hbase \in Nat /\ top \in Nat /\ htop \in Nat
  <2>1. d > v.floor.frames => d \in 1..Len(v.frames)
    BY VmTypes, SMTT(30)
  <2>2. base \in Nat
    BY <1>5, <2>1, VmTypes DEF BaseAt
  <2>3. hbase \in Nat
    BY <1>5, <2>1, VmTypes DEF HandlersBaseAt
  <2> QED BY <1>1, <1>5, <2>2, <2>3, VmTypes
<1>7. c \in Code /\ Level(c, env, v.stack, v.handlers, d, base, top, hbase, htop)
  BY <1>3, <1>5 DEF Sits, Belongs
<1>8. /\ \A i \in base + 1..top : w.stack[i] = v.stack[i]
      /\ \A j \in hbase + 1..htop : w.handlers[j] = v.handlers[j]
  <2>1. D \in 1..Len(v.frames)
    BY <1>1
  <2>2. v.frames[D].stack_base \in Nat /\ v.frames[D].handlers_base \in Nat
    BY <2>1, VmTypes
  <2>3. top <= v.frames[D].stack_base /\ htop <= v.frames[D].handlers_base
    BY <1>5
  <2>4. PICK t \in Nat, u \in Nat : t = v.frames[D].stack_base /\ u = v.frames[D].handlers_base
    BY <2>2
  <2>5. /\ \A i \in 1..t : w.stack[i] = v.stack[i]
        /\ \A i \in 1..u : w.handlers[i] = v.handlers[i]
    BY <2>4
  <2>6. top <= t /\ htop <= u
    BY <2>3, <2>4
  <2> QED BY ONLY <1>6, <2>4, <2>5, <2>6
<1>9. Level(c, env, w.stack, w.handlers, d, base, top, hbase, htop)
  BY ONLY <1>6, <1>7, <1>8, LevelAlike
<1>10. Belongs(w, d, o, m)
  BY <1>2, <1>3 DEF Sits, Belongs
<1>11. Awaiting(w.frames[d + 1].code)
  BY <1>1, <1>2 DEF Sits
<1> QED BY <1>3, <1>4, <1>5, <1>9, <1>10, <1>11 DEF Sits

(* What MarksInOrder says of one mark, and of two.                         *)
LEMMA FrameMarks ==
    ASSUME NEW v \in Vms, NEW entry \in Nat, MarksInOrder(v, entry),
           NEW i \in 1..Len(v.frames)
    PROVE  /\ v.frames[i].stack_base \in Nat /\ v.frames[i].handlers_base \in Nat
           /\ v.frames[i].stack_base <= Len(v.stack)
           /\ v.frames[i].handlers_base <= Len(v.handlers)
           /\ i <= v.floor.frames => /\ v.frames[i].stack_base <= entry
                                     /\ v.frames[i].handlers_base <= v.floor.handlers
           /\ i > v.floor.frames => /\ v.frames[i].stack_base >= entry
                                    /\ v.frames[i].handlers_base >= v.floor.handlers
<1>1. /\ i \in DOMAIN v.frames /\ v.frames[i].stack_base \in Nat
      /\ v.frames[i].handlers_base \in Nat
  BY VmTypes
<1> QED BY <1>1 DEF MarksInOrder

LEMMA FramePair ==
    ASSUME NEW v \in Vms, NEW entry \in Nat, MarksInOrder(v, entry),
           NEW i \in 1..Len(v.frames), NEW j \in 1..Len(v.frames), i <= j
    PROVE  /\ v.frames[i].stack_base <= v.frames[j].stack_base
           /\ v.frames[i].handlers_base <= v.frames[j].handlers_base
<1>1. i \in DOMAIN v.frames /\ j \in DOMAIN v.frames
  BY VmTypes
<1>2. CASE i < j
  BY <1>1, <1>2 DEF MarksInOrder
<1>3. CASE i = j
  BY <1>3, VmTypes
<1> QED BY <1>2, <1>3

LEMMA HandlerMarks ==
    ASSUME NEW v \in Vms, NEW entry \in Nat, MarksInOrder(v, entry),
           NEW j \in 1..Len(v.handlers)
    PROVE  /\ v.handlers[j].frames \in Nat /\ v.handlers[j].depth \in Nat
           /\ v.handlers[j].frames <= Len(v.frames) /\ v.handlers[j].depth <= Len(v.stack)
           /\ j <= v.floor.handlers => /\ v.handlers[j].frames <= v.floor.frames
                                       /\ v.handlers[j].depth <= entry
           /\ j > v.floor.handlers => /\ v.handlers[j].frames >= v.floor.frames
                                      /\ v.handlers[j].depth >= entry
<1>1. /\ j \in DOMAIN v.handlers /\ v.handlers[j].frames \in Nat
      /\ v.handlers[j].depth \in Nat
  BY VmTypes
<1> QED BY <1>1 DEF MarksInOrder

LEMMA HandlerPair ==
    ASSUME NEW v \in Vms, NEW entry \in Nat, MarksInOrder(v, entry),
           NEW i \in 1..Len(v.handlers), NEW j \in 1..Len(v.handlers), i <= j
    PROVE  /\ v.handlers[i].frames <= v.handlers[j].frames
           /\ v.handlers[i].depth <= v.handlers[j].depth
<1>1. i \in DOMAIN v.handlers /\ j \in DOMAIN v.handlers
  BY VmTypes
<1>2. CASE i < j
  BY <1>1, <1>2 DEF MarksInOrder
<1>3. CASE i = j
  BY <1>3, VmTypes
<1> QED BY <1>2, <1>3

LEMMA CrossMarks ==
    ASSUME NEW v \in Vms, NEW entry \in Nat, MarksInOrder(v, entry),
           NEW i \in 1..Len(v.frames), NEW j \in 1..Len(v.handlers)
    PROVE  /\ j <= v.frames[i].handlers_base
                 => /\ v.handlers[j].frames < i
                    /\ v.handlers[j].depth <= v.frames[i].stack_base
           /\ j > v.frames[i].handlers_base
                 => /\ v.handlers[j].frames >= i
                    /\ v.handlers[j].depth >= v.frames[i].stack_base
<1>1. /\ i \in DOMAIN v.frames /\ j \in DOMAIN v.handlers
      /\ v.frames[i].handlers_base \in Nat /\ j \in Nat
  BY VmTypes
<1>2. IF j <= v.frames[i].handlers_base
      THEN v.handlers[j].frames < i /\ v.handlers[j].depth <= v.frames[i].stack_base
      ELSE v.handlers[j].frames >= i /\ v.handlers[j].depth >= v.frames[i].stack_base
  BY <1>1 DEF MarksInOrder
<1> QED BY <1>1, <1>2

(* MarksInOrder from what it says of one mark, and of two.                 *)
LEMMA MarksAre ==
    ASSUME NEW v \in Vms, NEW entry \in Nat,
           v.floor.frames <= Len(v.frames), v.floor.handlers <= Len(v.handlers),
           entry <= Len(v.stack),
           \A i \in 1..Len(v.frames) :
              /\ v.frames[i].stack_base <= Len(v.stack)
              /\ v.frames[i].handlers_base <= Len(v.handlers)
              /\ i <= v.floor.frames => /\ v.frames[i].stack_base <= entry
                                        /\ v.frames[i].handlers_base <= v.floor.handlers
              /\ i > v.floor.frames => /\ v.frames[i].stack_base >= entry
                                       /\ v.frames[i].handlers_base >= v.floor.handlers,
           \A i, j \in 1..Len(v.frames) : i < j =>
              /\ v.frames[i].stack_base <= v.frames[j].stack_base
              /\ v.frames[i].handlers_base <= v.frames[j].handlers_base,
           \A j \in 1..Len(v.handlers) :
              /\ v.handlers[j].frames <= Len(v.frames) /\ v.handlers[j].depth <= Len(v.stack)
              /\ j <= v.floor.handlers => /\ v.handlers[j].frames <= v.floor.frames
                                          /\ v.handlers[j].depth <= entry
              /\ j > v.floor.handlers => /\ v.handlers[j].frames >= v.floor.frames
                                         /\ v.handlers[j].depth >= entry,
           \A i, j \in 1..Len(v.handlers) : i < j =>
              /\ v.handlers[i].frames <= v.handlers[j].frames
              /\ v.handlers[i].depth <= v.handlers[j].depth,
           \A i \in 1..Len(v.frames) : \A j \in 1..Len(v.handlers) :
              /\ j <= v.frames[i].handlers_base
                    => /\ v.handlers[j].frames < i
                       /\ v.handlers[j].depth <= v.frames[i].stack_base
              /\ j > v.frames[i].handlers_base
                    => /\ v.handlers[j].frames >= i
                       /\ v.handlers[j].depth >= v.frames[i].stack_base
    PROVE  MarksInOrder(v, entry)
<1>1. DOMAIN v.frames = 1..Len(v.frames) /\ DOMAIN v.handlers = 1..Len(v.handlers)
  BY VmTypes
<1>2. ASSUME NEW i \in 1..Len(v.frames), NEW j \in 1..Len(v.handlers)
      PROVE  IF j <= v.frames[i].handlers_base
             THEN v.handlers[j].frames < i /\ v.handlers[j].depth <= v.frames[i].stack_base
             ELSE v.handlers[j].frames >= i /\ v.handlers[j].depth >= v.frames[i].stack_base
  <2>1. v.frames[i].handlers_base \in Nat /\ j \in Nat
    BY VmTypes
  <2>2. CASE j <= v.frames[i].handlers_base
    BY <2>2
  <2>3. CASE j > v.frames[i].handlers_base
    BY <2>1, <2>3
  <2> QED BY <2>1, <2>2, <2>3
<1> QED BY <1>1, <1>2 DEF MarksInOrder

(* An execution comes to a body of its own, what is above it is gone, and  *)
(* the body has other constructs open: by a step of its own code, a        *)
(* return, a throw.                                                        *)
Settled(v, w, entry, D) ==
    /\ w.floor = v.floor
    /\ Len(w.frames) = D
    /\ \A i \in 1..D : w.frames[i] = v.frames[i]
    /\ BaseAt(v, entry, D) <= Len(w.stack)
    /\ \A i \in 1..BaseAt(v, entry, D) : w.stack[i] = v.stack[i]
    /\ HandlersBaseAt(v, D) <= Len(w.handlers)
    /\ \A j \in 1..HandlersBaseAt(v, D) : w.handlers[j] = v.handlers[j]

(* What is below an execution stays.                                       *)
Keeps(v, w, entry) ==
    /\ w.floor = v.floor
    /\ v.floor.frames <= Len(w.frames) /\ v.floor.handlers <= Len(w.handlers)
    /\ entry <= Len(w.stack)
    /\ \A i \in 1..entry : w.stack[i] = v.stack[i]
    /\ \A i \in 1..v.floor.frames : w.frames[i] = v.frames[i]
    /\ \A j \in 1..v.floor.handlers : w.handlers[j] = v.handlers[j]

LEMMA SettledMarks ==
    ASSUME NEW v \in Vms, NEW w \in Vms, NEW entry \in Nat,
           MarksInOrder(v, entry),
           NEW D \in Nat, D >= v.floor.frames, D <= Len(v.frames),
           Settled(v, w, entry, D),
           NEW base, base = BaseAt(v, entry, D),
           NEW hbase, hbase = HandlersBaseAt(v, D),
           HandlersStand(w.handlers, hbase, Len(w.handlers), D, base, Len(w.stack))
    PROVE  MarksInOrder(w, entry)
<1>a. /\ \A j \in hbase + 1..Len(w.handlers) :
            /\ w.handlers[j].frames = D
            /\ w.handlers[j].depth \in base..Len(w.stack)
      /\ \A i, j \in hbase + 1..Len(w.handlers) :
            i < j => w.handlers[i].depth <= w.handlers[j].depth
  BY DEF HandlersStand
<1>0. /\ base \in Nat /\ hbase \in Nat /\ base >= entry /\ hbase >= v.floor.handlers
      /\ base <= Len(v.stack) /\ hbase <= Len(v.handlers)
      /\ D > v.floor.frames => base = v.frames[D].stack_base /\ hbase = v.frames[D].handlers_base
      /\ D = v.floor.frames => base = entry /\ hbase = v.floor.handlers
      /\ D \in Nat /\ v.floor.frames \in Nat /\ v.floor.handlers \in Nat
  <2>1. CASE D = v.floor.frames
    BY <2>1, VmTypes DEF BaseAt, HandlersBaseAt, MarksInOrder
  <2>2. CASE D > v.floor.frames
    <3>1. D \in 1..Len(v.frames)
      BY <2>2, VmTypes
    <3> QED BY <2>2, <3>1, FrameMarks, VmTypes DEF BaseAt, HandlersBaseAt
  <2> QED BY <2>1, <2>2, VmTypes
<1>1. /\ Len(w.frames) = D /\ w.floor = v.floor
      /\ Len(w.handlers) \in Nat /\ Len(w.stack) \in Nat
      /\ base <= Len(w.stack) /\ hbase <= Len(w.handlers)
      /\ \A i \in 1..D : w.frames[i] = v.frames[i] /\ i \in 1..Len(v.frames)
      /\ \A j \in 1..hbase : w.handlers[j] = v.handlers[j] /\ j \in 1..Len(v.handlers)
  BY <1>0, VmTypes, SMTT(30) DEF Settled
<1>2. ASSUME NEW i \in 1..D
      PROVE  /\ v.frames[i].stack_base \in Nat /\ v.frames[i].handlers_base \in Nat
             /\ v.frames[i].stack_base <= base /\ v.frames[i].handlers_base <= hbase
  <2>1. i \in 1..Len(v.frames) /\ i <= D
    BY <1>1
  <2>2. v.frames[i].stack_base \in Nat /\ v.frames[i].handlers_base \in Nat
    BY <2>1, FrameMarks
  <2>3. CASE D = v.floor.frames
    BY <1>0, <2>1, <2>3, FrameMarks
  <2>4. CASE D > v.floor.frames
    <3>1. D \in 1..Len(v.frames)
      BY <2>4, <1>0
    <3> QED BY <1>0, <2>1, <2>2, <2>4, <3>1, FramePair
  <2> QED BY <1>0, <2>2, <2>3, <2>4
<1>3. ASSUME NEW j \in 1..hbase
      PROVE  /\ v.handlers[j].frames \in Nat /\ v.handlers[j].depth \in Nat
             /\ v.handlers[j].frames <= D /\ v.handlers[j].depth <= base
  <2>1. j \in 1..Len(v.handlers) /\ j <= hbase
    BY <1>1
  <2>2. v.handlers[j].frames \in Nat /\ v.handlers[j].depth \in Nat
    BY <2>1, HandlerMarks
  <2>3. CASE D = v.floor.frames
    BY <1>0, <2>1, <2>3, HandlerMarks
  <2>4. CASE D > v.floor.frames
    <3>1. D \in 1..Len(v.frames)
      BY <2>4, <1>0
    <3>2. v.handlers[j].frames < D /\ v.handlers[j].depth <= v.frames[D].stack_base
      BY <1>0, <2>1, <2>4, <3>1, CrossMarks
    <3> QED BY <1>0, <2>2, <2>4, <3>2, SMTT(30)
  <2> QED BY <1>0, <2>2, <2>3, <2>4
<1>4. \A j \in 1..Len(w.handlers) : j \in 1..hbase \/ (j \in hbase + 1..Len(w.handlers) /\ j > hbase)
  BY ONLY <1>0, <1>1
<1>5. ASSUME NEW i \in 1..D
      PROVE   /\ v.frames[i].stack_base <= Len(w.stack)
              /\ v.frames[i].handlers_base <= Len(w.handlers)
              /\ i <= v.floor.frames => /\ v.frames[i].stack_base <= entry
                                        /\ v.frames[i].handlers_base <= v.floor.handlers
              /\ i > v.floor.frames => /\ v.frames[i].stack_base >= entry
                                       /\ v.frames[i].handlers_base >= v.floor.handlers
  <2>1. i \in 1..Len(v.frames)
    BY <1>1
  <2>2. v.frames[i].stack_base <= Len(w.stack)
    BY ONLY <1>0, <1>1, <1>2, i \in 1..D, SMTT(30)
  <2>3. v.frames[i].handlers_base <= Len(w.handlers)
    BY ONLY <1>0, <1>1, <1>2, i \in 1..D, SMTT(30)
  <2> QED BY <2>1, <2>2, <2>3, FrameMarks
<1>6. ASSUME NEW i \in 1..D, NEW j \in 1..D, i < j
      PROVE   /\ v.frames[i].stack_base <= v.frames[j].stack_base
              /\ v.frames[i].handlers_base <= v.frames[j].handlers_base
  <2>1. i \in 1..Len(v.frames) /\ j \in 1..Len(v.frames) /\ i <= j
    BY <1>1, <1>6
  <2> QED BY <2>1, FramePair
<1>7. ASSUME NEW j \in 1..Len(w.handlers)
      PROVE   /\ w.handlers[j].frames <= D /\ w.handlers[j].depth <= Len(w.stack)
              /\ j <= v.floor.handlers => /\ w.handlers[j].frames <= v.floor.frames
                                          /\ w.handlers[j].depth <= entry
              /\ j > v.floor.handlers => /\ w.handlers[j].frames >= v.floor.frames
                                         /\ w.handlers[j].depth >= entry
  <2>1. CASE j \in 1..hbase
    <3>1. j \in 1..Len(v.handlers) /\ w.handlers[j] = v.handlers[j]
      BY <1>1, <2>1
    <3>2. v.handlers[j].depth <= Len(w.stack) /\ v.handlers[j].frames <= D
      BY ONLY <1>0, <1>1, <1>3, <2>1
    <3> QED BY <3>1, <3>2, HandlerMarks
  <2>2. CASE j \in hbase + 1..Len(w.handlers)
    <3>1. j > v.floor.handlers /\ ~(j <= v.floor.handlers)
      BY ONLY <1>0, <2>2
    <3>2. w.handlers[j].frames = D /\ w.handlers[j].depth \in base..Len(w.stack)
      BY <1>a, <2>2
    <3> QED BY ONLY <1>0, <1>1, <3>1, <3>2, D >= v.floor.frames, entry \in Nat, SMTT(30)
  <2> QED BY <1>4, <2>1, <2>2
<1>8. ASSUME NEW i \in 1..Len(w.handlers), NEW j \in 1..Len(w.handlers), i < j
      PROVE  /\ w.handlers[i].frames <= w.handlers[j].frames
             /\ w.handlers[i].depth <= w.handlers[j].depth
  <2>1. CASE j \in 1..hbase
    <3>1. i \in 1..hbase /\ i <= j
      BY ONLY <1>0, <1>1, <1>8, <2>1, i \in 1..Len(w.handlers)
    <3>2. i \in 1..Len(v.handlers) /\ j \in 1..Len(v.handlers)
          /\ w.handlers[i] = v.handlers[i] /\ w.handlers[j] = v.handlers[j]
      BY <1>1, <2>1, <3>1
    <3> QED BY <3>1, <3>2, HandlerPair
  <2>2. CASE j \in hbase + 1..Len(w.handlers)
    <3>1. CASE i \in 1..hbase
      <4>1. w.handlers[i] = v.handlers[i]
        BY <1>1, <3>1
      <4>2. w.handlers[j].frames = D /\ w.handlers[j].depth \in base..Len(w.stack)
        BY <1>a, <2>2
      <4> QED BY ONLY <1>0, <1>1, <1>3, <3>1, <4>1, <4>2, SMTT(30)
    <3>2. CASE i \in hbase + 1..Len(w.handlers)
      <4>1. w.handlers[i].frames = D /\ w.handlers[j].frames = D
        BY <1>a, <2>2, <3>2
      <4> QED BY <1>0, <1>8, <1>a, <2>2, <3>2, <4>1
    <3> QED BY <1>4, <3>1, <3>2
  <2> QED BY <1>4, <2>1, <2>2
<1>9. ASSUME NEW i \in 1..D, NEW j \in 1..Len(w.handlers)
      PROVE   /\ j <= v.frames[i].handlers_base
                    => /\ w.handlers[j].frames < i
                       /\ w.handlers[j].depth <= v.frames[i].stack_base
              /\ j > v.frames[i].handlers_base
                    => /\ w.handlers[j].frames >= i
                       /\ w.handlers[j].depth >= v.frames[i].stack_base
  <2>0. i \in 1..Len(v.frames)
    BY <1>1
  <2>1. CASE j \in 1..hbase
    <3>1. j \in 1..Len(v.handlers) /\ w.handlers[j] = v.handlers[j]
      BY <1>1, <2>1
    <3> QED BY <2>0, <3>1, CrossMarks
  <2>2. CASE j \in hbase + 1..Len(w.handlers)
    <3>1. ~(j <= v.frames[i].handlers_base)
      BY ONLY <1>0, <1>2, <2>2, i \in 1..D, SMTT(30)
    <3>2. w.handlers[j].frames = D /\ w.handlers[j].depth \in base..Len(w.stack)
      BY <1>a, <2>2
    <3>3. /\ v.frames[i].stack_base \in Nat /\ v.frames[i].stack_base <= base
      BY <1>2
    <3>4. w.handlers[j].depth >= v.frames[i].stack_base
      BY ONLY <1>0, <1>1, <3>2, <3>3, SMTT(30)
    <3> QED BY ONLY <1>0, <3>1, <3>2, <3>4, i \in 1..D
  <2> QED BY <1>4, <2>1, <2>2
<1>10. /\ w.floor.frames <= Len(w.frames) /\ w.floor.handlers <= Len(w.handlers)
       /\ entry <= Len(w.stack)
  BY ONLY <1>0, <1>1, D >= v.floor.frames, entry \in Nat
<1>11. /\ \A i \in 1..Len(w.frames) : w.frames[i] = v.frames[i]
       /\ Len(w.frames) = D /\ w.floor = v.floor
  BY <1>1
<1> QED BY ONLY <1>5, <1>6, <1>7, <1>8, <1>9, <1>10, <1>11, MarksAre, w \in Vms, entry \in Nat


(* Where an execution comes to, its code sits.                             *)
LEMMA SitsHere ==
    ASSUME NEW v \in Vms, NEW w \in Vms, NEW entry \in Nat, NEW o, NEW m \in Nat,
           NEW D \in Nat, D >= v.floor.frames, Settled(v, w, entry, D),
           w.current.of \in 1..m,
           (o[w.current.of].kind \in Bodies) <=> D > v.floor.frames,
           w.current.preparing => o[w.current.of].kind = "generator",
           D > v.floor.frames /\ v.frames[D].generator # Nobody
              => w.current.of = v.frames[D].generator /\ ~w.current.preparing,
           NEW base, base = BaseAt(v, entry, D),
           NEW hbase, hbase = HandlersBaseAt(v, D),
           Level(w.current, w.regs.env, w.stack, w.handlers, D,
                 base, Len(w.stack), hbase, Len(w.handlers))
    PROVE  Sits(w, entry, D, o, m)
<1>1. Len(w.frames) = D /\ w.floor = v.floor /\ w.current \in Code
  BY VmTypes DEF Settled
<1>2. D > v.floor.frames => w.frames[D] = v.frames[D]
  BY VmTypes DEF Settled
<1>3. /\ CodeAt(w, D) = w.current /\ EnvAt(w, D) = w.regs.env
      /\ TopAt(w, D) = Len(w.stack) /\ HandlersTopAt(w, D) = Len(w.handlers)
  BY <1>1 DEF CodeAt, EnvAt, TopAt, HandlersTopAt
<1>4. BaseAt(w, entry, D) = base /\ HandlersBaseAt(w, D) = hbase
  BY <1>1, <1>2, VmTypes, SMTT(30) DEF BaseAt, HandlersBaseAt
<1>5. Belongs(w, D, o, m)
  BY <1>1, <1>2, <1>3 DEF Belongs
<1> QED BY <1>1, <1>3, <1>4, <1>5 DEF Sits

Goes(v, w, entry, chunk, o, m) == Fine(w, entry, chunk, o, m) /\ Keeps(v, w, entry)

LEMMA Settles ==
    ASSUME NEW v, NEW entry \in Nat, NEW chunk \in BOOLEAN, NEW o, NEW m \in Nat,
           Fine(v, entry, chunk, o, m), NEW w \in Vms,
           NEW D \in Lowest(v, chunk)..Len(v.frames),
           Settled(v, w, entry, D), Sits(w, entry, D, o, m)
    PROVE  Goes(v, w, entry, chunk, o, m)
<1>1. v \in Vms /\ MarksInOrder(v, entry) /\ (~chunk => Bottom(v, entry))
      /\ \A d \in Lowest(v, chunk)..Len(v.frames) : Sits(v, entry, d, o, m)
  BY DEF Fine
<1>2. /\ D \in Nat /\ D >= v.floor.frames /\ D <= Len(v.frames)
      /\ (~chunk => D >= v.floor.frames + 1)
      /\ Lowest(v, chunk) \in Nat /\ Lowest(v, chunk) >= v.floor.frames
      /\ Lowest(w, chunk) = Lowest(v, chunk)
      /\ v.floor.handlers \in Nat /\ v.floor.frames \in Nat
      /\ Len(v.frames) \in Nat /\ Len(w.handlers) \in Nat /\ Len(w.stack) \in Nat
  BY <1>1, VmTypes, SMTT(30) DEF Lowest, Settled
<1>3. PICK base, hbase : base = BaseAt(v, entry, D) /\ hbase = HandlersBaseAt(v, D)
  OBVIOUS
<1>4. /\ Len(w.frames) = D /\ w.floor = v.floor
      /\ \A i \in 1..D : w.frames[i] = v.frames[i]
      /\ base <= Len(w.stack) /\ hbase <= Len(w.handlers)
      /\ \A i \in 1..base : w.stack[i] = v.stack[i]
      /\ \A j \in 1..hbase : w.handlers[j] = v.handlers[j]
  BY <1>3 DEF Settled
<1>5. /\ base \in Nat /\ hbase \in Nat /\ base >= entry /\ hbase >= v.floor.handlers
      /\ base <= Len(v.stack) /\ hbase <= Len(v.handlers)
      /\ D > v.floor.frames => base = v.frames[D].stack_base /\ hbase = v.frames[D].handlers_base
      /\ v.floor.handlers \in Nat /\ v.floor.frames \in Nat
  <2>1. CASE D = v.floor.frames
    BY <1>1, <1>3, <2>1, VmTypes DEF BaseAt, HandlersBaseAt, MarksInOrder
  <2>2. CASE D > v.floor.frames
    <3>1. D \in 1..Len(v.frames)
      BY ONLY <1>2, <2>2
    <3> QED BY <1>1, <1>3, <2>2, <3>1, FrameMarks, VmTypes, SMTT(30) DEF BaseAt, HandlersBaseAt
  <2> QED BY <1>1, <1>2, <2>1, <2>2, VmTypes
<1>6. MarksInOrder(w, entry)
  <2>1. /\ CodeAt(w, D) = w.current /\ EnvAt(w, D) = w.regs.env
        /\ TopAt(w, D) = Len(w.stack) /\ HandlersTopAt(w, D) = Len(w.handlers)
    BY <1>4 DEF CodeAt, EnvAt, TopAt, HandlersTopAt
  <2>2. D > v.floor.frames => w.frames[D] = v.frames[D]
    <3>1. D > v.floor.frames => D \in 1..D
      BY ONLY <1>2
    <3> QED BY ONLY <1>4, <3>1
  <2>3. BaseAt(w, entry, D) = base /\ HandlersBaseAt(w, D) = hbase
    BY ONLY <1>3, <1>4, <2>2, <1>2, <1>5 DEF BaseAt, HandlersBaseAt
  <2>4. /\ w.current \in Code
        /\ Level(w.current, w.regs.env, w.stack, w.handlers, D,
                 base, Len(w.stack), hbase, Len(w.handlers))
    BY <2>1, <2>3, VmTypes DEF Sits
  <2>5. HandlersStand(w.handlers, hbase, Len(w.handlers), D, base, Len(w.stack))
    BY <1>2, <1>5, <2>4, LevelMarks
  <2> QED BY <1>1, <1>2, <1>3, <2>5, SettledMarks
<1>7. ASSUME NEW d \in Lowest(w, chunk)..Len(w.frames)
      PROVE  Sits(w, entry, d, o, m)
  <2>0. d \in Nat /\ d >= v.floor.frames /\ d <= D
    BY ONLY <1>2, <1>4, d \in Lowest(w, chunk)..Len(w.frames)
  <2>1. CASE d = D
    BY <2>1
  <2>2. CASE d < D
    <3>1. d \in Lowest(v, chunk)..Len(v.frames)
      BY <1>2, <2>2
    <3>2. Sits(v, entry, d, o, m)
      BY <1>1, <3>1
    <3>3. d + 1 \in 1..Len(v.frames) /\ D \in 1..Len(v.frames) /\ d + 1 <= D /\ D > v.floor.frames
      BY ONLY <1>2, <1>5, <2>0, <2>2, SMTT(30)
    <3>4. base = v.frames[D].stack_base /\ hbase = v.frames[D].handlers_base
      BY <1>5, <3>3
    <3>5. /\ v.frames[d + 1].stack_base <= v.frames[D].stack_base
          /\ v.frames[d + 1].handlers_base <= v.frames[D].handlers_base
      BY <1>1, <3>3, FramePair
    <3>6. entry <= v.frames[d + 1].stack_base
      <4>1. d + 1 > v.floor.frames
        BY <1>5, <2>0
      <4> QED BY <1>1, <3>3, <4>1, FrameMarks
    <3>7. D <= Len(w.frames)
      BY <1>2, <1>4
    <3>8. /\ v.frames[D].stack_base <= Len(v.stack) /\ v.frames[D].stack_base <= Len(w.stack)
          /\ v.frames[D].handlers_base <= Len(v.handlers)
          /\ v.frames[D].handlers_base <= Len(w.handlers)
          /\ \A i \in 1..v.frames[D].stack_base : w.stack[i] = v.stack[i]
          /\ \A i \in 1..v.frames[D].handlers_base : w.handlers[i] = v.handlers[i]
      BY <1>4, <1>5, <3>4
    <3> QED BY <1>1, <1>2, <1>4, <2>0, <2>2, <3>2, <3>5, <3>6, <3>7, <3>8, SitsAlike
  <2> QED BY <2>0, <2>1, <2>2, <1>2
<1>8. ~chunk => Bottom(w, entry)
  <2>1. ~chunk => v.floor.frames + 1 \in 1..D
    BY ONLY <1>2
  <2>2. ~chunk => /\ w.frames[v.floor.frames + 1] = v.frames[v.floor.frames + 1]
                  /\ v.floor.frames < Len(w.frames)
    BY ONLY <1>2, <1>4, <2>1, SMTT(30)
  <2> QED BY <1>1, <1>4, <2>2 DEF Bottom
<1>9. Keeps(v, w, entry)
  <2>1. v.floor.frames <= Len(w.frames) /\ v.floor.handlers <= Len(w.handlers)
        /\ entry <= Len(w.stack)
    BY <1>2, <1>4, <1>5, VmTypes
  <2>2. /\ \A i \in 1..entry : w.stack[i] = v.stack[i]
        /\ \A i \in 1..v.floor.frames : w.frames[i] = v.frames[i]
        /\ \A j \in 1..v.floor.handlers : w.handlers[j] = v.handlers[j]
    <3>1. /\ \A i \in 1..entry : i \in 1..base
          /\ \A i \in 1..v.floor.frames : i \in 1..D
          /\ \A j \in 1..v.floor.handlers : j \in 1..hbase
      BY ONLY <1>2, <1>5, entry \in Nat, SMTT(30)
    <3> QED BY ONLY <1>4, <3>1
  <2> QED BY <1>4, <2>1, <2>2 DEF Keeps
<1> QED BY <1>6, <1>7, <1>8, <1>9 DEF Fine, Goes
(* The body at depth D has other constructs open.                          *)
LEMMA SameBody ==
    ASSUME NEW v, NEW entry \in Nat, NEW chunk \in BOOLEAN, NEW o, NEW m \in Nat,
           Fine(v, entry, chunk, o, m), NEW w \in Vms,
           NEW D \in Lowest(v, chunk)..Len(v.frames),
           Settled(v, w, entry, D),
           w.current.of = CodeAt(v, D).of,
           w.current.preparing => CodeAt(v, D).preparing,
           Level(w.current, w.regs.env, w.stack, w.handlers, D, BaseAt(v, entry, D),
                 Len(w.stack), HandlersBaseAt(v, D), Len(w.handlers))
    PROVE  Goes(v, w, entry, chunk, o, m)
<1>1. v \in Vms /\ Sits(v, entry, D, o, m)
  BY DEF Fine
<1>2. Belongs(v, D, o, m)
  BY <1>1 DEF Sits
<1>3. D \in Nat /\ D >= v.floor.frames
  BY <1>1, VmTypes DEF Lowest
<1>4. PICK c : c = CodeAt(v, D)
  OBVIOUS
<1>5. /\ w.current.of = c.of /\ (w.current.preparing => c.preparing)
      /\ c.of \in 1..m
      /\ (o[c.of].kind \in Bodies) <=> D > v.floor.frames
      /\ c.preparing => o[c.of].kind = "generator"
      /\ D > v.floor.frames /\ v.frames[D].generator # Nobody
            => c.of = v.frames[D].generator /\ ~c.preparing
  BY <1>2, <1>4 DEF Belongs
<1>6. /\ w.current.of \in 1..m
      /\ (o[w.current.of].kind \in Bodies) <=> D > v.floor.frames
      /\ w.current.preparing => o[w.current.of].kind = "generator"
      /\ D > v.floor.frames /\ v.frames[D].generator # Nobody
            => w.current.of = v.frames[D].generator /\ ~w.current.preparing
  BY ONLY <1>5
<1>7. Sits(w, entry, D, o, m)
  BY <1>1, <1>3, <1>6, SitsHere
<1> QED BY <1>7, Settles

(* The running body has.                                                   *)
Onward(v, w, entry) ==
    LET D == Len(v.frames)
        base == BaseAt(v, entry, D)
        hbase == HandlersBaseAt(v, D)
    IN  /\ w.frames = v.frames /\ w.floor = v.floor
        /\ w.current.of = v.current.of
        /\ w.current.preparing => v.current.preparing
        /\ base <= Len(w.stack) /\ \A i \in 1..base : w.stack[i] = v.stack[i]
        /\ hbase <= Len(w.handlers) /\ \A j \in 1..hbase : w.handlers[j] = v.handlers[j]
        /\ Level(w.current, w.regs.env, w.stack, w.handlers, D,
                 base, Len(w.stack), hbase, Len(w.handlers))

LEMMA OwnStep ==
    ASSUME NEW v, NEW entry \in Nat, NEW chunk \in BOOLEAN, NEW o, NEW m \in Nat,
           Fine(v, entry, chunk, o, m), NEW w \in Vms, Onward(v, w, entry)
    PROVE  Goes(v, w, entry, chunk, o, m)
<1>0. PICK D : D = Len(v.frames)
  OBVIOUS
<1>1. D \in Lowest(v, chunk)..Len(v.frames)
  BY <1>0, FineDepth
<1>2. Settled(v, w, entry, D)
  BY <1>0 DEF Settled, Onward
<1>3. CodeAt(v, D) = v.current
  BY <1>0 DEF CodeAt
<1>4. /\ w.current.of = CodeAt(v, D).of
      /\ w.current.preparing => CodeAt(v, D).preparing
      /\ Level(w.current, w.regs.env, w.stack, w.handlers, D, BaseAt(v, entry, D),
               Len(w.stack), HandlersBaseAt(v, D), Len(w.handlers))
  BY <1>0, <1>3 DEF Onward
<1> QED BY <1>1, <1>2, <1>4, SameBody

-----------------------------------------------------------------------------
(* The instructions that open a construct, and the ones that close it.     *)

LEMMA Opens ==
    ASSUME NEW v, NEW entry \in Nat, NEW chunk \in BOOLEAN, NEW o, NEW m \in Nat,
           Fine(v, entry, chunk, o, m),
           NEW x \in Constructs, NEW e, e = Open(v.current, x),
           NEW s \in Seq(Marks), NEW h \in Seq(Handlers),
           x = "operand" => s = Append(v.stack, Mark(e)),
           x # "operand" => s = v.stack,
           x = "try" => /\ h = Append(v.handlers, h[Len(h)])
                        /\ h[Len(h)].target = v.current /\ h[Len(h)].frames = Len(v.frames)
                        /\ h[Len(h)].depth = Len(v.stack) /\ h[Len(h)].env = v.regs.env,
           x # "try" => h = v.handlers,
           NEW w \in Vms, w.frames = v.frames, w.floor = v.floor,
           w.current = e, w.stack = s, w.handlers = h,
           x = "block" => w.regs.env = [v.regs.env EXCEPT !.level = @ + 1],
           x # "block" => w.regs.env = v.regs.env
    PROVE  Goes(v, w, entry, chunk, o, m)
<1>1. PICK D, base, hbase : Runs(v, entry, o, m, D, base, hbase)
  BY FineTop
<1>3. /\ v \in Vms /\ D \in Nat /\ D = Len(v.frames)
      /\ base = BaseAt(v, entry, D) /\ hbase = HandlersBaseAt(v, D)
      /\ Level(v.current, v.regs.env, v.stack, v.handlers, D,
               base, Len(v.stack), hbase, Len(v.handlers))
      /\ base \in Nat /\ hbase \in Nat
      /\ base <= Len(v.stack) /\ hbase <= Len(v.handlers)
  BY <1>1 DEF Runs
<1>4. /\ v.current \in Code /\ v.stack \in Seq(Marks) /\ v.handlers \in Seq(Handlers)
      /\ base \in Nat /\ hbase \in Nat /\ Len(v.stack) \in Nat /\ Len(v.handlers) \in Nat
      /\ base <= Len(v.stack) /\ hbase <= Len(v.handlers)
  BY <1>3, VmTypes
<1>5. Level(e, EnvOf(e), s, h, D, base, Len(s), hbase, Len(h))
  <2>1. PICK c, stack, handlers, env :
           c = v.current /\ stack = v.stack /\ handlers = v.handlers /\ env = v.regs.env
    OBVIOUS
  <2>2. /\ c \in Code /\ stack \in Seq(Marks) /\ handlers \in Seq(Handlers)
        /\ Level(c, env, stack, handlers, D, base, Len(stack), hbase, Len(handlers))
        /\ e = Open(c, x)
        /\ x = "operand" => s = Append(stack, Mark(e))
        /\ x # "operand" => s = stack
        /\ x # "try" => h = handlers
        /\ x = "try" => /\ h = Append(handlers, h[Len(h)])
                        /\ h[Len(h)].target = c /\ h[Len(h)].frames = D
                        /\ h[Len(h)].depth = Len(stack) /\ h[Len(h)].env = env
    BY <1>3, <1>4, <2>1
  <2> QED BY ONLY <1>3, <2>2, LevelOpens, x \in Constructs, s \in Seq(Marks), h \in Seq(Handlers)
<1>6. v.regs.env = EnvOf(v.current)
  BY <1>3 DEF Level
<1>7. /\ e.of = v.current.of /\ e.preparing = v.current.preparing
      /\ x = "block" => EnvOf(e) = [EnvOf(v.current) EXCEPT !.level = @ + 1]
      /\ x # "block" => EnvOf(e) = EnvOf(v.current)
  BY <1>4, OpenCode, SMTT(30)
<1>8. w.regs.env = EnvOf(e)
  BY <1>6, <1>7
<1>9. /\ base <= Len(s) /\ \A i \in 1..base : s[i] = v.stack[i]
  <2>1. CASE x = "operand"
    BY <1>4, <2>1
  <2>2. CASE x # "operand"
    BY <1>4, <2>2
  <2> QED BY <2>1, <2>2
<1>10. /\ hbase <= Len(h) /\ \A j \in 1..hbase : h[j] = v.handlers[j]
  <2>1. CASE x = "try"
    <3>1. PICK hd : h = Append(v.handlers, hd)
      BY <2>1
    <3> QED BY <1>4, <3>1
  <2>2. CASE x # "try"
    BY <1>4, <2>2
  <2> QED BY <2>1, <2>2
<1>11. Level(w.current, w.regs.env, w.stack, w.handlers, D,
             base, Len(w.stack), hbase, Len(w.handlers))
  BY <1>5, <1>8
<1>12. Onward(v, w, entry)
  BY <1>3, <1>7, <1>9, <1>10, <1>11 DEF Onward
<1> QED BY <1>12, OwnStep

ClosedTo(v, w, x, s, h, env) ==
    /\ x = Last(v.current.open)
    /\ s = IF x = "operand" THEN Front(v.stack) ELSE v.stack
    /\ h = IF x = "try" THEN Front(v.handlers) ELSE v.handlers
    /\ env = IF x = "block" THEN [v.regs.env EXCEPT !.level = @ - 1] ELSE v.regs.env
    /\ w.frames = v.frames /\ w.floor = v.floor
    /\ w.current = Before(v.current) /\ w.stack = s /\ w.handlers = h
    /\ w.regs.env = env

LEMMA Closes ==
    ASSUME NEW v, NEW entry \in Nat, NEW chunk \in BOOLEAN, NEW o, NEW m \in Nat,
           Fine(v, entry, chunk, o, m),
           v.current.open # <<>>, NEW w, NEW x, NEW s, NEW h, NEW env,
           ClosedTo(v, w, x, s, h, env)
    PROVE  /\ Before(v.current) \in Code /\ s \in Seq(Marks) /\ h \in Seq(Handlers)
           /\ env \in Environment
           /\ w \in Vms => Goes(v, w, entry, chunk, o, m)
<1> USE DEF ClosedTo
<1>1. PICK D, base, hbase : Runs(v, entry, o, m, D, base, hbase)
  BY FineTop
<1>3. /\ v \in Vms /\ D \in Nat /\ D = Len(v.frames)
      /\ base = BaseAt(v, entry, D) /\ hbase = HandlersBaseAt(v, D)
      /\ Level(v.current, v.regs.env, v.stack, v.handlers, D,
               base, Len(v.stack), hbase, Len(v.handlers))
      /\ base \in Nat /\ hbase \in Nat
      /\ base <= Len(v.stack) /\ hbase <= Len(v.handlers)
  BY <1>1 DEF Runs
<1>4. /\ v.current \in Code /\ v.stack \in Seq(Marks) /\ v.handlers \in Seq(Handlers)
      /\ base \in Nat /\ hbase \in Nat /\ Len(v.stack) \in Nat /\ Len(v.handlers) \in Nat
      /\ base <= Len(v.stack) /\ hbase <= Len(v.handlers) /\ v.regs.env \in Environment
  BY <1>3, VmTypes
<1>5. /\ Before(v.current) \in Code /\ Before(v.current).of = v.current.of
      /\ Before(v.current).preparing = v.current.preparing
      /\ x = "block" => v.regs.env.level \in Nat \ {0}
      /\ x = "operand" => Len(v.stack) > base
      /\ x = "try" => Len(v.handlers) > hbase
      /\ Level(Before(v.current), env, s, h, D, base, Len(s), hbase, Len(h))
  <2>1. PICK c, stack, handlers, env1 :
           c = v.current /\ stack = v.stack /\ handlers = v.handlers /\ env1 = v.regs.env
    OBVIOUS
  <2>2. /\ c \in Code /\ stack \in Seq(Marks) /\ handlers \in Seq(Handlers)
        /\ Level(c, env1, stack, handlers, D, base, Len(stack), hbase, Len(handlers))
        /\ c.open # <<>> /\ x = Last(c.open)
        /\ s = IF x = "operand" THEN Front(stack) ELSE stack
        /\ h = IF x = "try" THEN Front(handlers) ELSE handlers
        /\ env = IF x = "block" THEN [env1 EXCEPT !.level = @ - 1] ELSE env1
    BY <1>3, <1>4, <2>1
  <2>3. /\ Before(c) \in Code /\ Before(c).of = c.of
        /\ Before(c).preparing = c.preparing
        /\ x = "block" => env1.level \in Nat \ {0}
        /\ x = "operand" => Len(stack) > base
        /\ x = "try" => Len(handlers) > hbase
        /\ Level(Before(c), env, s, h, D, base, Len(s), hbase, Len(h))
    BY ONLY <1>3, <2>2, LevelCloses, SMTT(30)
  <2> QED BY <2>1, <2>3
<1>6. /\ s \in Seq(Marks) /\ base <= Len(s) /\ \A i \in 1..base : s[i] = v.stack[i]
  <2>1. CASE x = "operand"
    BY <1>4, <1>5, <2>1 DEF Front
  <2>2. CASE x # "operand"
    BY <1>4, <2>2
  <2> QED BY <2>1, <2>2
<1>7. /\ h \in Seq(Handlers) /\ hbase <= Len(h) /\ \A j \in 1..hbase : h[j] = v.handlers[j]
  <2>1. CASE x = "try"
    BY <1>4, <1>5, <2>1 DEF Front
  <2>2. CASE x # "try"
    BY <1>4, <2>2
  <2> QED BY <2>1, <2>2
<1>8. env \in Environment
  BY <1>4, <1>5 DEF Environment
<1>9. Level(w.current, w.regs.env, w.stack, w.handlers, D,
             base, Len(w.stack), hbase, Len(w.handlers))
  BY <1>5
<1>10. w \in Vms => Goes(v, w, entry, chunk, o, m)
  <2>1. Onward(v, w, entry)
    BY <1>3, <1>5, <1>6, <1>7, <1>9 DEF Onward
  <2> QED BY <2>1, OwnStep
<1> QED BY <1>5, <1>6, <1>7, <1>8, <1>10

-----------------------------------------------------------------------------
(* Throwing.                                                               *)

LEMMA Shorter ==
    ASSUME NEW S, NEW s \in Seq(S), NEW n \in 0..Len(s)
    PROVE  /\ Truncate(s, n) = SubSeq(s, 1, n)
           /\ Truncate(s, n) \in Seq(S) /\ Len(Truncate(s, n)) = n
           /\ \A i \in 1..n : Truncate(s, n)[i] = s[i]
<1>1. Truncate(s, n) = SubSeq(s, 1, n)
  <2>1. CASE n < Len(s)
    BY <2>1 DEF Truncate
  <2>2. CASE n = Len(s)
    BY <2>2 DEF Truncate
  <2> QED BY <2>1, <2>2
<1> QED BY <1>1

LEMMA Extended ==
    ASSUME NEW S, NEW s \in Seq(S), NEW x \in S
    PROVE  /\ Append(s, x) \in Seq(S) /\ Len(Append(s, x)) = Len(s) + 1
           /\ \A i \in 1..Len(s) : Append(s, x)[i] = s[i]
           /\ Append(s, x)[Len(s) + 1] = x
OBVIOUS

LEMMA Fronted ==
    ASSUME NEW S, NEW s \in Seq(S), s # <<>>
    PROVE  /\ Front(s) \in Seq(S) /\ Len(Front(s)) = Len(s) - 1
           /\ \A i \in 1..Len(s) - 1 : Front(s)[i] = s[i]
           /\ Last(s) = s[Len(s)] /\ Last(s) \in S /\ Len(s) >= 1
<1>1. PICK n \in Nat : n = Len(s)
  OBVIOUS
<1>2. n >= 1 /\ n - 1 \in Nat
  BY <1>1
<1>3. Front(s) = SubSeq(s, 1, n - 1) /\ Last(s) = s[n]
  BY <1>1 DEF Front, Last
<1>4. /\ Front(s) \in Seq(S) /\ Len(Front(s)) = n - 1
      /\ \A i \in 1..n - 1 : Front(s)[i] = s[i]
  BY <1>1, <1>2, <1>3
<1>5. Last(s) \in S
  BY <1>1, <1>2, <1>3
<1> QED BY <1>1, <1>2, <1>3, <1>4, <1>5

LEMMA MarkIsOne ==
    ASSUME NEW c \in Code
    PROVE  Mark(c) \in Marks
BY DEF Mark, Marks, Code

(* What a throw makes of the machine.                                      *)
LandsOn(v, hd, D) == IF D = Len(v.frames) THEN v.current.of ELSE v.frames[D + 1].code.of
LandingCode(v, hd) ==
    [hd.target EXCEPT !.open = Append(@, "operand"), !.of = LandsOn(v, hd, hd.frames)]

Landed(v, w, hd) ==
    /\ w \in Vms
    /\ w.floor = v.floor /\ w.thrown
    /\ w.frames = Truncate(v.frames, hd.frames)
    /\ w.handlers = Front(v.handlers)
    /\ w.current = LandingCode(v, hd)
    /\ w.stack = Append(Truncate(v.stack, hd.depth), Mark(LandingCode(v, hd)))
    /\ w.regs.env = hd.env

LEMMA LandingCodeType ==
    ASSUME NEW v \in Vms, NEW hd \in Handlers, hd.frames <= Len(v.frames)
    PROVE  LandingCode(v, hd) \in Code
<1>1. /\ hd.target \in Code /\ hd.target.open \in Seq(Constructs) /\ hd.frames \in Nat
      /\ "operand" \in Constructs
  BY DEF Handlers, Code, Constructs
<1>2. Append(hd.target.open, "operand") \in Seq(Constructs)
  BY <1>1
<1>3. LandsOn(v, hd, hd.frames) \in 0..MaxActivations
  <2>1. CASE hd.frames = Len(v.frames)
    BY <2>1, VmTypes DEF LandsOn, Code
  <2>2. CASE hd.frames # Len(v.frames)
    <3>1. hd.frames + 1 \in 1..Len(v.frames)
      BY <1>1, <2>2, VmTypes
    <3>2. v.frames[hd.frames + 1].code \in Code
      BY <3>1, VmTypes
    <3> QED BY <2>2, <3>2 DEF LandsOn, Code
  <2> QED BY <2>1, <2>2
<1> QED BY <1>1, <1>2, <1>3 DEF LandingCode, Code

LEMMA UnwindLands ==
    ASSUME NEW v \in Vms, Len(v.handlers) > v.floor.handlers,
           NEW hd, hd = Last(v.handlers), hd.frames <= Len(v.frames),
           NEW w, w = Unwind(v)
    PROVE  Landed(v, w, hd)
<1>1. PICK n \in Nat : n = Len(v.handlers)
  BY VmTypes
<1>2. /\ n > 0 /\ v.handlers \in Seq(Handlers) /\ v.handlers # <<>> /\ v.floor.handlers \in Nat
  BY <1>1, VmTypes
<1>3. hd \in Handlers /\ Front(v.handlers) \in Seq(Handlers)
  BY <1>2, Fronted
<1>4. PICK u : u = [v EXCEPT !.thrown = TRUE, !.handlers = Front(@)]
  OBVIOUS
<1>5. /\ u \in Vms /\ u.stack = v.stack /\ u.frames = v.frames /\ u.floor = v.floor
      /\ u.handlers = Front(v.handlers) /\ u.thrown /\ u.current = v.current
      /\ u.regs = v.regs /\ u.references = v.references
  BY <1>3, <1>4 DEF Vms
<1>6. PICK a : a = Abandon(u, hd.frames)
  OBVIOUS
<1>7. w = Land(a, hd)
  BY <1>4, <1>6 DEF Unwind
<1>8. hd.frames \in Nat /\ hd.depth \in Nat /\ hd.env \in Environment /\ hd.references \in Nat
  BY <1>3 DEF Handlers
<1>9. /\ a \in Vms /\ a.stack = v.stack /\ a.floor = v.floor
      /\ a.frames = Truncate(v.frames, hd.frames) /\ a.handlers = Front(v.handlers)
      /\ a.thrown /\ a.current.of = LandsOn(v, hd, hd.frames)
  <2>0. hd.frames \in 0..Len(v.frames) /\ v.frames \in Seq(Frames) /\ Len(v.frames) \in Nat
    BY <1>8, VmTypes
  <2>1. CASE hd.frames = Len(v.frames)
    <3>1. a = u
      BY <1>5, <1>6, <2>0, <2>1 DEF Abandon
    <3>2. Truncate(v.frames, hd.frames) = v.frames
      BY <2>0, <2>1 DEF Truncate
    <3> QED BY <1>5, <2>1, <3>1, <3>2 DEF LandsOn
  <2>2. CASE hd.frames < Len(v.frames)
    <3>0. PICK frame, regs, frames :
             /\ frame = v.frames[hd.frames + 1]
             /\ regs = [frame.regs EXCEPT !.var = u.regs.var]
             /\ frames = Truncate(v.frames, hd.frames)
      OBVIOUS
    <3>1. a = [u EXCEPT !.frames = frames, !.regs = regs, !.current = frame.code]
      BY <1>5, <1>6, <2>0, <2>2, <3>0 DEF Abandon
    <3>2. hd.frames + 1 \in 1..Len(v.frames)
      BY <2>0, <2>2
    <3>3. frame.code \in Code /\ frame.regs \in Registers
      BY <3>0, <3>2, VmTypes
    <3>4. u.regs.var \in Nat
      BY <1>5, SMTT(30) DEF Vms, Registers
    <3>5. regs \in Registers
      BY <3>0, <3>3, <3>4 DEF Registers
    <3>6. frames \in Seq(Frames)
      BY <2>0, <3>0, Shorter
    <3>7. /\ a \in Vms /\ a.stack = u.stack /\ a.floor = u.floor
          /\ a.frames = frames /\ a.handlers = u.handlers
          /\ a.thrown = u.thrown /\ a.current = frame.code
      BY <1>5, <3>1, <3>3, <3>5, <3>6 DEF Vms
    <3> QED BY <1>5, <2>2, <3>0, <3>7 DEF LandsOn
  <2> QED BY <2>0, <2>1, <2>2
<1>10. PICK code, stack, references, regs :
          /\ code = LandingCode(v, hd)
          /\ stack = Append(Truncate(a.stack, hd.depth), Mark(code))
          /\ references = Truncate(a.references, hd.references)
          /\ regs = [a.regs EXCEPT !.env = hd.env]
  OBVIOUS
<1>11. code = [hd.target EXCEPT !.open = Append(@, "operand"), !.of = a.current.of]
  BY <1>9, <1>10 DEF LandingCode
<1>12. w = [a EXCEPT !.regs = regs, !.stack = stack, !.references = references, !.current = code]
  BY <1>7, <1>9, <1>10, <1>11 DEF Land, Vms
<1>13. code \in Code
  BY <1>3, <1>10, LandingCodeType
<1>14. stack \in Seq(Marks)
  <2>1. Truncate(a.stack, hd.depth) \in Seq(Marks)
    BY <1>8, <1>9, VmTypes, SMTT(30) DEF Truncate
  <2> QED BY <1>10, <1>13, <2>1, MarkIsOne, Extended
<1>15. references \in Seq(Marks)
  BY <1>8, <1>9, <1>10, VmTypes, SMTT(30) DEF Truncate
<1>16. regs \in Registers /\ regs.env = hd.env
  BY <1>8, <1>9, <1>10, VmTypes DEF Registers
<1>17. /\ w \in Vms /\ w.floor = a.floor /\ w.thrown = a.thrown
       /\ w.frames = a.frames /\ w.handlers = a.handlers
       /\ w.current = code /\ w.stack = stack /\ w.regs = regs
  BY <1>9, <1>12, <1>13, <1>14, <1>15, <1>16, ZenonT(60) DEF Vms
<1> QED BY <1>9, <1>10, <1>16, <1>17 DEF Landed

LEMMA UnwindEscapes ==
    ASSUME NEW v \in Vms, ~(Len(v.handlers) > v.floor.handlers),
           NEW w, w = Unwind(v)
    PROVE  /\ w \in Vms /\ w.floor = v.floor /\ w.thrown
           /\ w.frames = Truncate(v.frames, v.floor.frames)
           /\ w.handlers = v.handlers /\ w.stack = v.stack
           /\ w.current = NoCode
<1>1. PICK frames : frames = Truncate(v.frames, v.floor.frames)
  OBVIOUS
<1>2. frames \in Seq(Frames)
  BY <1>1, VmTypes DEF Truncate
<1>3. NoCode \in Code
  BY ActivationAssumption DEF NoCode, Code, Nobody
<1>4. w = [v EXCEPT !.thrown = TRUE, !.escaped = TRUE, !.frames = frames, !.current = NoCode]
  BY <1>1 DEF Unwind, Escape, Vms
<1> QED BY <1>1, <1>2, <1>3, <1>4 DEF Vms

(* A body of an execution, waiting or not, with what is above it taken off. *)
Rests(v, entry, D, base, hbase, top, htop, s, h) ==
    /\ D \in Nat /\ D >= v.floor.frames /\ D <= Len(v.frames)
    /\ base = BaseAt(v, entry, D) /\ hbase = HandlersBaseAt(v, D)
    /\ top = TopAt(v, D) /\ htop = HandlersTopAt(v, D)
    /\ base \in Nat /\ hbase \in Nat /\ top \in Nat /\ htop \in Nat
    /\ entry <= base /\ base <= top /\ top <= Len(v.stack)
    /\ v.floor.handlers <= hbase /\ hbase <= htop /\ htop <= Len(v.handlers)
    /\ CodeAt(v, D) \in Code
    /\ s = SubSeq(v.stack, 1, top) /\ h = SubSeq(v.handlers, 1, htop)
    /\ s \in Seq(Marks) /\ h \in Seq(Handlers) /\ Len(s) = top /\ Len(h) = htop
    /\ \A i \in 1..top : s[i] = v.stack[i]
    /\ \A j \in 1..htop : h[j] = v.handlers[j]
    /\ D < Len(v.frames) => Awaiting(v.frames[D + 1].code)
    /\ Level(CodeAt(v, D), EnvAt(v, D), s, h, D, base, Len(s), hbase, Len(h))

LEMMA PartIs ==
    ASSUME NEW S, NEW s \in Seq(S), NEW n \in Nat, n <= Len(s)
    PROVE  /\ SubSeq(s, 1, n) \in Seq(S) /\ Len(SubSeq(s, 1, n)) = n
           /\ \A i \in 1..n : SubSeq(s, 1, n)[i] = s[i]
OBVIOUS

LEMMA FineRests ==
    ASSUME NEW v, NEW entry \in Nat, NEW chunk \in BOOLEAN, NEW o, NEW m \in Nat,
           Fine(v, entry, chunk, o, m),
           NEW D \in Lowest(v, chunk)..Len(v.frames)
    PROVE  \E base, hbase, top, htop, s, h :
              Rests(v, entry, D, base, hbase, top, htop, s, h)
<1>1. v \in Vms /\ MarksInOrder(v, entry) /\ Sits(v, entry, D, o, m)
  BY DEF Fine
<1>2. /\ D \in Nat /\ D >= v.floor.frames /\ D <= Len(v.frames)
      /\ v.floor.frames \in Nat /\ v.floor.handlers \in Nat
      /\ Len(v.frames) \in Nat /\ Len(v.stack) \in Nat /\ Len(v.handlers) \in Nat
      /\ v.stack \in Seq(Marks) /\ v.handlers \in Seq(Handlers)
  BY <1>1, VmTypes DEF Lowest
<1>3. PICK base, hbase, top, htop :
         /\ base = BaseAt(v, entry, D) /\ hbase = HandlersBaseAt(v, D)
         /\ top = TopAt(v, D) /\ htop = HandlersTopAt(v, D)
  OBVIOUS
<1>4. base \in Nat /\ hbase \in Nat /\ entry <= base /\ v.floor.handlers <= hbase
  <2>1. CASE D = v.floor.frames
    BY <1>2, <1>3, <2>1 DEF BaseAt, HandlersBaseAt
  <2>2. CASE D > v.floor.frames
    <3>1. D \in 1..Len(v.frames)
      BY ONLY <1>2, <2>2
    <3> QED BY <1>1, <1>2, <1>3, <2>2, <3>1, FrameMarks DEF BaseAt, HandlersBaseAt
  <2> QED BY <1>2, <2>1, <2>2
<1>5. top \in Nat /\ htop \in Nat /\ top <= Len(v.stack) /\ htop <= Len(v.handlers)
  <2>1. CASE D = Len(v.frames)
    BY <1>2, <1>3, <2>1 DEF TopAt, HandlersTopAt
  <2>2. CASE D < Len(v.frames)
    <3>1. D + 1 \in 1..Len(v.frames)
      BY ONLY <1>2, <2>2
    <3> QED BY <1>1, <1>2, <1>3, <2>2, <3>1, FrameMarks DEF TopAt, HandlersTopAt
  <2> QED BY <1>2, <2>1, <2>2
<1>6. /\ CodeAt(v, D) \in Code
      /\ D < Len(v.frames) => Awaiting(v.frames[D + 1].code)
      /\ Level(CodeAt(v, D), EnvAt(v, D), v.stack, v.handlers, D, base, top, hbase, htop)
  BY <1>1, <1>3 DEF Sits, Belongs
<1>7. base <= top /\ hbase <= htop
  <2>1. PICK c, env, s, h : c = CodeAt(v, D) /\ env = EnvAt(v, D) /\ s = v.stack /\ h = v.handlers
    OBVIOUS
  <2>2. c \in Code /\ Level(c, env, s, h, D, base, top, hbase, htop)
    BY <1>6, <2>1
  <2> QED BY ONLY <1>2, <1>4, <1>5, <2>2, LevelMarks
<1>8. PICK s, h : s = SubSeq(v.stack, 1, top) /\ h = SubSeq(v.handlers, 1, htop)
  OBVIOUS
<1>9. /\ s \in Seq(Marks) /\ Len(s) = top /\ \A i \in 1..top : s[i] = v.stack[i]
      /\ h \in Seq(Handlers) /\ Len(h) = htop /\ \A j \in 1..htop : h[j] = v.handlers[j]
  BY ONLY <1>2, <1>5, <1>8, PartIs
<1>10. Level(CodeAt(v, D), EnvAt(v, D), s, h, D, base, Len(s), hbase, Len(h))
  <2>1. PICK c, env, stack, handlers :
           c = CodeAt(v, D) /\ env = EnvAt(v, D) /\ stack = v.stack /\ handlers = v.handlers
    OBVIOUS
  <2>2. c \in Code /\ Level(c, env, stack, handlers, D, base, top, hbase, htop)
    BY <1>6, <2>1
  <2>3. /\ \A i \in base + 1..top : s[i] = stack[i]
        /\ \A j \in hbase + 1..htop : h[j] = handlers[j]
    BY ONLY <1>4, <1>5, <1>9, <2>1
  <2>4. Level(c, env, s, h, D, base, top, hbase, htop)
    BY ONLY <1>4, <1>5, <2>2, <2>3, LevelAlike
  <2> QED BY <1>9, <2>1, <2>4
<1>11. Rests(v, entry, D, base, hbase, top, htop, s, h)
  BY ONLY <1>2, <1>3, <1>4, <1>5, <1>6, <1>7, <1>8, <1>9, <1>10 DEF Rests
<1> QED BY <1>11

(* The last handler is of the body it was installed in.                    *)
LEMMA LastHandler ==
    ASSUME NEW v, NEW entry \in Nat, NEW chunk \in BOOLEAN, NEW o, NEW m \in Nat,
           Fine(v, entry, chunk, o, m), Len(v.handlers) > v.floor.handlers,
           NEW D, D = v.handlers[Len(v.handlers)].frames
    PROVE  /\ D \in Lowest(v, chunk)..Len(v.frames)
           /\ HandlersBaseAt(v, D) < Len(v.handlers)
           /\ HandlersTopAt(v, D) = Len(v.handlers)
<1>1. v \in Vms /\ MarksInOrder(v, entry) /\ (~chunk => Bottom(v, entry))
  BY DEF Fine
<1>2. PICK n \in Nat : n = Len(v.handlers)
  BY <1>1, VmTypes
<1>3. /\ n \in 1..Len(v.handlers) /\ n > v.floor.handlers
      /\ v.floor.frames \in Nat /\ v.floor.handlers \in Nat /\ Len(v.frames) \in Nat
  BY <1>1, <1>2, VmTypes
<1>4. D \in Nat /\ D <= Len(v.frames) /\ D >= v.floor.frames
  BY <1>1, <1>2, <1>3, HandlerMarks
<1>5. ASSUME NEW i \in 1..Len(v.frames)
      PROVE  /\ n <= v.frames[i].handlers_base => D < i
             /\ n > v.frames[i].handlers_base => D >= i
             /\ v.frames[i].handlers_base \in Nat /\ v.frames[i].handlers_base <= n
  BY <1>1, <1>2, <1>3, CrossMarks, FrameMarks
<1>6. ~chunk => D >= v.floor.frames + 1
  <2>1. ~chunk => /\ v.floor.frames + 1 \in 1..Len(v.frames)
                  /\ v.frames[v.floor.frames + 1].handlers_base = v.floor.handlers
    BY <1>1, <1>3 DEF Bottom
  <2> QED BY <1>3, <1>5, <2>1
<1>7. HandlersBaseAt(v, D) < n
  <2>1. CASE D = v.floor.frames
    BY <1>3, <2>1 DEF HandlersBaseAt
  <2>2. CASE D > v.floor.frames
    <3>1. D \in 1..Len(v.frames)
      BY ONLY <1>3, <1>4, <2>2
    <3>2. HandlersBaseAt(v, D) = v.frames[D].handlers_base
      BY <1>3, <2>2 DEF HandlersBaseAt
    <3>3. PICK b \in Nat : b = v.frames[D].handlers_base
      BY <1>5, <3>1
    <3>4. ~(n <= b)
      BY ONLY <1>4, <1>5, <3>1, <3>3
    <3> QED BY <3>2, <3>3, <3>4
  <2> QED BY <1>3, <1>4, <2>1, <2>2
<1>8. HandlersTopAt(v, D) = n
  <2>1. CASE D = Len(v.frames)
    BY <1>2, <2>1 DEF HandlersTopAt
  <2>2. CASE D < Len(v.frames)
    <3>1. D + 1 \in 1..Len(v.frames)
      BY ONLY <1>3, <1>4, <2>2
    <3>2. HandlersTopAt(v, D) = v.frames[D + 1].handlers_base
      BY <2>2, <1>3 DEF HandlersTopAt
    <3>3. PICK b \in Nat : b = v.frames[D + 1].handlers_base
      BY <1>5, <3>1
    <3>4. ~(n > b) /\ b <= n
      BY ONLY <1>4, <1>5, <3>1, <3>3
    <3> QED BY <3>2, <3>3, <3>4
  <2> QED BY <1>3, <1>4, <2>1, <2>2
<1> QED BY <1>2, <1>3, <1>4, <1>6, <1>7, <1>8 DEF Lowest

(* The machine v stands where the execution u does, its code and its       *)
(* registers apart.                                                        *)
Alike(u, v) ==
    /\ v.stack = u.stack /\ v.frames = u.frames /\ v.handlers = u.handlers
    /\ v.floor = u.floor

(* The body whose handler it is goes on.                                   *)
LandsIn(u, w, D) ==
    /\ D \in Nat /\ D <= Len(u.frames) /\ w.frames = Truncate(u.frames, D)
    /\ w.current.of = CodeAt(u, D).of /\ (w.current.preparing => CodeAt(u, D).preparing)

LEMMA UnwindGoes ==
    ASSUME NEW u, NEW entry \in Nat, NEW chunk \in BOOLEAN, NEW o, NEW m \in Nat,
           Fine(u, entry, chunk, o, m), NEW v \in Vms, Alike(u, v),
           v.current.of = u.current.of, Len(v.handlers) > v.floor.handlers
    PROVE  /\ Goes(u, Unwind(v), entry, chunk, o, m)
           /\ Landed(v, Unwind(v), Last(v.handlers))
           /\ \E D : LandsIn(u, Unwind(v), D)
<1>1. PICK hd, D, n, w : /\ hd = Last(v.handlers) /\ D = hd.frames
                         /\ n = Len(v.handlers) /\ w = Unwind(v)
  OBVIOUS
<1>2. /\ u \in Vms /\ n \in Nat /\ n >= 1 /\ v.handlers \in Seq(Handlers)
      /\ v.frames \in Seq(Frames) /\ v.stack \in Seq(Marks)
      /\ hd = u.handlers[n] /\ n = Len(u.handlers) /\ Len(v.frames) \in Nat
      /\ u.handlers \in Seq(Handlers) /\ u.stack \in Seq(Marks)
      /\ hd \in Handlers
  <2>1. u \in Vms
    BY DEF Fine
  <2>2. n \in Nat /\ n >= 1 /\ v.handlers \in Seq(Handlers) /\ v.handlers # <<>>
    BY <1>1, VmTypes
  <2> QED BY <1>1, <2>1, <2>2, VmTypes, Fronted DEF Alike
<1>3. /\ D \in Lowest(u, chunk)..Len(u.frames)
      /\ HandlersBaseAt(u, D) < n /\ HandlersTopAt(u, D) = n
  BY <1>1, <1>2, LastHandler DEF Alike
<1>4. PICK base, hbase, top, htop, s, h : Rests(u, entry, D, base, hbase, top, htop, s, h)
  BY <1>3, FineRests
<1>5. /\ D \in Nat /\ D >= u.floor.frames /\ D <= Len(u.frames)
      /\ base = BaseAt(u, entry, D) /\ hbase = HandlersBaseAt(u, D)
      /\ base \in Nat /\ hbase \in Nat /\ top \in Nat /\ htop = n
      /\ base <= top /\ top <= Len(u.stack) /\ hbase < n
      /\ s \in Seq(Marks) /\ h \in Seq(Handlers) /\ Len(s) = top /\ Len(h) = n
      /\ s = SubSeq(u.stack, 1, top)
      /\ \A i \in 1..top : s[i] = u.stack[i]
      /\ \A j \in 1..n : h[j] = u.handlers[j]
      /\ Len(u.frames) \in Nat /\ Len(u.stack) \in Nat
  BY <1>2, <1>3, <1>4, VmTypes DEF Rests
<1>6. PICK c, env : c = CodeAt(u, D) /\ env = EnvAt(u, D)
  OBVIOUS
<1>7. c \in Code /\ Level(c, env, s, h, D, base, Len(s), hbase, Len(h))
  BY <1>4, <1>6 DEF Rests
<1>8. Landed(v, w, hd)
  BY <1>1, <1>5, UnwindLands DEF Alike
<1>9. c.of = LandsOn(v, hd, D)
  <2>1. CASE D = Len(u.frames)
    BY <1>6, <2>1 DEF LandsOn, CodeAt, Alike
  <2>2. CASE D # Len(u.frames)
    <3>1. D + 1 \in 1..Len(u.frames)
      BY ONLY <1>2, <1>5, <2>2
    <3>2. u.frames[D + 1].code \in Code
      BY <1>2, <3>1, VmTypes
    <3>3. c = Before(u.frames[D + 1].code)
      BY <1>6, <2>2 DEF CodeAt
    <3>4. c.of = u.frames[D + 1].code.of
      BY <3>2, <3>3, CodeTypes
    <3> QED BY <2>2, <3>4 DEF LandsOn, Alike
  <2> QED BY <2>1, <2>2
<1>11. hd = h[Len(h)] /\ Len(h) > hbase
  BY ONLY <1>2, <1>5, SMTT(30)
<1>10. PICK x, e, s2, h2 : LandedLevel(c, s, h, D, base, hbase, x, e, s2, h2)
  BY ONLY <1>5, <1>7, <1>11, LevelLands
<1>12. /\ x = hd /\ e = [hd.target EXCEPT !.open = Append(@, "operand"), !.of = c.of]
       /\ s2 = Append(SubSeq(s, 1, hd.depth), Mark(e)) /\ h2 = Front(h)
       /\ e \in Code /\ e.of = c.of /\ e.preparing = c.preparing
       /\ hd.depth \in Nat /\ base <= hd.depth /\ hd.depth <= Len(s)
       /\ Level(e, hd.env, s2, h2, D, base, Len(s2), hbase, Len(h2))
  BY <1>10, <1>11 DEF LandedLevel
<1>13. e = LandingCode(v, hd)
  BY <1>1, <1>9, <1>12 DEF LandingCode
<1>14. s2 = w.stack
  <2>1. hd.depth \in Nat /\ hd.depth <= top /\ hd.depth \in 0..Len(u.stack)
    BY <1>5, <1>12, SMTT(30)
  <2>2. SubSeq(s, 1, hd.depth) = SubSeq(u.stack, 1, hd.depth)
    BY ONLY <1>2, <1>5, <2>1, SMTT(30)
  <2>3. Truncate(v.stack, hd.depth) = SubSeq(u.stack, 1, hd.depth)
    <3>1. v.stack = u.stack
      BY DEF Alike
    <3> QED BY ONLY <1>2, <2>1, <3>1, Shorter, ZenonT(60)
  <2> QED BY <1>8, <1>12, <1>13, <2>2, <2>3 DEF Landed
<1>15. h2 = w.handlers
  <2>1. h = v.handlers
    BY <1>2, <1>5, SMTT(30) DEF Alike
  <2> QED BY <1>8, <1>12, <2>1 DEF Landed
<1>16. /\ w \in Vms /\ w.current = e /\ w.regs.env = hd.env /\ w.floor = u.floor
       /\ w.frames = Truncate(u.frames, D)
  BY <1>1, <1>8, <1>13 DEF Landed, Alike
<1>17. Settled(u, w, entry, D)
  <2>1. D \in 0..Len(u.frames) /\ u.frames \in Seq(Frames)
    BY <1>2, <1>5 DEF Alike
  <2>2. Len(w.frames) = D /\ \A i \in 1..D : w.frames[i] = u.frames[i]
    BY <1>16, <2>1, Shorter
  <2>3. PICK dp \in Nat : dp = hd.depth /\ dp >= base /\ dp <= top
    BY ONLY <1>5, <1>12
  <2>4. dp \in 0..Len(s)
    BY <1>5, <2>3
  <2>5. /\ SubSeq(s, 1, dp) \in Seq(Marks) /\ Len(SubSeq(s, 1, dp)) = dp
        /\ \A i \in 1..dp : SubSeq(s, 1, dp)[i] = s[i]
    BY ONLY <1>5, <2>3, PartIs
  <2>6. Mark(e) \in Marks
    BY <1>12, MarkIsOne
  <2>7. /\ Len(s2) = dp + 1 /\ \A i \in 1..dp : s2[i] = s[i]
    BY <1>12, <2>3, <2>5, <2>6, Extended
  <2>8. base <= Len(w.stack) /\ \A i \in 1..base : w.stack[i] = u.stack[i]
    <3>1. \A i \in 1..base : i \in 1..dp /\ i \in 1..top
      BY ONLY <1>5, <2>3
    <3>2. \A i \in 1..base : s2[i] = u.stack[i]
      BY ONLY <1>5, <2>7, <3>1
    <3>3. base <= Len(s2)
      BY ONLY <1>5, <2>3, <2>7
    <3> QED BY <1>14, <3>2, <3>3
  <2>9. h # <<>>
    BY <1>2, <1>5
  <2>10. Len(h2) = n - 1 /\ \A j \in 1..n - 1 : h2[j] = h[j]
    BY ONLY <1>5, <1>12, <2>9, Fronted, ZenonT(60)
  <2>11. hbase <= Len(w.handlers) /\ \A j \in 1..hbase : w.handlers[j] = u.handlers[j]
    <3>1. \A j \in 1..hbase : j \in 1..n - 1 /\ j \in 1..n
      BY ONLY <1>2, <1>5, SMTT(30)
    <3>2. \A j \in 1..hbase : h2[j] = u.handlers[j]
      BY ONLY <1>5, <2>10, <3>1
    <3>3. hbase <= Len(h2)
      BY ONLY <1>2, <1>5, <2>10
    <3> QED BY <1>15, <3>2, <3>3
  <2> QED BY <1>5, <1>16, <2>2, <2>8, <2>11 DEF Settled
<1>18. Level(w.current, w.regs.env, w.stack, w.handlers, D, BaseAt(u, entry, D),
             Len(w.stack), HandlersBaseAt(u, D), Len(w.handlers))
  BY <1>5, <1>12, <1>14, <1>15, <1>16
<1>19. w.current.of = CodeAt(u, D).of /\ (w.current.preparing => CodeAt(u, D).preparing)
  BY <1>6, <1>12, <1>16
<1>20. Goes(u, w, entry, chunk, o, m)
  BY <1>3, <1>16, <1>17, <1>18, <1>19, SameBody
<1>21. LandsIn(u, w, D)
  BY <1>2, <1>5, <1>16, <1>19 DEF LandsIn
<1> QED BY <1>1, <1>8, <1>20, <1>21

(* What is left of an execution whose throw nothing takes.                 *)
LEMMA OverKeeps ==
    ASSUME NEW u \in Vms, NEW entry \in Nat, MarksInOrder(u, entry), NEW w \in Vms,
           w.floor = u.floor, w.frames = Truncate(u.frames, u.floor.frames),
           w.current = NoCode, Len(w.handlers) = u.floor.handlers,
           \A j \in 1..u.floor.handlers : w.handlers[j] = u.handlers[j],
           entry <= Len(w.stack), \A i \in 1..entry : w.stack[i] = u.stack[i]
    PROVE  Over(w, entry) /\ Keeps(u, w, entry)
<1>1. /\ u.floor.frames \in Nat /\ u.floor.handlers \in Nat
      /\ u.floor.frames <= Len(u.frames) /\ u.floor.handlers <= Len(u.handlers)
      /\ u.frames \in Seq(Frames) /\ Len(u.frames) \in Nat /\ Len(w.stack) \in Nat
      /\ Len(u.handlers) \in Nat
  BY VmTypes DEF MarksInOrder
<1>2. Len(w.frames) = u.floor.frames /\ \A i \in 1..u.floor.frames : w.frames[i] = u.frames[i]
  <2>1. u.floor.frames \in 0..Len(u.frames)
    BY ONLY <1>1
  <2>2. PICK t, k : t = u.frames /\ k = u.floor.frames
    OBVIOUS
  <2>3. t \in Seq(Frames) /\ k \in 0..Len(t)
    BY ONLY <1>1, <2>1, <2>2
  <2>4. Len(Truncate(t, k)) = k /\ \A i \in 1..k : Truncate(t, k)[i] = t[i]
    BY ONLY <2>3, Shorter
  <2>5. w.frames = Truncate(t, k)
    BY <2>2
  <2> QED BY ONLY <2>2, <2>4, <2>5
<1>3. ASSUME NEW i \in 1..Len(w.frames)
      PROVE  /\ i \in 1..Len(u.frames) /\ i <= w.floor.frames /\ ~(i > w.floor.frames)
             /\ w.frames[i] = u.frames[i]
             /\ w.frames[i].stack_base \in Nat /\ w.frames[i].handlers_base \in Nat
             /\ w.frames[i].stack_base <= entry
             /\ w.frames[i].handlers_base <= w.floor.handlers
             /\ w.frames[i].stack_base <= Len(w.stack)
             /\ w.frames[i].handlers_base <= Len(w.handlers)
  <2>1. i \in 1..Len(u.frames) /\ i <= u.floor.frames /\ i \in Nat
    BY <1>1, <1>2
  <2>2. /\ u.frames[i].stack_base \in Nat /\ u.frames[i].handlers_base \in Nat
        /\ u.frames[i].stack_base <= entry /\ u.frames[i].handlers_base <= u.floor.handlers
    BY <2>1, FrameMarks
  <2>3. w.frames[i] = u.frames[i]
    BY <1>2
  <2>4. u.frames[i].stack_base <= Len(w.stack)
    BY ONLY <1>1, <2>2, entry \in Nat, entry <= Len(w.stack)
  <2> QED BY <1>1, <2>1, <2>2, <2>3, <2>4
<1>4. ASSUME NEW j \in 1..Len(w.handlers)
      PROVE  /\ j \in 1..Len(u.handlers) /\ j <= w.floor.handlers /\ ~(j > w.floor.handlers)
             /\ w.handlers[j] = u.handlers[j]
             /\ w.handlers[j].frames \in Nat /\ w.handlers[j].depth \in Nat
             /\ w.handlers[j].frames <= w.floor.frames /\ w.handlers[j].depth <= entry
             /\ w.handlers[j].frames <= Len(w.frames) /\ w.handlers[j].depth <= Len(w.stack)
  <2>1. j \in 1..Len(u.handlers) /\ j <= u.floor.handlers /\ j \in Nat
    BY <1>1
  <2>2. /\ u.handlers[j].frames \in Nat /\ u.handlers[j].depth \in Nat
        /\ u.handlers[j].frames <= u.floor.frames /\ u.handlers[j].depth <= entry
    BY <2>1, HandlerMarks
  <2>3. w.handlers[j] = u.handlers[j]
    BY <2>1
  <2>4. u.handlers[j].depth <= Len(w.stack)
    BY ONLY <1>1, <2>2, entry \in Nat, entry <= Len(w.stack)
  <2> QED BY <1>1, <1>2, <2>1, <2>2, <2>3, <2>4
<1>5. \A i, j \in 1..Len(w.frames) : i < j =>
         /\ w.frames[i].stack_base <= w.frames[j].stack_base
         /\ w.frames[i].handlers_base <= w.frames[j].handlers_base
  <2> SUFFICES ASSUME NEW i \in 1..Len(w.frames), NEW j \in 1..Len(w.frames), i < j
               PROVE  /\ w.frames[i].stack_base <= w.frames[j].stack_base
                      /\ w.frames[i].handlers_base <= w.frames[j].handlers_base
    OBVIOUS
  <2>1. i \in 1..Len(u.frames) /\ j \in 1..Len(u.frames) /\ i <= j
    BY <1>3
  <2> QED BY <1>3, <2>1, FramePair
<1>6. \A i, j \in 1..Len(w.handlers) : i < j =>
         /\ w.handlers[i].frames <= w.handlers[j].frames
         /\ w.handlers[i].depth <= w.handlers[j].depth
  <2> SUFFICES ASSUME NEW i \in 1..Len(w.handlers), NEW j \in 1..Len(w.handlers), i < j
               PROVE  /\ w.handlers[i].frames <= w.handlers[j].frames
                      /\ w.handlers[i].depth <= w.handlers[j].depth
    OBVIOUS
  <2>1. i \in 1..Len(u.handlers) /\ j \in 1..Len(u.handlers) /\ i <= j
    BY <1>4
  <2> QED BY <1>4, <2>1, HandlerPair
<1>7. \A i \in 1..Len(w.frames), j \in 1..Len(w.handlers) :
         /\ j <= w.frames[i].handlers_base
               => w.handlers[j].frames < i /\ w.handlers[j].depth <= w.frames[i].stack_base
         /\ j > w.frames[i].handlers_base
               => w.handlers[j].frames >= i /\ w.handlers[j].depth >= w.frames[i].stack_base
  BY <1>3, <1>4, CrossMarks
<1>8. MarksInOrder(w, entry)
  <2>1. /\ w.floor.frames <= Len(w.frames) /\ w.floor.handlers <= Len(w.handlers)
        /\ entry <= Len(w.stack)
    BY <1>1, <1>2
  <2> QED BY ONLY <1>3, <1>4, <1>5, <1>6, <1>7, <2>1, MarksAre, w \in Vms, entry \in Nat
<1>9. Keeps(u, w, entry)
  BY <1>1, <1>2 DEF Keeps
<1> QED BY <1>1, <1>2, <1>8, <1>9 DEF Over

LEMMA UnwindOver ==
    ASSUME NEW u \in Vms, NEW entry \in Nat, MarksInOrder(u, entry), NEW v \in Vms,
           Alike(u, v), ~(Len(v.handlers) > v.floor.handlers)
    PROVE  Over(Unwind(v), entry) /\ Keeps(u, Unwind(v), entry)
<1>1. PICK w : w = Unwind(v)
  OBVIOUS
<1>2. /\ w \in Vms /\ w.floor = v.floor /\ w.thrown
      /\ w.frames = Truncate(v.frames, v.floor.frames)
      /\ w.handlers = v.handlers /\ w.stack = v.stack
      /\ w.current = NoCode
  BY <1>1, UnwindEscapes
<1>3. /\ u.floor.handlers <= Len(u.handlers) /\ entry <= Len(u.stack)
      /\ u.floor.handlers \in Nat /\ Len(u.handlers) \in Nat
  BY VmTypes DEF MarksInOrder
<1>4. Len(w.handlers) = u.floor.handlers
  BY <1>2, <1>3 DEF Alike
<1>5. /\ w.floor = u.floor /\ w.frames = Truncate(u.frames, u.floor.frames)
      /\ \A j \in 1..u.floor.handlers : w.handlers[j] = u.handlers[j]
      /\ entry <= Len(w.stack) /\ \A i \in 1..entry : w.stack[i] = u.stack[i]
  BY <1>2, <1>3 DEF Alike
<1> QED BY <1>1, <1>2, <1>4, <1>5, OverKeeps

-----------------------------------------------------------------------------
(* Returns.                                                                *)

LEMMA AwaitingOpens ==
    ASSUME NEW c \in Code, Awaiting(c)
    PROVE  c = Open(Before(c), "operand") /\ c # NoCode
<1>1. PICK s : s = c.open
  OBVIOUS
<1>2. s \in Seq(Constructs) /\ s # <<>> /\ Last(s) = "operand"
  BY <1>1 DEF Code, Awaiting
<1>3. s = Append(Front(s), Last(s))
  <2>1. /\ Front(s) \in Seq(Constructs) /\ Len(Front(s)) = Len(s) - 1
        /\ \A i \in 1..Len(s) - 1 : Front(s)[i] = s[i]
        /\ Last(s) = s[Len(s)] /\ Last(s) \in Constructs /\ Len(s) >= 1
    BY <1>2, Fronted
  <2>2. PICK f, x : f = Front(s) /\ x = Last(s)
    OBVIOUS
  <2>3. /\ Append(f, x) \in Seq(Constructs) /\ Len(Append(f, x)) = Len(s)
        /\ \A i \in 1..Len(s) - 1 : Append(f, x)[i] = s[i]
        /\ Append(f, x)[Len(s)] = s[Len(s)]
    BY <1>2, <2>1, <2>2
  <2>4. \A i \in 1..Len(s) : Append(f, x)[i] = s[i]
    BY <2>1, <2>3
  <2> QED BY <1>2, <2>2, <2>3, <2>4
<1>4. c = Open(Before(c), "operand")
  BY <1>1, <1>2, <1>3, Zenon DEF Open, Before, Code
<1>5. c # NoCode
  BY <1>1, <1>2 DEF NoCode
<1> QED BY <1>4, <1>5

Left(v, w) ==
    LET frame == v.frames[Len(v.frames)]
    IN  /\ w \in Vms /\ w.floor = v.floor /\ w.frames = Front(v.frames)
        /\ w.stack = Append(SubSeq(v.stack, 1, frame.stack_base), Mark(frame.code))
        /\ w.handlers = SubSeq(v.handlers, 1, frame.handlers_base)
        /\ w.regs = frame.regs
        /\ w.current = frame.code

LEMMA LeaveFrameLeaves ==
    ASSUME NEW v \in Vms, v.frames # <<>>,
           v.frames[Len(v.frames)].stack_base <= Len(v.stack),
           v.frames[Len(v.frames)].handlers_base <= Len(v.handlers)
    PROVE  /\ Left(v, LeaveFrame(v))
           /\ Left(v, [LeaveFrame(v) EXCEPT !.references = <<>>])
<1>1. PICK n, frame : n = Len(v.frames) /\ frame = v.frames[n]
  OBVIOUS
<1>2. /\ v.frames \in Seq(Frames) /\ n \in 1..Len(v.frames) /\ Last(v.frames) = frame
      /\ Front(v.frames) \in Seq(Frames)
  <2>1. v.frames \in Seq(Frames)
    BY VmTypes
  <2>2. /\ Front(v.frames) \in Seq(Frames) /\ Len(v.frames) >= 1
        /\ Last(v.frames) = v.frames[Len(v.frames)]
    BY <2>1, Fronted
  <2> QED BY <1>1, <2>1, <2>2
<1>3. /\ frame.stack_base \in Nat /\ frame.handlers_base \in Nat
      /\ frame.code \in Code /\ frame.regs \in Registers
  BY <1>1, <1>2, VmTypes
<1>4. PICK stack, handlers, frames :
         /\ stack = Append(SubSeq(v.stack, 1, frame.stack_base), Mark(frame.code))
         /\ handlers = SubSeq(v.handlers, 1, frame.handlers_base)
         /\ frames = Front(v.frames)
  OBVIOUS
<1>5. /\ stack = Append(Truncate(v.stack, frame.stack_base), Mark(frame.code))
      /\ handlers = Truncate(v.handlers, frame.handlers_base)
      /\ stack \in Seq(Marks) /\ handlers \in Seq(Handlers)
  <2>1. /\ frame.stack_base \in 0..Len(v.stack) /\ frame.handlers_base \in 0..Len(v.handlers)
        /\ v.stack \in Seq(Marks) /\ v.handlers \in Seq(Handlers)
    BY <1>1, <1>3, VmTypes
  <2>2. /\ Truncate(v.stack, frame.stack_base) = SubSeq(v.stack, 1, frame.stack_base)
        /\ Truncate(v.handlers, frame.handlers_base) = SubSeq(v.handlers, 1, frame.handlers_base)
        /\ SubSeq(v.stack, 1, frame.stack_base) \in Seq(Marks)
        /\ SubSeq(v.handlers, 1, frame.handlers_base) \in Seq(Handlers)
    <3>1. PICK s, t, a, b : /\ s = v.stack /\ t = v.handlers
                            /\ a = frame.stack_base /\ b = frame.handlers_base
      OBVIOUS
    <3>2. s \in Seq(Marks) /\ a \in 0..Len(s) /\ t \in Seq(Handlers) /\ b \in 0..Len(t)
      BY ONLY <2>1, <3>1
    <3>3. Truncate(s, a) = SubSeq(s, 1, a) /\ Truncate(s, a) \in Seq(Marks)
      BY ONLY <3>2, Shorter
    <3>4. Truncate(t, b) = SubSeq(t, 1, b) /\ Truncate(t, b) \in Seq(Handlers)
      BY ONLY <3>2, Shorter
    <3> QED BY ONLY <3>1, <3>3, <3>4
  <2>3. Mark(frame.code) \in Marks
    BY <1>3, MarkIsOne
  <2> QED BY <1>4, <2>2, <2>3, Extended
<1>6. LeaveFrame(v) = [v EXCEPT !.frames = frames, !.stack = stack, !.handlers = handlers,
                                !.regs = frame.regs, !.current = frame.code]
  BY <1>2, <1>4, <1>5 DEF LeaveFrame
<1>7. PICK w, x : w = LeaveFrame(v) /\ x = [w EXCEPT !.references = <<>>]
  OBVIOUS
<1>8. /\ w \in Vms /\ w.floor = v.floor /\ w.frames = frames /\ w.stack = stack
      /\ w.handlers = handlers /\ w.regs = frame.regs /\ w.current = frame.code
  BY <1>2, <1>3, <1>4, <1>5, <1>6, <1>7 DEF Vms
<1>9. <<>> \in Seq(Marks)
  OBVIOUS
<1>10. /\ x \in Vms /\ x.floor = v.floor /\ x.frames = frames /\ x.stack = stack
       /\ x.handlers = handlers /\ x.regs = frame.regs /\ x.current = frame.code
  BY <1>7, <1>8, <1>9 DEF Vms
<1> QED BY <1>1, <1>4, <1>7, <1>8, <1>10, Zenon DEF Left

LEMMA LeftGoes ==
    ASSUME NEW v, NEW entry \in Nat, NEW chunk \in BOOLEAN, NEW o, NEW m \in Nat,
           Fine(v, entry, chunk, o, m), NEW w, Left(v, w),
           Len(v.frames) - 1 \in Lowest(v, chunk)..Len(v.frames)
    PROVE  Goes(v, w, entry, chunk, o, m) /\ w.current # NoCode
<1>1. PICK n, frame, D : n \in Int /\ n = Len(v.frames) /\ frame = v.frames[n] /\ D = n - 1
  BY DEF Fine, Vms
<1>2. PICK base, hbase, top, htop, s, h : Rests(v, entry, D, base, hbase, top, htop, s, h)
  BY <1>1, FineRests
<1>3. /\ v \in Vms /\ v.floor.frames \in Nat /\ D \in Nat /\ D >= v.floor.frames
      /\ D + 1 \in 1..Len(v.frames) /\ D + 1 = n /\ D < Len(v.frames) /\ D # Len(v.frames)
  BY <1>1, VmTypes, SMTT(30) DEF Fine, Lowest
<1>4. PICK c, env : c = CodeAt(v, D) /\ env = EnvAt(v, D)
  OBVIOUS
<1>5. /\ base = BaseAt(v, entry, D) /\ hbase = HandlersBaseAt(v, D)
      /\ top = TopAt(v, D) /\ htop = HandlersTopAt(v, D)
      /\ base \in Nat /\ hbase \in Nat /\ top \in Nat /\ htop \in Nat
      /\ base <= top /\ hbase <= htop
      /\ c \in Code
      /\ s = SubSeq(v.stack, 1, top) /\ h = SubSeq(v.handlers, 1, htop)
      /\ s \in Seq(Marks) /\ h \in Seq(Handlers) /\ Len(s) = top /\ Len(h) = htop
      /\ \A i \in 1..top : s[i] = v.stack[i]
      /\ \A j \in 1..htop : h[j] = v.handlers[j]
      /\ Level(c, env, s, h, D, base, Len(s), hbase, Len(h))
  BY <1>2, <1>4 DEF Rests
<1>6. Awaiting(frame.code)
  BY <1>1, <1>2, <1>3 DEF Rests
<1>7. /\ c = Before(frame.code) /\ env = frame.regs.env
      /\ top = frame.stack_base /\ htop = frame.handlers_base
  BY <1>1, <1>3, <1>4, <1>5 DEF CodeAt, EnvAt, TopAt, HandlersTopAt
<1>8. frame.code \in Code
  BY <1>1, <1>3, VmTypes
<1>9. frame.code = Open(c, "operand") /\ frame.code # NoCode /\ "operand" \in Constructs
  BY <1>6, <1>7, <1>8, AwaitingOpens DEF Constructs
<1>10. PICK e, s2 : e = frame.code /\ s2 = Append(s, Mark(e))
  OBVIOUS
<1>11. Level(e, env, s2, h, D, base, Len(s2), hbase, Len(h))
  BY ONLY <1>5, <1>9, <1>10, LevelAnswers
<1>12. e.of = c.of /\ e.preparing = c.preparing
  BY <1>5, <1>9, <1>10, OpenCode, SMTT(30)
<1>13. /\ w \in Vms /\ w.current = e /\ w.stack = s2 /\ w.handlers = h /\ w.regs.env = env
       /\ w.floor = v.floor /\ w.frames = Front(v.frames)
  BY <1>1, <1>5, <1>7, <1>10 DEF Left
<1>14. Settled(v, w, entry, D)
  <2>1. Len(w.frames) = D /\ \A i \in 1..D : w.frames[i] = v.frames[i]
    <3>1. v.frames \in Seq(Frames) /\ v.frames # <<>>
      BY <1>3, VmTypes
    <3> QED BY ONLY <1>1, <1>13, <3>1, Fronted
  <2>2. Mark(e) \in Marks
    BY <1>8, <1>10, MarkIsOne
  <2>3. Len(s2) = top + 1 /\ \A i \in 1..top : s2[i] = s[i]
    BY <1>5, <1>10, <2>2, Extended
  <2>4. \A i \in 1..base : i \in 1..top
    BY ONLY <1>5
  <2>5. base <= Len(s2) /\ \A i \in 1..base : s2[i] = v.stack[i]
    BY ONLY <1>5, <2>3, <2>4
  <2>6. hbase <= Len(h) /\ \A j \in 1..hbase : h[j] = v.handlers[j]
    BY ONLY <1>5
  <2> QED BY <1>5, <1>13, <2>1, <2>5, <2>6 DEF Settled
<1>15. Level(w.current, w.regs.env, w.stack, w.handlers, D, BaseAt(v, entry, D),
             Len(w.stack), HandlersBaseAt(v, D), Len(w.handlers))
  BY <1>5, <1>11, <1>13
<1>16. w.current.of = CodeAt(v, D).of /\ (w.current.preparing => CodeAt(v, D).preparing)
  BY <1>4, <1>12, <1>13
<1>17. D \in Lowest(v, chunk)..Len(v.frames)
  BY <1>1
<1>18. Goes(v, w, entry, chunk, o, m)
  BY <1>13, <1>14, <1>15, <1>16, <1>17, SameBody
<1> QED BY <1>9, <1>10, <1>13, <1>18

LEMMA LeftOver ==
    ASSUME NEW v, NEW entry \in Nat, NEW chunk \in BOOLEAN, NEW o, NEW m \in Nat,
           Fine(v, entry, chunk, o, m), NEW w, Left(v, w),
           Len(v.frames) > v.floor.frames,
           ~(Len(v.frames) - 1 \in Lowest(v, chunk)..Len(v.frames))
    PROVE  Over(w, entry) /\ Keeps(v, w, entry) /\ ~chunk
<1>1. /\ v \in Vms /\ MarksInOrder(v, entry) /\ (~chunk => Bottom(v, entry))
      /\ v.frames \in Seq(Frames) /\ v.stack \in Seq(Marks) /\ v.handlers \in Seq(Handlers)
      /\ Len(v.frames) \in Nat /\ v.floor.frames \in Nat /\ v.floor.handlers \in Nat
      /\ Len(v.stack) \in Nat /\ Len(v.handlers) \in Nat
  BY VmTypes DEF Fine
<1>2. /\ ~chunk /\ Len(v.frames) = v.floor.frames + 1
      /\ v.floor.frames + 1 \in 1..Len(v.frames)
  <2>1. PICK n \in Nat, k \in Nat : n = Len(v.frames) /\ k = v.floor.frames
    BY <1>1
  <2>2. n > k /\ ~(n - 1 \in Lowest(v, chunk)..n)
    BY <2>1
  <2>3. Lowest(v, chunk) = IF chunk THEN k ELSE k + 1
    BY ONLY <2>1 DEF Lowest
  <2>4. ~chunk
    <3> SUFFICES ASSUME chunk PROVE FALSE
      OBVIOUS
    <3>1. ~(n - 1 \in k..n)
      BY ONLY <2>2, <2>3, chunk
    <3> QED BY ONLY <2>2, <3>1, n \in Nat, k \in Nat
  <2>5. ~(n - 1 \in k + 1..n)
    BY ONLY <2>2, <2>3, <2>4
  <2>6. n = k + 1 /\ k + 1 \in 1..n
    BY ONLY <2>2, <2>5, n \in Nat, k \in Nat
  <2> QED BY ONLY <2>1, <2>4, <2>6
<1>3. PICK frame : frame = v.frames[Len(v.frames)]
  OBVIOUS
<1>4. frame.code = NoCode /\ frame.stack_base = entry /\ frame.handlers_base = v.floor.handlers
  BY <1>1, <1>2, <1>3 DEF Bottom
<1>5. entry <= Len(v.stack) /\ v.floor.handlers <= Len(v.handlers)
  BY <1>1 DEF MarksInOrder
<1>6. /\ w \in Vms /\ w.floor = v.floor /\ w.frames = Front(v.frames)
      /\ w.stack = Append(SubSeq(v.stack, 1, entry), Mark(NoCode))
      /\ w.handlers = SubSeq(v.handlers, 1, v.floor.handlers)
      /\ w.current = NoCode
  BY <1>3, <1>4 DEF Left
<1>7. w.frames = Truncate(v.frames, v.floor.frames)
  <2>1. Front(v.frames) = SubSeq(v.frames, 1, v.floor.frames)
    BY <1>1, <1>2 DEF Front
  <2>2. v.floor.frames \in 0..Len(v.frames)
    BY <1>1, <1>2
  <2> QED BY ONLY <1>1, <1>6, <2>1, <2>2, Shorter
<1>8. /\ Len(w.handlers) = v.floor.handlers
      /\ \A j \in 1..v.floor.handlers : w.handlers[j] = v.handlers[j]
  BY <1>1, <1>5, <1>6, PartIs, SMTT(30)
<1>9. entry <= Len(w.stack) /\ \A i \in 1..entry : w.stack[i] = v.stack[i]
  <2>1. /\ SubSeq(v.stack, 1, entry) \in Seq(Marks) /\ Len(SubSeq(v.stack, 1, entry)) = entry
        /\ \A i \in 1..entry : SubSeq(v.stack, 1, entry)[i] = v.stack[i]
    BY <1>1, <1>5, PartIs
  <2> QED BY <1>6, <2>1
<1> QED BY <1>1, <1>2, <1>6, <1>7, <1>8, <1>9, OverKeeps

-----------------------------------------------------------------------------
(* Calls.                                                                  *)

(* More bodies have been entered.                                          *)
LEMMA FineMore ==
    ASSUME NEW v, NEW entry, NEW chunk, NEW o, NEW m \in Nat, NEW p, NEW q \in Nat,
           Fine(v, entry, chunk, o, m), m <= q, \A a \in 1..m : p[a] = o[a]
    PROVE  Fine(v, entry, chunk, p, q)
<1>1. ASSUME NEW d \in Lowest(v, chunk)..Len(v.frames)
      PROVE  Sits(v, entry, d, p, q)
  <2>1. Sits(v, entry, d, o, m)
    BY DEF Fine
  <2>2. Belongs(v, d, o, m)
    BY <2>1 DEF Sits
  <2>3. Belongs(v, d, p, q)
    BY <2>2 DEF Belongs
  <2> QED BY <2>1, <2>3 DEF Sits
<1> QED BY <1>1 DEF Fine

Pushed(v, w, f) ==
    /\ w \in Vms /\ w.floor = v.floor /\ w.frames = Append(v.frames, f)
    /\ f \in Frames /\ f.stack_base = Len(v.stack) /\ f.handlers_base = Len(v.handlers)
    /\ Len(v.stack) <= Len(w.stack) /\ \A i \in 1..Len(v.stack) : w.stack[i] = v.stack[i]
    /\ Len(v.handlers) <= Len(w.handlers)
    /\ \A j \in 1..Len(v.handlers) : w.handlers[j] = v.handlers[j]

LEMMA PushedMarks ==
    ASSUME NEW v \in Vms, NEW entry \in Nat, MarksInOrder(v, entry),
           NEW w, NEW f, Pushed(v, w, f),
           HandlersStand(w.handlers, Len(v.handlers), Len(w.handlers), Len(v.frames) + 1,
                         Len(v.stack), Len(w.stack))
    PROVE  MarksInOrder(w, entry) /\ Keeps(v, w, entry)
<1>1. PICK D \in Nat, base \in Nat, hbase \in Nat, top \in Nat, htop \in Nat :
         /\ D = Len(v.frames) /\ base = Len(v.stack) /\ hbase = Len(v.handlers)
         /\ top = Len(w.stack) /\ htop = Len(w.handlers)
  BY VmTypes DEF Pushed
<1>2. /\ w \in Vms /\ w.floor = v.floor /\ Len(w.frames) = D + 1
      /\ \A i \in 1..D : w.frames[i] = v.frames[i]
      /\ w.frames[D + 1] = f
      /\ f.stack_base = base /\ f.handlers_base = hbase
      /\ base <= top /\ hbase <= htop
      /\ \A i \in 1..base : w.stack[i] = v.stack[i]
      /\ \A j \in 1..hbase : w.handlers[j] = v.handlers[j]
  <2>1. v.frames \in Seq(Frames) /\ f \in Frames
    BY VmTypes DEF Pushed
  <2> QED BY <1>1, <2>1, Extended DEF Pushed
<1>3. PICK ff \in Nat, fh \in Nat : ff = v.floor.frames /\ fh = v.floor.handlers
  BY VmTypes
<1>4. ff <= D /\ fh <= hbase /\ entry <= base
  BY <1>1, <1>3 DEF MarksInOrder
<1>5. /\ \A j \in hbase + 1..htop : /\ w.handlers[j].frames = D + 1
                                    /\ w.handlers[j].depth \in base..top
      /\ \A i, j \in hbase + 1..htop : i < j => w.handlers[i].depth <= w.handlers[j].depth
  BY <1>1 DEF HandlersStand
<1>6. ASSUME NEW i \in 1..D
      PROVE  /\ w.frames[i] = v.frames[i]
             /\ w.frames[i].stack_base \in Nat /\ w.frames[i].handlers_base \in Nat
             /\ w.frames[i].stack_base <= base /\ w.frames[i].handlers_base <= hbase
             /\ i <= ff => w.frames[i].stack_base <= entry /\ w.frames[i].handlers_base <= fh
             /\ i > ff => w.frames[i].stack_base >= entry /\ w.frames[i].handlers_base >= fh
  <2>1. i \in 1..Len(v.frames)
    BY <1>1
  <2> QED BY <1>1, <1>2, <1>3, <2>1, FrameMarks, ZenonT(60)
<1>7. ASSUME NEW j \in 1..hbase
      PROVE  /\ w.handlers[j] = v.handlers[j]
             /\ w.handlers[j].frames \in Nat /\ w.handlers[j].depth \in Nat
             /\ w.handlers[j].frames <= D /\ w.handlers[j].depth <= base
             /\ j <= fh => w.handlers[j].frames <= ff /\ w.handlers[j].depth <= entry
             /\ j > fh => w.handlers[j].frames >= ff /\ w.handlers[j].depth >= entry
  <2>1. j \in 1..Len(v.handlers)
    BY <1>1
  <2> QED BY <1>1, <1>2, <1>3, <2>1, HandlerMarks, SMTT(30)
<1>8. \A i \in 1..D + 1 : i \in 1..D \/ i = D + 1
  OBVIOUS
<1>9. \A j \in 1..htop : j \in 1..hbase \/ (j \in hbase + 1..htop /\ j > hbase)
  OBVIOUS
<1>10. ASSUME NEW i \in 1..D + 1
       PROVE  /\ w.frames[i].stack_base <= top /\ w.frames[i].handlers_base <= htop
              /\ i <= ff => w.frames[i].stack_base <= entry /\ w.frames[i].handlers_base <= fh
              /\ i > ff => w.frames[i].stack_base >= entry /\ w.frames[i].handlers_base >= fh
  <2>1. CASE i \in 1..D
    <3>1. PICK a \in Nat, b \in Nat : a = w.frames[i].stack_base /\ b = w.frames[i].handlers_base
      BY <1>6, <2>1
    <3>2. a <= base /\ b <= hbase
      BY <1>6, <2>1, <3>1
    <3>3. a <= top /\ b <= htop
      BY ONLY <1>2, <3>2, a \in Nat, b \in Nat, base \in Nat, top \in Nat, hbase \in Nat, htop \in Nat
    <3> QED BY <1>6, <2>1, <3>1, <3>3
  <2>2. CASE i = D + 1
    BY <1>2, <1>4, <2>2
  <2> QED BY <1>8, <2>1, <2>2
<1>11. ASSUME NEW i \in 1..D + 1, NEW j \in 1..D + 1, i < j
       PROVE  /\ w.frames[i].stack_base <= w.frames[j].stack_base
              /\ w.frames[i].handlers_base <= w.frames[j].handlers_base
  <2>0. i \in 1..D
    BY <1>11
  <2>1. CASE j \in 1..D
    <3>1. i \in 1..Len(v.frames) /\ j \in 1..Len(v.frames) /\ i <= j
      BY <1>1, <1>11, <2>0, <2>1
    <3>2. /\ v.frames[i].stack_base <= v.frames[j].stack_base
          /\ v.frames[i].handlers_base <= v.frames[j].handlers_base
      BY <3>1, FramePair
    <3> QED BY <1>2, <2>0, <2>1, <3>2
  <2>2. CASE j = D + 1
    BY <1>2, <1>6, <2>0, <2>2
  <2> QED BY <1>8, <2>1, <2>2
<1>12. ASSUME NEW j \in 1..htop
       PROVE  /\ w.handlers[j].frames <= D + 1 /\ w.handlers[j].depth <= top
              /\ j <= fh => w.handlers[j].frames <= ff /\ w.handlers[j].depth <= entry
              /\ j > fh => w.handlers[j].frames >= ff /\ w.handlers[j].depth >= entry
  <2>1. CASE j \in 1..hbase
    <3>1. PICK a \in Nat, b \in Nat : a = w.handlers[j].frames /\ b = w.handlers[j].depth
      BY <1>7, <2>1
    <3>2. a <= D /\ b <= base
      BY <1>7, <2>1, <3>1
    <3>3. a <= D + 1 /\ b <= top
      BY ONLY <1>2, <3>2, a \in Nat, b \in Nat, base \in Nat, top \in Nat, D \in Nat
    <3> QED BY <1>7, <2>1, <3>1, <3>3
  <2>2. CASE j \in hbase + 1..htop
    <3>1. PICK b \in Nat : b = w.handlers[j].depth /\ b >= base /\ b <= top
      BY ONLY <1>5, <2>2
    <3>2. w.handlers[j].frames = D + 1
      BY <1>5, <2>2
    <3>3. ~(j <= fh) /\ b >= entry /\ D + 1 >= ff
      BY <1>4, <2>2, <3>1
    <3> QED BY <3>1, <3>2, <3>3
  <2> QED BY <1>9, <2>1, <2>2
<1>13. ASSUME NEW i \in 1..htop, NEW j \in 1..htop, i < j
       PROVE  /\ w.handlers[i].frames <= w.handlers[j].frames
              /\ w.handlers[i].depth <= w.handlers[j].depth
  <2>1. CASE j \in 1..hbase
    <3>1. i \in 1..Len(v.handlers) /\ j \in 1..Len(v.handlers) /\ i <= j /\ i \in 1..hbase
      BY <1>1, <1>13, <2>1
    <3>2. /\ v.handlers[i].frames <= v.handlers[j].frames
          /\ v.handlers[i].depth <= v.handlers[j].depth
      BY <3>1, HandlerPair
    <3> QED BY <1>2, <2>1, <3>1, <3>2
  <2>2. CASE j \in hbase + 1..htop
    <3>1. PICK b \in Nat : b = w.handlers[j].depth /\ b >= base /\ w.handlers[j].frames = D + 1
      BY <1>5, <2>2, SMTT(30)
    <3>2. CASE i \in 1..hbase
      <4>1. PICK a \in Nat, c \in Nat : a = w.handlers[i].frames /\ c = w.handlers[i].depth
        BY <1>7, <3>2
      <4>2. a <= D /\ c <= base
        BY <1>7, <3>2, <4>1
      <4>3. a <= D + 1 /\ c <= b
        BY ONLY <3>1, <4>2, a \in Nat, b \in Nat, c \in Nat, base \in Nat, D \in Nat
      <4> QED BY <3>1, <4>1, <4>3
    <3>3. CASE i \in hbase + 1..htop
      <4>1. w.handlers[i].frames = D + 1
        BY <1>5, <3>3
      <4> QED BY <1>5, <1>13, <2>2, <3>1, <3>3, <4>1
    <3> QED BY <1>9, <3>2, <3>3
  <2> QED BY <1>9, <2>1, <2>2
<1>14. ASSUME NEW i \in 1..D + 1, NEW j \in 1..htop
       PROVE  /\ j <= w.frames[i].handlers_base
                    => w.handlers[j].frames < i /\ w.handlers[j].depth <= w.frames[i].stack_base
              /\ j > w.frames[i].handlers_base
                    => w.handlers[j].frames >= i /\ w.handlers[j].depth >= w.frames[i].stack_base
  <2>1. CASE i \in 1..D
    <3>1. PICK a \in Nat, b \in Nat : /\ a = w.frames[i].stack_base /\ b = w.frames[i].handlers_base
                                      /\ a <= base /\ b <= hbase
      BY <1>6, <2>1
    <3>2. CASE j \in 1..hbase
      <4>1. i \in 1..Len(v.frames) /\ j \in 1..Len(v.handlers)
        BY <1>1, <2>1, <3>2
      <4> QED BY <1>2, <2>1, <3>2, <4>1, CrossMarks, ZenonT(60)
    <3>3. CASE j \in hbase + 1..htop
      <4>0. w.handlers[j].frames = D + 1 /\ w.handlers[j].depth \in base..top
        BY ONLY <1>5, <3>3
      <4>1. PICK e \in Nat : e = w.handlers[j].depth /\ e >= base /\ w.handlers[j].frames = D + 1
        BY <4>0
      <4>2. ~(j <= b) /\ e >= a /\ D + 1 >= i
        BY ONLY <3>1, <3>3, <4>1, i \in 1..D, <2>1, a \in Nat, b \in Nat, e \in Nat, base \in Nat,
                hbase \in Nat, D \in Nat
      <4> QED BY <3>1, <4>1, <4>2
    <3> QED BY <1>9, <3>2, <3>3
  <2>2. CASE i = D + 1
    <3>1. w.frames[i].stack_base = base /\ w.frames[i].handlers_base = hbase
      BY <1>2, <2>2
    <3>2. CASE j \in 1..hbase
      <4>1. PICK a \in Nat, c \in Nat : a = w.handlers[j].frames /\ c = w.handlers[j].depth
        BY <1>7, <3>2
      <4>2. a <= D /\ c <= base
        BY <1>7, <3>2, <4>1
      <4>3. a < D + 1 /\ j <= hbase /\ ~(j > hbase)
        BY <3>2, <4>2
      <4> QED BY <2>2, <3>1, <4>1, <4>2, <4>3
    <3>3. CASE j \in hbase + 1..htop
      <4>0. w.handlers[j].frames = D + 1 /\ w.handlers[j].depth \in base..top
        BY ONLY <1>5, <3>3
      <4>1. PICK e \in Nat : e = w.handlers[j].depth /\ e >= base /\ w.handlers[j].frames = D + 1
        BY <4>0
      <4>2. ~(j <= hbase)
        BY <3>3
      <4> QED BY <2>2, <3>1, <4>1, <4>2
    <3> QED BY <1>9, <3>2, <3>3
  <2> QED BY <1>8, <2>1, <2>2
<1>15. ff <= D + 1 /\ fh <= htop /\ entry <= top
  BY ONLY <1>2, <1>4, ff \in Nat, D \in Nat, fh \in Nat, htop \in Nat, hbase \in Nat, entry \in Nat,
          base \in Nat, top \in Nat
<1>16. MarksInOrder(w, entry)
  <2>1. /\ w.floor.frames = ff /\ w.floor.handlers = fh /\ Len(w.frames) = D + 1
        /\ Len(w.handlers) = htop /\ Len(w.stack) = top
    BY <1>1, <1>2, <1>3
  <2> QED BY ONLY <1>2, <1>10, <1>11, <1>12, <1>13, <1>14, <1>15, <2>1, MarksAre, entry \in Nat
<1>17. Keeps(v, w, entry)
  <2>1. /\ \A i \in 1..entry : i \in 1..base
        /\ \A i \in 1..ff : i \in 1..D
        /\ \A j \in 1..fh : j \in 1..hbase
    BY <1>4
  <2> QED BY <1>1, <1>2, <1>3, <1>15, <2>1 DEF Keeps
<1> QED BY <1>16, <1>17

(* What a body called at `depth` has to be.                                *)
Enters(w, o, m, f) ==
    /\ w.current \in Code /\ w.current.of \in 1..m
    /\ o[w.current.of].kind \in Bodies
    /\ w.current.preparing => o[w.current.of].kind = "generator"
    /\ f.generator # Nobody => w.current.of = f.generator /\ ~w.current.preparing

PushedLevel(v, w) ==
    Level(w.current, w.regs.env, w.stack, w.handlers, Len(v.frames) + 1,
          Len(v.stack), Len(w.stack), Len(v.handlers), Len(w.handlers))

LEMMA PushedTop ==
    ASSUME NEW v \in Vms, NEW entry \in Nat, MarksInOrder(v, entry), NEW o, NEW m \in Nat,
           NEW w, NEW f, Pushed(v, w, f), Enters(w, o, m, f), PushedLevel(v, w)
    PROVE  /\ MarksInOrder(w, entry) /\ Keeps(v, w, entry)
           /\ Sits(w, entry, Len(v.frames) + 1, o, m)
<1>1. PICK D \in Nat, base \in Nat, hbase \in Nat, top \in Nat, htop \in Nat :
         /\ D = Len(v.frames) /\ base = Len(v.stack) /\ hbase = Len(v.handlers)
         /\ top = Len(w.stack) /\ htop = Len(w.handlers)
  BY VmTypes DEF Pushed
<1>2. /\ w \in Vms /\ w.floor = v.floor /\ Len(w.frames) = D + 1
      /\ w.frames[D + 1] = f
      /\ f.stack_base = base /\ f.handlers_base = hbase
  <2>1. v.frames \in Seq(Frames) /\ f \in Frames
    BY VmTypes DEF Pushed
  <2> QED BY <1>1, <2>1, Extended DEF Pushed
<1>3. PICK c, env, s, h : c = w.current /\ env = w.regs.env /\ s = w.stack /\ h = w.handlers
  OBVIOUS
<1>4. c \in Code /\ Level(c, env, s, h, D + 1, base, top, hbase, htop)
  BY <1>1, <1>3 DEF PushedLevel, Enters
<1>5. D + 1 \in Nat
  OBVIOUS
<1>6. HandlersStand(h, hbase, htop, D + 1, base, top)
  BY ONLY <1>4, <1>5, LevelMarks, base \in Nat, hbase \in Nat, top \in Nat, htop \in Nat
<1>7. MarksInOrder(w, entry) /\ Keeps(v, w, entry)
  BY <1>1, <1>3, <1>6, PushedMarks
<1>8. D >= v.floor.frames /\ v.floor.frames \in Nat
  BY <1>1, VmTypes DEF MarksInOrder
<1>9. /\ CodeAt(w, D + 1) = c /\ EnvAt(w, D + 1) = env
      /\ TopAt(w, D + 1) = top /\ HandlersTopAt(w, D + 1) = htop
  BY <1>1, <1>2, <1>3 DEF CodeAt, EnvAt, TopAt, HandlersTopAt
<1>10. BaseAt(w, entry, D + 1) = base /\ HandlersBaseAt(w, D + 1) = hbase
  BY <1>2, <1>8 DEF BaseAt, HandlersBaseAt
<1>11. Belongs(w, D + 1, o, m)
  BY <1>2, <1>3, <1>8, <1>9, SMTT(30) DEF Belongs, Enters
<1>12. Sits(w, entry, D + 1, o, m)
  BY <1>2, <1>3, <1>4, <1>9, <1>10, <1>11 DEF Sits
<1> QED BY <1>1, <1>7, <1>12

LEMMA PushedGoes ==
    ASSUME NEW v, NEW entry \in Nat, NEW chunk \in BOOLEAN, NEW o, NEW m \in Nat,
           Fine(v, entry, chunk, o, m),
           NEW w, NEW f, Pushed(v, w, f), Enters(w, o, m, f), PushedLevel(v, w),
           f.code = Open(v.current, "operand"), f.regs.env = v.regs.env
    PROVE  Goes(v, w, entry, chunk, o, m)
<1>1. v \in Vms /\ MarksInOrder(v, entry) /\ (~chunk => Bottom(v, entry))
  BY DEF Fine
<1>2. PICK D \in Nat, top \in Nat, htop \in Nat :
         D = Len(v.frames) /\ top = Len(v.stack) /\ htop = Len(v.handlers)
  BY <1>1, VmTypes
<1>3. /\ MarksInOrder(w, entry) /\ Keeps(v, w, entry)
      /\ Sits(w, entry, D + 1, o, m)
  BY <1>1, <1>2, PushedTop
<1>4. /\ w \in Vms /\ w.floor = v.floor /\ Len(w.frames) = D + 1
      /\ \A i \in 1..D : w.frames[i] = v.frames[i]
      /\ w.frames[D + 1] = f
      /\ f.stack_base = top /\ f.handlers_base = htop
      /\ top <= Len(w.stack) /\ htop <= Len(w.handlers)
      /\ \A i \in 1..top : w.stack[i] = v.stack[i]
      /\ \A j \in 1..htop : w.handlers[j] = v.handlers[j]
  <2>1. v.frames \in Seq(Frames) /\ f \in Frames
    BY <1>1, VmTypes DEF Pushed
  <2> QED BY <1>2, <2>1, Extended DEF Pushed
<1>5. v.floor.frames \in Nat /\ v.floor.handlers \in Nat /\ D >= v.floor.frames
  BY <1>1, <1>2, VmTypes DEF MarksInOrder
<1>6. Sits(v, entry, D, o, m)
  BY <1>2, FineDepth DEF Fine
<1>7. Sits(w, entry, D, o, m)
  <2>1. PICK c, env, base, hbase : /\ c = v.current /\ env = v.regs.env
                                   /\ base = BaseAt(v, entry, D) /\ hbase = HandlersBaseAt(v, D)
    OBVIOUS
  <2>2. /\ CodeAt(v, D) = c /\ EnvAt(v, D) = env
        /\ TopAt(v, D) = top /\ HandlersTopAt(v, D) = htop
    BY <1>2, <2>1 DEF CodeAt, EnvAt, TopAt, HandlersTopAt
  <2>3. Runs(v, entry, o, m, D, base, hbase)
    BY <1>2, <2>1, FineTop
  <2>4. base \in Nat /\ hbase \in Nat /\ c \in Code
    BY <2>1, <2>3 DEF Runs
  <2>5. Level(c, env, v.stack, v.handlers, D, base, top, hbase, htop)
    BY <1>6, <2>1, <2>2 DEF Sits
  <2>6. /\ \A i \in base + 1..top : w.stack[i] = v.stack[i]
        /\ \A j \in hbase + 1..htop : w.handlers[j] = v.handlers[j]
    BY ONLY <1>4, <2>4, top \in Nat, htop \in Nat
  <2>7. Level(c, env, w.stack, w.handlers, D, base, top, hbase, htop)
    BY ONLY <2>4, <2>5, <2>6, LevelAlike, top \in Nat, htop \in Nat
  <2>8. f.code = Open(c, "operand") /\ "operand" \in Constructs
    BY <2>1 DEF Constructs
  <2>9. Before(f.code) = c /\ Awaiting(f.code)
    BY <2>4, <2>8, OpenCode
  <2>10. D # Len(w.frames) /\ D < Len(w.frames)
    BY <1>4
  <2>11. /\ CodeAt(w, D) = c /\ EnvAt(w, D) = env
         /\ TopAt(w, D) = top /\ HandlersTopAt(w, D) = htop
    BY <1>4, <2>1, <2>9, <2>10 DEF CodeAt, EnvAt, TopAt, HandlersTopAt
  <2>12. D > v.floor.frames => w.frames[D] = v.frames[D]
    BY <1>4, <1>5
  <2>13. BaseAt(w, entry, D) = base /\ HandlersBaseAt(w, D) = hbase
    BY <1>4, <1>5, <2>1, <2>12 DEF BaseAt, HandlersBaseAt
  <2>14. Belongs(w, D, o, m)
    BY <1>4, <1>6, <2>2, <2>11, <2>12 DEF Sits, Belongs
  <2> QED BY <1>4, <2>7, <2>9, <2>11, <2>13, <2>14 DEF Sits
<1>8. ASSUME NEW d \in Lowest(w, chunk)..Len(w.frames)
      PROVE  Sits(w, entry, d, o, m)
  <2>1. d \in Nat /\ d >= v.floor.frames /\ d <= D + 1 /\ d \in Lowest(v, chunk)..D + 1
    BY <1>4, <1>5 DEF Lowest
  <2>2. CASE d = D + 1
    BY <1>3, <2>2
  <2>3. CASE d = D
    BY <1>7, <2>3
  <2>4. CASE d < D
    <3>1. d \in Lowest(v, chunk)..Len(v.frames)
      BY <1>2, <1>5, <2>1, <2>4 DEF Lowest
    <3>2. Sits(v, entry, d, o, m)
      BY <3>1 DEF Fine
    <3>3. D \in 1..Len(v.frames) /\ d + 1 \in 1..Len(v.frames) /\ d + 1 <= D
          /\ d + 1 > v.floor.frames
      BY <1>2, <1>5, <2>1, <2>4, SMTT(30)
    <3>4. PICK a \in Nat, b \in Nat : a = v.frames[D].stack_base /\ b = v.frames[D].handlers_base
      BY <1>1, <3>3, FrameMarks
    <3>5. a <= top /\ b <= htop /\ entry <= v.frames[d + 1].stack_base
      BY <1>1, <1>2, <3>3, <3>4, FrameMarks
    <3>6. /\ v.frames[d + 1].stack_base <= a /\ v.frames[d + 1].handlers_base <= b
      BY <1>1, <3>3, <3>4, FramePair
    <3>7. /\ a <= Len(v.stack) /\ a <= Len(w.stack) /\ b <= Len(v.handlers) /\ b <= Len(w.handlers)
          /\ \A i \in 1..a : w.stack[i] = v.stack[i]
          /\ \A j \in 1..b : w.handlers[j] = v.handlers[j]
          /\ D <= Len(v.frames) /\ D <= Len(w.frames)
      <4>1. Len(w.stack) \in Nat /\ Len(w.handlers) \in Nat
        BY <1>4, VmTypes
      <4> QED BY ONLY <1>2, <1>4, <3>5, <4>1, a \in Nat, b \in Nat, top \in Nat, htop \in Nat, D \in Nat, SMTT(30)
    <3> QED BY <1>1, <1>4, <2>1, <2>4, <3>2, <3>4, <3>5, <3>6, <3>7, SitsAlike
  <2> QED BY <2>1, <2>2, <2>3, <2>4
<1>9. ~chunk => Bottom(w, entry)
  <2>1. ~chunk => v.floor.frames + 1 \in 1..D
    BY <1>1, <1>2, <1>5 DEF Bottom
  <2>2. ~chunk => /\ w.frames[v.floor.frames + 1] = v.frames[v.floor.frames + 1]
                  /\ v.floor.frames < Len(w.frames)
    BY ONLY <1>4, <1>5, <2>1, D \in Nat
  <2> QED BY <1>1, <1>4, <2>2 DEF Bottom
<1> QED BY <1>3, <1>4, <1>8, <1>9 DEF Fine, Goes

LEMMA PushedStarts ==
    ASSUME NEW v \in Vms, NEW entry \in Nat, MarksInOrder(v, entry), NEW o, NEW m \in Nat,
           NEW w, NEW f, Pushed(v, w, f), Enters(w, o, m, f), PushedLevel(v, w),
           f.code = NoCode, entry = Len(v.stack),
           v.floor.frames = Len(v.frames), v.floor.handlers = Len(v.handlers)
    PROVE  Goes(v, w, entry, FALSE, o, m)
<1>1. PICK D \in Nat : D = Len(v.frames)
  BY VmTypes
<1>2. /\ MarksInOrder(w, entry) /\ Keeps(v, w, entry)
      /\ Sits(w, entry, D + 1, o, m)
  BY <1>1, PushedTop
<1>3. /\ w \in Vms /\ w.floor = v.floor /\ Len(w.frames) = D + 1 /\ w.frames[D + 1] = f
      /\ f.stack_base = entry /\ f.handlers_base = w.floor.handlers
  <2>1. v.frames \in Seq(Frames) /\ f \in Frames
    BY VmTypes DEF Pushed
  <2> QED BY <1>1, <2>1, Extended DEF Pushed
<1>4. Bottom(w, entry)
  BY <1>1, <1>3, SMTT(30) DEF Bottom
<1>5. \A d \in Lowest(w, FALSE)..Len(w.frames) : d = D + 1
  BY <1>1, <1>3 DEF Lowest
<1> QED BY <1>2, <1>3, <1>4, <1>5 DEF Fine, Goes

(* An execution of Rust's begins over what there is.                       *)
LEMMA Refloored ==
    ASSUME NEW v \in Vms, NEW entry \in Nat, MarksInOrder(v, entry),
           NEW w \in Vms, w.stack = v.stack, w.handlers = v.handlers, w.frames = v.frames,
           w.floor.frames = Len(v.frames), w.floor.handlers = Len(v.handlers)
    PROVE  MarksInOrder(w, Len(v.stack))
<1>1. PICK D \in Nat, top \in Nat, htop \in Nat :
         D = Len(v.frames) /\ top = Len(v.stack) /\ htop = Len(v.handlers)
  BY VmTypes
<1>2. ASSUME NEW i \in 1..Len(w.frames)
      PROVE  /\ w.frames[i].stack_base <= top /\ w.frames[i].handlers_base <= htop
             /\ ~(i > D)
  BY <1>1, FrameMarks
<1>3. ASSUME NEW j \in 1..Len(w.handlers)
      PROVE  /\ w.handlers[j].frames <= D /\ w.handlers[j].depth <= top
             /\ ~(j > htop)
  BY <1>1, HandlerMarks
<1>4. \A i, j \in 1..Len(w.frames) : i < j =>
         /\ w.frames[i].stack_base <= w.frames[j].stack_base
         /\ w.frames[i].handlers_base <= w.frames[j].handlers_base
  BY FramePair
<1>5. \A i, j \in 1..Len(w.handlers) : i < j =>
         /\ w.handlers[i].frames <= w.handlers[j].frames
         /\ w.handlers[i].depth <= w.handlers[j].depth
  BY HandlerPair
<1>6. \A i \in 1..Len(w.frames), j \in 1..Len(w.handlers) :
         /\ j <= w.frames[i].handlers_base
               => w.handlers[j].frames < i /\ w.handlers[j].depth <= w.frames[i].stack_base
         /\ j > w.frames[i].handlers_base
               => w.handlers[j].frames >= i /\ w.handlers[j].depth >= w.frames[i].stack_base
  BY CrossMarks
<1>7. /\ w.floor.frames = D /\ w.floor.handlers = htop
      /\ Len(w.frames) = D /\ Len(w.handlers) = htop /\ Len(w.stack) = top
  BY <1>1
<1>8. MarksInOrder(w, top)
  BY ONLY <1>2, <1>3, <1>4, <1>5, <1>6, <1>7, MarksAre, w \in Vms,
          D \in Nat, top \in Nat, htop \in Nat, SMTT(30)
<1> QED BY <1>1, <1>8

(* What an execution does not look at.                                     *)
LEMMA FineSame ==
    ASSUME NEW v, NEW entry, NEW chunk, NEW o, NEW m, Fine(v, entry, chunk, o, m),
           NEW w \in Vms, Alike(v, w), w.current = v.current, w.regs.env = v.regs.env
    PROVE  Fine(w, entry, chunk, o, m)
<1>1. MarksInOrder(w, entry)
  BY DEF Fine, MarksInOrder, Alike
<1>2. ~chunk => Bottom(w, entry)
  BY DEF Fine, Bottom, Alike
<1>3. Lowest(w, chunk) = Lowest(v, chunk)
  BY DEF Lowest, Alike
<1>4. ASSUME NEW d \in Lowest(v, chunk)..Len(v.frames)
      PROVE  Sits(w, entry, d, o, m)
  <2>1. Sits(v, entry, d, o, m)
    BY DEF Fine
  <2>2. /\ CodeAt(w, d) = CodeAt(v, d) /\ EnvAt(w, d) = EnvAt(v, d)
        /\ TopAt(w, d) = TopAt(v, d) /\ HandlersTopAt(w, d) = HandlersTopAt(v, d)
        /\ BaseAt(w, entry, d) = BaseAt(v, entry, d)
        /\ HandlersBaseAt(w, d) = HandlersBaseAt(v, d)
    BY DEF CodeAt, EnvAt, TopAt, HandlersTopAt, BaseAt, HandlersBaseAt, Alike
  <2>3. Belongs(w, d, o, m)
    BY <2>1, <2>2 DEF Sits, Belongs, Alike
  <2> QED BY <2>1, <2>2, <2>3 DEF Sits, Alike
<1> QED BY <1>1, <1>2, <1>3, <1>4 DEF Fine, Alike

LEMMA StartedLevel ==
    ASSUME NEW w, w.current.open = <<>>,
           w.regs.env = [of |-> w.current.of, level |-> 0],
           NEW d, NEW base \in Nat, NEW hbase \in Nat
    PROVE  Level(w.current, w.regs.env, w.stack, w.handlers, d, base, base, hbase, hbase)
<1>1. PICK c, s, h : c = w.current /\ s = w.stack /\ h = w.handlers
  OBVIOUS
<1>2. c.open = <<>>
  BY <1>1
<1>3. Level(c, [of |-> c.of, level |-> 0], s, h, d, base, base, hbase, hbase)
  BY ONLY <1>2, LevelStarts, base \in Nat, hbase \in Nat
<1> QED BY <1>1, <1>3

(* A tail call takes the place of its caller.                              *)
LEMMA TailGoes ==
    ASSUME NEW v, NEW entry \in Nat, NEW chunk \in BOOLEAN, NEW o, NEW m \in Nat,
           Fine(v, entry, chunk, o, m),
           NEW D \in Nat, D = Len(v.frames), D > v.floor.frames, v.frames[D].generator = Nobody,
           \A i \in DOMAIN v.current.open : v.current.open[i] # "try",
           NEW w \in Vms, w.floor = v.floor, w.frames = v.frames, w.handlers = v.handlers,
           w.stack = SubSeq(v.stack, 1, v.frames[D].stack_base),
           w.current.open = <<>>, w.regs.env = [of |-> w.current.of, level |-> 0],
           w.current.of \in 1..m, o[w.current.of].kind \in Bodies,
           w.current.preparing => o[w.current.of].kind = "generator"
    PROVE  Goes(v, w, entry, chunk, o, m)
<1>1. PICK base, hbase : Runs(v, entry, o, m, D, base, hbase)
  BY FineTop
<1>2. /\ v \in Vms /\ v.floor.frames \in Nat /\ v.stack \in Seq(Marks) /\ v.current \in Code
      /\ D >= v.floor.frames /\ base \in Nat /\ hbase \in Nat
      /\ base = BaseAt(v, entry, D) /\ hbase = HandlersBaseAt(v, D)
      /\ base <= Len(v.stack)
      /\ Level(v.current, v.regs.env, v.stack, v.handlers, D,
               base, Len(v.stack), hbase, Len(v.handlers))
  BY <1>1, VmTypes DEF Runs, Fine
<1>3. base = v.frames[D].stack_base
  BY <1>2 DEF BaseAt
<1>4. hbase = Len(v.handlers)
  <2>1. PICK open : open = v.current.open
    OBVIOUS
  <2>2. open \in Seq(Constructs) /\ Len(open) \in Nat /\ DOMAIN open = 1..Len(open)
    BY <1>2, <2>1 DEF Code
  <2>3. {i \in 1..Len(open) : open[i] = "try"} = {}
    BY <2>1, <2>2
  <2>4. Count(open, "try", Len(open)) = 0
    BY <2>3, FS_EmptySet DEF Count
  <2>5. Len(v.handlers) = hbase + Count(open, "try", Len(open))
    BY <1>2, <2>1 DEF Level, HandlersFit
  <2> QED BY <1>2, <2>4, <2>5
<1>5. Len(w.stack) = base /\ \A i \in 1..base : w.stack[i] = v.stack[i]
  BY <1>2, <1>3, PartIs, SMTT(30)
<1>6. Settled(v, w, entry, D)
  <2>1. w.floor = v.floor /\ Len(w.frames) = D /\ \A i \in 1..D : w.frames[i] = v.frames[i]
    OBVIOUS
  <2>3. base <= Len(w.stack)
    BY ONLY <1>2, <1>5
  <2>4. hbase <= Len(w.handlers) /\ \A j \in 1..hbase : w.handlers[j] = v.handlers[j]
    BY ONLY <1>2, <1>4, w.handlers = v.handlers
  <2>2. base = BaseAt(v, entry, D) /\ hbase = HandlersBaseAt(v, D)
    BY <1>2
  <2> QED BY ONLY <1>5, <2>1, <2>2, <2>3, <2>4 DEF Settled
<1>7. Level(w.current, w.regs.env, w.stack, w.handlers, D,
            base, Len(w.stack), hbase, Len(w.handlers))
  <2>1. Level(w.current, w.regs.env, w.stack, w.handlers, D, base, base, hbase, hbase)
    BY ONLY <1>2, StartedLevel, w.current.open = <<>>,
            w.regs.env = [of |-> w.current.of, level |-> 0]
  <2> QED BY <1>4, <1>5, <2>1
<1>8. Sits(w, entry, D, o, m)
  BY <1>2, <1>6, <1>7, SitsHere
<1>9. D \in Lowest(v, chunk)..Len(v.frames)
  BY FineDepth
<1> QED BY <1>6, <1>8, <1>9, Settles

(* A call's answer, given at once or later.                                *)
LEMMA AnswerGoes ==
    ASSUME NEW v, NEW entry \in Nat, NEW chunk \in BOOLEAN, NEW o, NEW m \in Nat,
           Fine(v, entry, chunk, o, m),
           NEW w \in Vms, w.frames = v.frames, w.floor = v.floor, w.handlers = v.handlers,
           w.current = Open(v.current, "operand"),
           w.stack = Append(v.stack, Mark(w.current)), w.regs.env = v.regs.env
    PROVE  Goes(v, w, entry, chunk, o, m)
<1>1. PICK e, s, h, x : e = w.current /\ s = w.stack /\ h = w.handlers /\ x = "operand"
  OBVIOUS
<1>2. /\ x \in Constructs /\ e = Open(v.current, x) /\ s \in Seq(Marks) /\ h \in Seq(Handlers)
      /\ x = "operand" => s = Append(v.stack, Mark(e))
      /\ x # "operand" => s = v.stack
      /\ x # "try" => h = v.handlers
      /\ x # "try" /\ x # "block"
      /\ w.current = e /\ w.stack = s /\ w.handlers = h
      /\ x # "block" => w.regs.env = v.regs.env
  BY <1>1, VmTypes DEF Constructs
<1> QED BY <1>2, Opens

-----------------------------------------------------------------------------
(* Generators.                                                             *)

RebasedTo(h, r, by, d) ==
    /\ r \in Seq(Handlers) /\ Len(r) = Len(h)
    /\ \A j \in 1..Len(h) : /\ r[j].target = h[j].target /\ r[j].env = h[j].env
                            /\ r[j].frames = d /\ r[j].depth = h[j].depth + by.depth

LEMMA Rebases ==
    ASSUME NEW h \in Seq(Handlers), NEW by, NEW d \in Nat,
           \A j \in 1..Len(h) : h[j].frames + by.frames = d /\ h[j].depth + by.depth \in Nat
    PROVE  RebasedTo(h, Rebased(h, by), by, d)
<1>1. PICK n \in Nat : n = Len(h) /\ DOMAIN h = 1..n
  OBVIOUS
<1>2. PICK r : r = Rebased(h, by)
  OBVIOUS
<1>3. r = [j \in 1..n |-> [h[j] EXCEPT !.frames = @ + by.frames, !.depth = @ + by.depth]]
  BY <1>1, <1>2, Zenon DEF Rebased
<1>4. ASSUME NEW j \in 1..n
      PROVE  /\ r[j] \in Handlers
             /\ r[j].target = h[j].target /\ r[j].env = h[j].env
             /\ r[j].frames = d /\ r[j].depth = h[j].depth + by.depth
  <2>1. h[j] \in Handlers
    BY <1>1
  <2>2. PICK a, b : a = h[j].frames + by.frames /\ b = h[j].depth + by.depth
    OBVIOUS
  <2>3. a \in Nat /\ b \in Nat /\ a = d
    BY <1>1, <2>2
  <2>4. r[j] = [h[j] EXCEPT !.frames = a, !.depth = b]
    BY <1>3, <2>2, Zenon
  <2> QED BY <2>1, <2>2, <2>3, <2>4 DEF Handlers
<1>5. r \in [1..n -> Handlers]
  BY <1>3, <1>4, Zenon
<1>6. r \in Seq(Handlers) /\ Len(r) = n
  BY <1>5
<1> QED BY <1>1, <1>2, <1>4, <1>6 DEF RebasedTo

LEMMA Joined ==
    ASSUME NEW S, NEW s \in Seq(S), NEW t \in Seq(S)
    PROVE  /\ s \o t \in Seq(S) /\ Len(s \o t) = Len(s) + Len(t)
           /\ \A i \in 1..Len(s) : (s \o t)[i] = s[i]
           /\ \A i \in 1..Len(t) : (s \o t)[Len(s) + i] = t[i]
OBVIOUS

Follows(r, s, n) ==
    Len(r) = Len(s) - n /\ \A i \in 1..Len(s) - n : r[i] = s[n + i]

LEMMA RestIs ==
    ASSUME NEW S, NEW s \in Seq(S), NEW n \in Nat, n <= Len(s)
    PROVE  From(s, n) \in Seq(S) /\ Follows(From(s, n), s, n)
<1>1. PICK k \in Nat : k = Len(s)
  OBVIOUS
<1>2. From(s, n) = SubSeq(s, n + 1, k)
  BY <1>1 DEF From
<1>3. n + 1 \in Nat /\ n + 1 >= 1 /\ n + 1 <= k + 1
  BY <1>1
<1>4. SubSeq(s, n + 1, k) \in Seq(S) /\ Len(SubSeq(s, n + 1, k)) = k - n
  BY <1>1, <1>3
<1>5. \A i \in 1..k - n : SubSeq(s, n + 1, k)[i] = s[n + i]
  BY <1>1, <1>3
<1> QED BY <1>1, <1>2, <1>4, <1>5 DEF Follows

(* A parked execution, revived over `v`.                                   *)
ReviveStack(v, p) == v.stack \o p.stack \o <<Mark(p.code)>>
ReviveHandlers(v, p) ==
    v.handlers \o Rebased(p.handlers, [frames |-> Len(v.frames), depth |-> Len(v.stack)])

LEMMA RevivedLevel ==
    ASSUME NEW v \in Vms, NEW g, NEW o, NEW p, Shelved(p, g, o)
    PROVE  /\ ReviveStack(v, p) \in Seq(Marks) /\ ReviveHandlers(v, p) \in Seq(Handlers)
           /\ Len(v.stack) <= Len(ReviveStack(v, p))
           /\ \A i \in 1..Len(v.stack) : ReviveStack(v, p)[i] = v.stack[i]
           /\ Len(v.handlers) <= Len(ReviveHandlers(v, p))
           /\ \A j \in 1..Len(v.handlers) : ReviveHandlers(v, p)[j] = v.handlers[j]
           /\ Level(p.code, p.env, ReviveStack(v, p), ReviveHandlers(v, p), Len(v.frames) + 1,
                    Len(v.stack), Len(ReviveStack(v, p)),
                    Len(v.handlers), Len(ReviveHandlers(v, p)))
<1>1. PICK D \in Nat, base \in Nat, hbase \in Nat :
         D = Len(v.frames) /\ base = Len(v.stack) /\ hbase = Len(v.handlers)
  BY VmTypes
<1>2. PICK c, env, s, h, e : /\ c = Before(p.code) /\ env = p.env /\ s = p.stack /\ h = p.handlers
                             /\ e = p.code
  OBVIOUS
<1>3. /\ e \in Code /\ s \in Seq(Marks) /\ h \in Seq(Handlers) /\ Awaiting(e)
      /\ Level(c, env, s, h, 1, 0, Len(s), 0, Len(h))
  BY <1>2 DEF Shelved, Shelves
<1>4. /\ c \in Code /\ e = Open(c, "operand") /\ "operand" \in Constructs
  BY <1>2, <1>3, CodeTypes, AwaitingOpens DEF Awaiting, Constructs
<1>5. PICK n \in Nat, k \in Nat : n = Len(s) /\ k = Len(h)
  BY <1>3
<1>6. HandlersStand(h, 0, k, 1, 0, n)
  <2>1. 1 \in Nat /\ 0 \in Nat /\ Level(c, env, s, h, 1, 0, n, 0, k)
    BY <1>3, <1>5
  <2> QED BY ONLY <1>4, <2>1, LevelMarks, n \in Nat, k \in Nat
<1>7. PICK by, r, t, s2, h2 :
         /\ by = [frames |-> D, depth |-> base] /\ r = Rebased(h, by)
         /\ t = v.stack \o s /\ s2 = t \o <<Mark(e)>> /\ h2 = v.handlers \o r
  OBVIOUS
<1>8. \A j \in 1..k : h[j].frames + by.frames = D + 1 /\ h[j].depth + by.depth \in Nat
                      /\ h[j].depth \in Nat
  <2>1. \A j \in 1..k : h[j].frames = 1 /\ h[j].depth \in 0..n
    BY <1>6 DEF HandlersStand
  <2> QED BY <1>7, <2>1
<1>9. /\ r \in Seq(Handlers) /\ Len(r) = k
      /\ \A j \in 1..k : /\ r[j].target = h[j].target /\ r[j].env = h[j].env
                         /\ r[j].frames = D + 1 /\ r[j].depth = h[j].depth + base
  <2>1. D + 1 \in Nat /\ by.depth = base
    BY <1>7
  <2>2. \A j \in 1..Len(h) : h[j].frames + by.frames = D + 1 /\ h[j].depth + by.depth \in Nat
    BY <1>5, <1>8
  <2>3. PICK d \in Nat : d = D + 1
    OBVIOUS
  <2>4. \A j \in 1..Len(h) : h[j].frames + by.frames = d /\ h[j].depth + by.depth \in Nat
    BY <2>2, <2>3
  <2>5. RebasedTo(h, Rebased(h, by), by, d)
    BY ONLY <1>3, <2>4, Rebases, d \in Nat
  <2> QED BY <1>5, <1>7, <2>1, <2>3, <2>5 DEF RebasedTo
<1>10. /\ t \in Seq(Marks) /\ Len(t) = base + n
       /\ \A i \in 1..base : t[i] = v.stack[i]
       /\ \A i \in 1..n : t[base + i] = s[i]
  BY <1>1, <1>3, <1>5, <1>7, Joined, VmTypes, SMTT(30)
<1>11. /\ h2 \in Seq(Handlers) /\ Len(h2) = hbase + k
       /\ \A j \in 1..hbase : h2[j] = v.handlers[j]
       /\ \A j \in 1..k : h2[hbase + j] = r[j]
  <2>1. v.handlers \in Seq(Handlers) /\ Len(v.handlers) = hbase
    BY <1>1, VmTypes
  <2>2. PICK a, q : a = v.handlers /\ q = a \o r
    OBVIOUS
  <2>3. a \in Seq(Handlers) /\ r \in Seq(Handlers) /\ Len(a) = hbase /\ Len(r) = k
    BY <1>9, <2>1, <2>2
  <2>4. q \in Seq(Handlers) /\ Len(q) = hbase + k
    BY ONLY <2>2, <2>3, Joined, ZenonT(60)
  <2>5. \A j \in 1..hbase : q[j] = a[j]
    BY ONLY <2>2, <2>3, Joined
  <2>6. \A j \in 1..k : q[hbase + j] = r[j]
    <3>1. (a \o r) \in Seq(Handlers) /\ \A j \in 1..Len(r) : (a \o r)[Len(a) + j] = r[j]
      BY ONLY <2>3, Joined
    <3> QED BY ONLY <2>2, <2>3, <3>1
  <2> QED BY <1>7, <2>2, <2>4, <2>5, <2>6
<1>12. Level(c, env, t, h2, D + 1, base, Len(t), hbase, Len(h2))
  <2>1. \A i \in 1..n - 0 : t[base + i] = s[0 + i]
    BY <1>10
  <2>2. \A j \in 1..k - 0 : /\ h2[hbase + j].target = h[0 + j].target
                            /\ h2[hbase + j].env = h[0 + j].env
                            /\ h2[hbase + j].frames = D + 1
                            /\ h2[hbase + j].depth = h[0 + j].depth - 0 + base
    BY <1>8, <1>9, <1>11
  <2>3. MovedTo(s, h, 0, n, 0, k, t, h2, D + 1, base, Len(t), hbase, Len(h2))
    BY <1>10, <1>11, <2>1, <2>2 DEF MovedTo
  <2>4. Level(c, env, s, h, 1, 0, n, 0, k) /\ 0 \in Nat
    BY <1>3, <1>5
  <2> QED BY ONLY <1>4, <2>3, <2>4, LevelMoves, n \in Nat, k \in Nat, base \in Nat, hbase \in Nat
<1>13. s2 = Append(t, Mark(e)) /\ Mark(e) \in Marks
  BY <1>3, <1>7, <1>10, MarkIsOne, SMTT(30)
<1>14. Level(e, env, s2, h2, D + 1, base, Len(s2), hbase, Len(h2))
  BY ONLY <1>4, <1>10, <1>11, <1>12, <1>13, LevelAnswers, base \in Nat, hbase \in Nat
<1>15. /\ s2 \in Seq(Marks) /\ base <= Len(s2) /\ \A i \in 1..base : s2[i] = v.stack[i]
  <2>1. /\ s2 \in Seq(Marks) /\ Len(s2) = base + n + 1 /\ \A i \in 1..base + n : s2[i] = t[i]
    BY <1>10, <1>13, Extended
  <2> QED BY <1>10, <2>1
<1>16. s2 = ReviveStack(v, p) /\ h2 = ReviveHandlers(v, p)
  BY <1>1, <1>2, <1>7 DEF ReviveStack, ReviveHandlers
<1> QED BY ONLY <1>1, <1>2, <1>11, <1>14, <1>15, <1>16

RevivedFrame(v, code, g) == [FrameFrom(v, code, "plain") EXCEPT !.generator = g]

Revived(v, code, g, w, p) ==
    /\ Pushed(v, w, RevivedFrame(v, code, g)) /\ PushedLevel(v, w)
    /\ RevivedFrame(v, code, g).code = code
    /\ RevivedFrame(v, code, g).regs = v.regs
    /\ RevivedFrame(v, code, g).generator = g
    /\ w.frames = Append(v.frames, RevivedFrame(v, code, g))
    /\ w.current = p.code /\ w.regs = RevivedRegisters(v.regs, p)
    /\ w.thrown = v.thrown /\ w.escaped = v.escaped

LEMMA RevivePushes ==
    ASSUME NEW v \in Vms, NEW code \in Code, NEW g \in Nat, NEW o,
           Shelved(parked[g], g, o)
    PROVE  Revived(v, code, g, Revive(v, code, g), parked[g])
<1>1. PICK p, f, w : p = parked[g] /\ f = RevivedFrame(v, code, g) /\ w = Revive(v, code, g)
  OBVIOUS
<1>2. PICK s, h, regs : s = ReviveStack(v, p) /\ h = ReviveHandlers(v, p)
                        /\ regs = RevivedRegisters(v.regs, p)
  OBVIOUS
<1>3. f = [code |-> code, regs |-> v.regs, stack_base |-> Len(v.stack),
           handlers_base |-> Len(v.handlers), constructed |-> FALSE, generator |-> g]
  BY <1>1 DEF RevivedFrame, FrameFrom
<1>4. f \in Frames
  BY <1>3, VmTypes DEF Frames
<1>5. p \in Shelves /\ p.code \in Code /\ p.references \in Seq(Marks)
  BY <1>1 DEF Shelved, Shelves
<1>6. regs \in Registers /\ regs.env = p.env
  BY <1>2, <1>5, VmTypes DEF Shelves, Registers, RevivedRegisters
<1>7. /\ s \in Seq(Marks) /\ h \in Seq(Handlers)
      /\ Len(v.stack) <= Len(s) /\ \A i \in 1..Len(v.stack) : s[i] = v.stack[i]
      /\ Len(v.handlers) <= Len(h) /\ \A j \in 1..Len(v.handlers) : h[j] = v.handlers[j]
      /\ Level(p.code, p.env, s, h, Len(v.frames) + 1,
               Len(v.stack), Len(s), Len(v.handlers), Len(h))
  BY <1>1, <1>2, RevivedLevel
<1>8. Append(v.frames, f) \in Seq(Frames)
  BY <1>4, VmTypes
<1>9. w = [v EXCEPT !.frames = Append(v.frames, f), !.stack = s, !.handlers = h,
                    !.references = p.references, !.regs = regs, !.current = p.code]
  BY <1>1, <1>2 DEF Revive, RevivedFrame, ReviveStack, ReviveHandlers, Vms
<1>10. /\ w \in Vms /\ w.floor = v.floor /\ w.frames = Append(v.frames, f)
       /\ w.stack = s /\ w.handlers = h /\ w.regs = regs /\ w.current = p.code
       /\ w.thrown = v.thrown /\ w.escaped = v.escaped
  BY <1>5, <1>6, <1>7, <1>8, <1>9 DEF Vms
<1>11. Pushed(v, w, f)
  BY <1>3, <1>4, <1>7, <1>10 DEF Pushed
<1>12. PushedLevel(v, w)
  BY <1>6, <1>7, <1>10 DEF PushedLevel
<1>13. f.code = code /\ f.regs = v.regs /\ f.generator = g
  BY <1>3
<1> QED BY <1>1, <1>2, <1>10, <1>11, <1>12, <1>13 DEF Revived

LEMMA ReviveEnters ==
    ASSUME NEW v, NEW code, NEW m \in Nat, NEW g \in 1..m, NEW o, NEW p, Shelved(p, g, o),
           NEW w, Revived(v, code, g, w, p)
    PROVE  Enters(w, o, m, RevivedFrame(v, code, g)) /\ w.current # NoCode
<1>1. /\ p.code \in Code /\ p.code.of = g /\ ~p.code.preparing /\ o[g].kind \in Bodies
      /\ Awaiting(p.code)
  BY DEF Shelved, Shelves
<1>2. w.current = p.code
  BY DEF Revived
<1>3. p.code # NoCode
  BY <1>1, AwaitingOpens
<1> QED BY <1>1, <1>2, <1>3 DEF Enters, Revived

(* What parks: the callee's half of a frame.                               *)
LEMMA ParkShelves ==
    ASSUME NEW v, NEW entry \in Nat, NEW chunk \in BOOLEAN, NEW o, NEW m \in Nat,
           Fine(v, entry, chunk, o, m), Len(v.frames) > v.floor.frames,
           v.current.preparing => v.current.open = <<>>,
           NEW resumed, resumed = [Open(v.current, "operand") EXCEPT !.preparing = FALSE],
           NEW begun \in BOOLEAN
    PROVE  Shelved(Park(v, resumed, begun), v.current.of, o)
<1>1. PICK D, base, hbase : Runs(v, entry, o, m, D, base, hbase)
  BY FineTop
<1>2. PICK c, env, top, htop, stack, handlers :
         /\ c = v.current /\ env = v.regs.env /\ top = Len(v.stack) /\ htop = Len(v.handlers)
         /\ stack = v.stack /\ handlers = v.handlers
  OBVIOUS
<1>3. /\ v \in Vms /\ D \in Nat /\ D = Len(v.frames) /\ base \in Nat /\ hbase \in Nat
      /\ c \in Code /\ o[c.of].kind \in Bodies /\ v.floor.frames \in Nat
      /\ base = v.frames[D].stack_base /\ hbase = v.frames[D].handlers_base
      /\ base <= top /\ hbase <= htop /\ top \in Nat /\ htop \in Nat
      /\ stack \in Seq(Marks) /\ handlers \in Seq(Handlers)
      /\ Level(c, env, stack, handlers, D, base, top, hbase, htop)
  BY <1>1, <1>2, VmTypes DEF Runs, BaseAt, HandlersBaseAt
<1>4. PICK frame, by, p, s, t, h :
         /\ frame = v.frames[D] /\ by = [frames |-> 1 - D, depth |-> - base]
         /\ p = Park(v, resumed, begun)
         /\ s = From(v.stack, base) /\ t = From(v.handlers, hbase) /\ h = Rebased(t, by)
  OBVIOUS
<1>5. Last(v.frames) = frame
  <2>1. v.frames \in Seq(Frames) /\ v.frames # <<>>
    BY <1>3, VmTypes
  <2> QED BY <1>3, <1>4, <2>1, Fronted
<1>6. p = [code |-> resumed, begun |-> begun, env |-> v.regs.env, var |-> v.regs.var,
           this |-> v.regs.this, target |-> v.regs.target, stack |-> s,
           references |-> v.references, handlers |-> h]
  BY <1>3, <1>4, <1>5 DEF Park
<1>7. PICK e : e = [c EXCEPT !.preparing = FALSE]
  OBVIOUS
<1>8. /\ e \in Code /\ e.of = c.of /\ e.open = c.open /\ ~e.preparing
      /\ ~c.preparing => e = c
  BY <1>3, <1>7 DEF Code
<1>9. resumed = Open(e, "operand")
  BY <1>2, <1>3, <1>7 DEF Open, Code
<1>10. /\ resumed \in Code /\ resumed.of = c.of /\ ~resumed.preparing
       /\ Before(resumed) = e /\ Awaiting(resumed)
  BY <1>8, <1>9, OpenCode DEF Constructs
<1>11. Level(e, env, stack, handlers, D, base, top, hbase, htop)
  <2>1. CASE ~c.preparing
    BY <1>3, <1>8, <2>1
  <2>2. CASE c.preparing
    <3>1. c.open = <<>> /\ e.open = <<>> /\ e.of = c.of
      BY <1>2, <1>8, <2>2
    <3>2. /\ env = EnvOf(c) /\ top = base + Count(<<>>, "operand", Len(<<>>))
          /\ htop = hbase + Count(<<>>, "try", Len(<<>>))
      BY <1>3, <3>1 DEF Level, OperandsFit, HandlersFit
    <3>3. EnvOf(e) = EnvOf(c)
      BY <3>1 DEF EnvOf
    <3> QED BY <3>1, <3>2, <3>3 DEF Level, OperandsFit, HandlersFit
  <2> QED BY <2>1, <2>2
<1>12. HandlersStand(handlers, hbase, htop, D, base, top)
  BY ONLY <1>3, <1>8, <1>11, LevelMarks
<1>13. /\ s \in Seq(Marks) /\ Len(s) = top - base
       /\ \A i \in 1..top - base : s[i] = stack[base + i]
  <2>1. s = From(stack, base) /\ top = Len(stack)
    BY <1>2, <1>4
  <2>2. s \in Seq(Marks) /\ Follows(s, stack, base)
    BY ONLY <1>3, <2>1, RestIs
  <2> QED BY ONLY <2>1, <2>2 DEF Follows
<1>14. /\ t \in Seq(Handlers) /\ Len(t) = htop - hbase
       /\ \A j \in 1..htop - hbase : t[j] = handlers[hbase + j]
  <2>1. t = From(handlers, hbase) /\ htop = Len(handlers)
    BY <1>2, <1>4
  <2>2. t \in Seq(Handlers) /\ Follows(t, handlers, hbase)
    BY ONLY <1>3, <2>1, RestIs
  <2> QED BY ONLY <2>1, <2>2 DEF Follows
<1>15. RebasedTo(t, h, by, 1)
  <2>1. ASSUME NEW j \in 1..Len(t)
        PROVE  t[j].frames + by.frames = 1 /\ t[j].depth + by.depth \in Nat
    <3>0. j \in 1..htop - hbase
      BY <1>14
    <3>1. hbase + j \in hbase + 1..htop /\ t[j] = handlers[hbase + j]
      <4>1. hbase + j \in hbase + 1..htop
        <5>1. hbase \in Nat /\ htop \in Nat
          BY ONLY <1>3, Zenon
        <5> QED BY ONLY <3>0, <5>1, SumIsAbove
      <4>2. t[j] = handlers[hbase + j]
        BY ONLY <1>14, <3>0
      <4> QED BY <4>1, <4>2
    <3>2. t[j].frames = D /\ t[j].depth \in base..top
      BY <1>12, <3>1 DEF HandlersStand
    <3>3. by.frames = 1 - D /\ by.depth = - base
      BY <1>4
    <3>4. PICK d \in Int : d = t[j].depth
      BY <3>2
    <3>5. d + (- base) \in Nat
      <4>1. PICK x \in Nat, y \in Nat : x = base /\ y = top
        BY <1>3
      <4>2. d \in x..y
        BY <3>2, <3>4, <4>1
      <4>3. d + (- x) \in Nat
        BY ONLY <4>2, x \in Nat, y \in Nat, d \in Int
      <4> QED BY <4>1, <4>3
    <3>6. D + (1 - D) = 1
      BY <1>3
    <3> QED BY ONLY <3>2, <3>3, <3>4, <3>5, <3>6
  <2>2. PICK one \in Nat : one = 1
    OBVIOUS
  <2>3. \A j \in 1..Len(t) : t[j].frames + by.frames = one /\ t[j].depth + by.depth \in Nat
    BY <2>1, <2>2
  <2>4. RebasedTo(t, Rebased(t, by), by, one)
    BY ONLY <1>14, <2>3, Rebases, one \in Nat
  <2> QED BY <1>4, <2>2, <2>4
<1>16. Level(e, env, s, h, 1, 0, Len(s), 0, Len(h))
  <2>1. /\ h \in Seq(Handlers) /\ Len(h) = htop - hbase
        /\ \A j \in 1..htop - hbase :
              /\ h[j].target = t[j].target /\ h[j].env = t[j].env
              /\ h[j].frames = 1 /\ h[j].depth = t[j].depth - base
    BY <1>4, <1>14, <1>15 DEF RebasedTo
  <2>2. \A i \in 1..top - base : s[0 + i] = stack[base + i]
    BY <1>13
  <2>3. \A j \in 1..htop - hbase :
           /\ h[0 + j].target = handlers[hbase + j].target
           /\ h[0 + j].env = handlers[hbase + j].env
           /\ h[0 + j].frames = 1
           /\ h[0 + j].depth = handlers[hbase + j].depth - base + 0
    <3> SUFFICES ASSUME NEW j \in 1..htop - hbase
                 PROVE  /\ h[0 + j].target = handlers[hbase + j].target
                        /\ h[0 + j].env = handlers[hbase + j].env
                        /\ h[0 + j].frames = 1
                        /\ h[0 + j].depth = handlers[hbase + j].depth - base + 0
      OBVIOUS
    <3>1. hbase + j \in hbase + 1..htop /\ t[j] = handlers[hbase + j]
      <4>1. hbase + j \in hbase + 1..htop
        <5>1. hbase \in Nat /\ htop \in Nat
          BY ONLY <1>3, Zenon
        <5> QED BY ONLY <5>1, j \in 1..htop - hbase, SumIsAbove
      <4>2. t[j] = handlers[hbase + j]
        BY ONLY <1>14, j \in 1..htop - hbase
      <4> QED BY <4>1, <4>2
    <3>a. t[j].depth \in base..top
      BY <1>12, <3>1 DEF HandlersStand
    <3>2. PICK d \in Int : d = t[j].depth
      BY <3>a
    <3>3. 0 + j = j /\ d - base = d - base + 0
      BY ONLY <1>3, d \in Int, j \in 1..htop - hbase, SMTT(30)
    <3>4. /\ h[j].target = t[j].target /\ h[j].env = t[j].env
          /\ h[j].frames = 1 /\ h[j].depth = t[j].depth - base
      BY ONLY <2>1, j \in 1..htop - hbase
    <3> QED BY ONLY <3>1, <3>2, <3>3, <3>4
  <2>4. MovedTo(stack, handlers, base, top, hbase, htop, s, h, 1, 0, Len(s), 0, Len(h))
    <3>1. PICK a \in Nat, b \in Nat, y \in Nat, z \in Nat :
             a = base /\ b = hbase /\ y = top /\ z = htop
      BY ONLY <1>3, Zenon
    <3>2. Len(s) = y - a /\ Len(h) = z - b
      BY ONLY <1>13, <2>1, <3>1
    <3>3. Len(s) = 0 + (y - a) /\ Len(h) = 0 + (z - b)
      BY ONLY <3>2, a \in Nat, b \in Nat, y \in Nat, z \in Nat
    <3>4. Len(s) = 0 + (top - base) /\ Len(h) = 0 + (htop - hbase)
      BY ONLY <3>1, <3>3
    <3> QED BY ONLY <2>2, <2>3, <3>4 DEF MovedTo
  <2>5. 0 \in Nat
    OBVIOUS
  <2> QED BY ONLY <1>3, <1>8, <1>11, <2>4, <2>5, LevelMoves
<1>17. p \in Shelves
  <2>1. h \in Seq(Handlers)
    BY <1>15 DEF RebasedTo
  <2>2. v.regs \in Registers /\ v.references \in Seq(Marks)
    BY <1>3, VmTypes
  <2> QED BY <1>6, <1>10, <1>13, <2>1, <2>2 DEF Shelves, Registers
<1>18. /\ p.code = resumed /\ p.env = env /\ p.stack = s /\ p.handlers = h
  BY <1>2, <1>6
<1>19. Level(Before(p.code), p.env, p.stack, p.handlers, 1, 0, Len(p.stack), 0, Len(p.handlers))
  BY <1>10, <1>16, <1>18
<1> QED BY <1>2, <1>3, <1>4, <1>10, <1>17, <1>18, <1>19 DEF Shelved

-----------------------------------------------------------------------------
(* Executions under one another.                                           *)

LEMMA SameParts ==
    ASSUME NEW S, NEW s \in Seq(S), NEW t \in Seq(S), NEW n \in Nat,
           n <= Len(s), n <= Len(t), \A i \in 1..n : t[i] = s[i]
    PROVE  SubSeq(t, 1, n) = SubSeq(s, 1, n)
<1>1. PICK a, b : a = SubSeq(s, 1, n) /\ b = SubSeq(t, 1, n)
  OBVIOUS
<1>2. a \in Seq(S) /\ Len(a) = n /\ \A i \in 1..n : a[i] = s[i]
  BY <1>1, PartIs
<1>3. b \in Seq(S) /\ Len(b) = n /\ \A i \in 1..n : b[i] = t[i]
  BY <1>1, PartIs
<1>4. a = b
  BY <1>2, <1>3, SMTT(30)
<1> QED BY <1>1, <1>4

LEMMA WaitTypes ==
    ASSUME NEW rs \in Seq(Waits), NEW k \in DOMAIN rs
    PROVE  /\ Len(rs) \in Nat /\ DOMAIN rs = 1..Len(rs)
           /\ rs[k] \in Waits /\ rs[k].entry \in Nat /\ rs[k].running \in BOOLEAN
           /\ rs[k].floor \in Floors /\ rs[k].floor.frames \in Nat /\ rs[k].floor.handlers \in Nat
           /\ rs[k].code \in Code /\ rs[k].regs \in Registers /\ rs[k].realm \in Realms
           /\ rs[k].kind \in {"conversion", "native", "eval"} /\ rs[k].failed \in BOOLEAN
<1>1. Len(rs) \in Nat /\ DOMAIN rs = 1..Len(rs) /\ rs[k] \in Waits
  OBVIOUS
<1> QED BY <1>1 DEF Waits, Floors

LEMMA EntryTypes ==
    ASSUME NEW rs \in Seq(Waits), NEW k \in 0..Len(rs)
    PROVE  EntryOf(rs, k) \in Nat /\ ChunkOf(rs, k) \in BOOLEAN
<1>1. CASE k = 0
  BY <1>1 DEF EntryOf, ChunkOf
<1>2. CASE k # 0
  BY <1>2, WaitTypes DEF EntryOf, ChunkOf
<1> QED BY <1>1, <1>2

LEMMA TopFine ==
    ASSUME NEW v, NEW rs, NEW o, NEW m, NEW gs, NEW pk, Spine(v, rs, o, m, gs, pk),
           v.current # NoCode
    PROVE  /\ ~InControl(rs) /\ rs \in Seq(Waits) /\ Len(rs) \in Nat
           /\ EntryOf(rs, Len(rs)) \in Nat /\ ChunkOf(rs, Len(rs)) \in BOOLEAN
           /\ m \in Nat
           /\ Fine(v, EntryOf(rs, Len(rs)), ChunkOf(rs, Len(rs)), o, m)
<1>1. ~InControl(rs) /\ rs \in Seq(Waits) /\ Len(rs) \in Nat
  BY DEF Spine, Calling
<1>2. Len(rs) \in 0..Len(rs)
  BY <1>1
<1>3. EntryOf(rs, Len(rs)) \in Nat /\ ChunkOf(rs, Len(rs)) \in BOOLEAN
  BY <1>1, <1>2, EntryTypes
<1>4. m \in Nat
  BY ActivationAssumption DEF Spine, Ids
<1> QED BY <1>1, <1>3, <1>4 DEF Spine, TopIsFine

(* More bodies have been entered.                                          *)
More(o, m, p, q) ==
    /\ p \in Owners /\ q \in Ids /\ m \in Ids /\ m <= q /\ \A a \in 1..m : p[a] = o[a]

Becomes(v, w, rs, p, q) ==
    /\ w \in Vms
    /\ Keeps(v, w, EntryOf(rs, Len(rs)))
    /\ IF w.current # NoCode
       THEN Fine(w, EntryOf(rs, Len(rs)), ChunkOf(rs, Len(rs)), p, q)
       ELSE Over(w, EntryOf(rs, Len(rs)))

LEMMA SavedStays ==
    ASSUME NEW v \in Vms, NEW w \in Vms, NEW rs \in Seq(Waits), NEW qs \in Seq(Waits),
           NEW k \in DOMAIN rs, k \in DOMAIN qs, qs[k] = rs[k],
           NEW fl \in Floors, FloorOver(v, rs, k) = fl, FloorOver(w, qs, k) = fl,
           rs[k].entry <= Len(v.stack), rs[k].entry <= Len(w.stack),
           \A i \in 1..rs[k].entry : w.stack[i] = v.stack[i],
           fl.frames <= Len(v.frames), fl.frames <= Len(w.frames),
           \A i \in 1..fl.frames : w.frames[i] = v.frames[i],
           fl.handlers <= Len(v.handlers), fl.handlers <= Len(w.handlers),
           \A i \in 1..fl.handlers : w.handlers[i] = v.handlers[i],
           rs[k].running
    PROVE  Saved(w, qs, k) = Saved(v, rs, k)
<1>1. rs[k].entry \in Nat /\ fl.frames \in Nat /\ fl.handlers \in Nat
  BY WaitTypes DEF Floors
<1>2. SubSeq(w.stack, 1, rs[k].entry) = SubSeq(v.stack, 1, rs[k].entry)
  <2>1. PICK s, t : s = v.stack /\ t = w.stack
    OBVIOUS
  <2>2. s \in Seq(Marks) /\ t \in Seq(Marks)
    BY <2>1, VmTypes
  <2> QED BY <1>1, <2>1, <2>2, SameParts, SMTT(30)
<1>3. SubSeq(w.frames, 1, fl.frames) = SubSeq(v.frames, 1, fl.frames)
  <2>1. PICK s, t : s = v.frames /\ t = w.frames
    OBVIOUS
  <2>2. s \in Seq(Frames) /\ t \in Seq(Frames)
    BY <2>1, VmTypes
  <2> QED BY <1>1, <2>1, <2>2, SameParts
<1>4. SubSeq(w.handlers, 1, fl.handlers) = SubSeq(v.handlers, 1, fl.handlers)
  <2>1. PICK s, t : s = v.handlers /\ t = w.handlers
    OBVIOUS
  <2>2. s \in Seq(Handlers) /\ t \in Seq(Handlers)
    BY <2>1, VmTypes
  <2> QED BY <1>1, <2>1, <2>2, SameParts
<1> QED BY <1>2, <1>3, <1>4 DEF Saved

LEMMA TopMarks ==
    ASSUME NEW v, NEW rs, NEW o, NEW m, NEW gs, NEW pk, Spine(v, rs, o, m, gs, pk),
           ~InControl(rs)
    PROVE  MarksInOrder(v, EntryOf(rs, Len(rs)))
BY DEF Spine, TopIsFine, Fine, Over

LEMMA SpineTop ==
    ASSUME NEW v, NEW rs, NEW o, NEW m, NEW gs, NEW pk, Spine(v, rs, o, m, gs, pk),
           ~InControl(rs), NEW p, NEW q, More(o, m, p, q),
           NEW w, Becomes(v, w, rs, p, q)
    PROVE  Spine(w, rs, p, q, gs, pk)
<1>0. PICK n \in Nat : n = Len(rs)
  BY DEF Spine, Calling
<1>1. PICK E : n = Len(rs) /\ E = EntryOf(rs, n)
  BY <1>0
<1>2. /\ v \in Vms /\ w \in Vms /\ rs \in Seq(Waits) /\ DOMAIN rs = 1..n
      /\ Keeps(v, w, E) /\ MarksInOrder(v, E)
  <2>1. v \in Vms /\ w \in Vms
    BY DEF Spine, Becomes
  <2>2. rs \in Seq(Waits)
    BY DEF Spine, Calling
  <2>3. DOMAIN rs = 1..n
    BY ONLY <1>1, <2>2
  <2>4. Keeps(v, w, EntryOf(rs, Len(rs)))
    BY DEF Becomes
  <2>5. MarksInOrder(v, EntryOf(rs, Len(rs)))
    BY TopMarks
  <2> QED BY ONLY <1>1, <2>1, <2>2, <2>3, <2>4, <2>5
<1>3. /\ w.floor = v.floor /\ v.floor \in Floors
      /\ v.floor.frames \in Nat /\ v.floor.handlers \in Nat
      /\ v.floor.frames <= Len(w.frames) /\ v.floor.handlers <= Len(w.handlers)
      /\ v.floor.frames <= Len(v.frames) /\ v.floor.handlers <= Len(v.handlers)
      /\ E <= Len(w.stack) /\ E <= Len(v.stack)
      /\ \A i \in 1..E : w.stack[i] = v.stack[i]
      /\ \A i \in 1..v.floor.frames : w.frames[i] = v.frames[i]
      /\ \A j \in 1..v.floor.handlers : w.handlers[j] = v.handlers[j]
      /\ Len(v.stack) \in Nat /\ Len(w.stack) \in Nat
      /\ Len(v.frames) \in Nat /\ Len(w.frames) \in Nat
      /\ Len(v.handlers) \in Nat /\ Len(w.handlers) \in Nat
  BY <1>2, VmTypes DEF Keeps, MarksInOrder
<1>4. \A k \in DOMAIN rs :
         /\ k < Len(rs) => rs[k].running
         /\ ~rs[k].running => rs[k].kind = "native"
         /\ Awaiting(rs[k].code)
         /\ rs[k].entry <= Len(v.stack)
         /\ rs[k].floor.frames <= v.floor.frames
         /\ rs[k].floor.handlers <= v.floor.handlers
  BY DEF Spine, Calling
<1>5. \A k, l \in DOMAIN rs : k < l =>
         /\ rs[k].entry <= rs[l].entry
         /\ rs[k].floor.frames <= rs[l].floor.frames
         /\ rs[k].floor.handlers <= rs[l].floor.handlers
  BY DEF Spine, Calling
<1>6. ASSUME NEW k \in DOMAIN rs
      PROVE  /\ rs[k].entry <= E /\ rs[k].entry \in Nat /\ E \in Nat
             /\ rs[k].running
             /\ k \in Nat /\ k <= n /\ n >= 1
  <2>1. k \in Nat /\ k <= n /\ n >= 1 /\ n \in DOMAIN rs
    BY <1>2
  <2>2. E = rs[n].entry
    BY <1>1, <2>1 DEF EntryOf
  <2>3. rs[k].entry \in Nat /\ E \in Nat
    BY <1>2, <2>1, <2>2, WaitTypes
  <2>4. rs[k].entry <= E
    BY <1>5, <2>1, <2>2, <2>3
  <2>5. rs[k].running
    <3>1. CASE k < n
      BY <1>1, <1>4, <3>1
    <3>2. CASE k = n
      <4>1. rs # <<>> /\ Last(rs) = rs[n]
        BY <1>1, <1>2, <2>1 DEF Last
      <4> QED BY <3>2, <4>1 DEF InControl
    <3> QED BY <2>1, <3>1, <3>2
  <2> QED BY <2>1, <2>3, <2>4, <2>5
<1>7. ASSUME NEW k \in DOMAIN rs
      PROVE  Saved(w, rs, k) = Saved(v, rs, k)
  <2>1. PICK fl : fl = FloorOver(v, rs, k)
    OBVIOUS
  <2>2. FloorOver(w, rs, k) = fl
    BY <1>3, <1>6, <2>1 DEF FloorOver
  <2>3. fl \in Floors /\ fl.frames <= v.floor.frames /\ fl.handlers <= v.floor.handlers
        /\ fl.frames \in Nat /\ fl.handlers \in Nat
    <3>1. CASE k < n
      <4>1. k + 1 \in DOMAIN rs
        BY <1>2, <1>6, <3>1
      <4>2. fl = rs[k + 1].floor
        BY <1>1, <2>1, <3>1 DEF FloorOver
      <4> QED BY <1>2, <1>4, <4>1, <4>2, WaitTypes
    <3>2. CASE k = n
      <4>1. fl = v.floor
        BY <1>1, <1>6, <2>1, <3>2 DEF FloorOver
      <4> QED BY <1>3, <4>1
    <3> QED BY <1>6, <3>1, <3>2
  <2>4. /\ rs[k].entry <= Len(v.stack) /\ rs[k].entry <= Len(w.stack)
        /\ \A i \in 1..rs[k].entry : w.stack[i] = v.stack[i]
    <3>1. PICK e \in Nat : e = rs[k].entry /\ e <= E /\ E \in Nat
      BY <1>6
    <3>2. \A i \in 1..e : i \in 1..E
      BY <3>1
    <3>3. e <= Len(v.stack) /\ e <= Len(w.stack)
      BY ONLY <1>3, <3>1, e \in Nat
    <3> QED BY <1>3, <3>1, <3>2, <3>3
  <2>5. /\ fl.frames <= Len(v.frames) /\ fl.frames <= Len(w.frames)
        /\ \A i \in 1..fl.frames : w.frames[i] = v.frames[i]
    BY ONLY <1>3, <2>3
  <2>6. /\ fl.handlers <= Len(v.handlers) /\ fl.handlers <= Len(w.handlers)
        /\ \A i \in 1..fl.handlers : w.handlers[i] = v.handlers[i]
    BY ONLY <1>3, <2>3
  <2> QED BY <1>2, <1>6, <2>1, <2>2, <2>3, <2>4, <2>5, <2>6, SavedStays
<1>8. m \in Nat /\ q \in Nat /\ m <= q /\ q \in Ids /\ p \in Owners /\ \A a \in 1..m : p[a] = o[a]
  BY ActivationAssumption DEF More, Ids
<1>9. \A k \in DOMAIN rs :
         Fine(Saved(w, rs, k), EntryOf(rs, k - 1), ChunkOf(rs, k - 1), p, q)
  <2> SUFFICES ASSUME NEW k \in DOMAIN rs
               PROVE  Fine(Saved(w, rs, k), EntryOf(rs, k - 1), ChunkOf(rs, k - 1), p, q)
    OBVIOUS
  <2>1. Fine(Saved(v, rs, k), EntryOf(rs, k - 1), ChunkOf(rs, k - 1), o, m)
    BY DEF Spine
  <2> QED BY <1>7, <1>8, <2>1, FineMore
<1>10. Calling(w, rs)
  <2>1. \A k \in DOMAIN rs : rs[k].entry <= Len(w.stack)
    <3> SUFFICES ASSUME NEW k \in DOMAIN rs PROVE rs[k].entry <= Len(w.stack)
      OBVIOUS
    <3> QED BY ONLY <1>3, <1>6, k \in DOMAIN rs
  <2> QED BY <1>2, <1>3, <1>4, <1>5, <2>1 DEF Calling
<1>11. TopIsFine(w, rs, p, q)
  BY DEF Becomes, TopIsFine
<1>12. /\ gs \subseteq 1..q /\ pk \in [Ids -> Shelves \cup {NotParked}]
       /\ \A g \in Ids : pk[g] # NotParked => g \in 1..q /\ Shelved(pk[g], g, p)
  <2>1. \A g \in 1..m : g \in 1..q
    BY <1>8
  <2>2. /\ gs \subseteq 1..m /\ pk \in [Ids -> Shelves \cup {NotParked}]
        /\ \A g \in Ids : pk[g] # NotParked => g \in 1..m /\ Shelved(pk[g], g, o)
    BY DEF Spine
  <2>3. \A g \in Ids : pk[g] # NotParked => Shelved(pk[g], g, p)
    BY <1>8, <2>2 DEF Shelved
  <2> QED BY <2>1, <2>2, <2>3
<1> QED BY <1>2, <1>8, <1>9, <1>10, <1>11, <1>12 DEF Spine

-----------------------------------------------------------------------------
(* The steps.                                                              *)

SpineInv == Spine(vm, rust, own, made, generators, parked)

LEMMA FineExecutes ==
    ASSUME NEW w, NEW entry \in Nat, NEW chunk \in BOOLEAN, NEW o, NEW m \in Nat,
           Fine(w, entry, chunk, o, m)
    PROVE  w.current # NoCode /\ w.current.of \in 1..m /\ w.current \in Code /\ w \in Vms
           /\ MarksInOrder(w, entry)
<1>1. PICK D, base, hbase : Runs(w, entry, o, m, D, base, hbase)
  BY FineTop
<1>2. w.current \in Code /\ w.current.of \in 1..m /\ w \in Vms
  BY <1>1 DEF Runs
<1>3. w.current # NoCode
  BY <1>2, CodeTypes
<1>4. MarksInOrder(w, entry)
  BY DEF Fine
<1> QED BY <1>2, <1>3, <1>4

LEMMA SpineGoes ==
    ASSUME NEW v, NEW rs, NEW o, NEW m, NEW gs, NEW pk, Spine(v, rs, o, m, gs, pk),
           v.current # NoCode, NEW p, NEW q, More(o, m, p, q), NEW w,
           Goes(v, w, EntryOf(rs, Len(rs)), ChunkOf(rs, Len(rs)), p, q)
    PROVE  Spine(w, rs, p, q, gs, pk)
<1>1. /\ ~InControl(rs)
      /\ EntryOf(rs, Len(rs)) \in Nat /\ ChunkOf(rs, Len(rs)) \in BOOLEAN
  BY TopFine
<1>2. q \in Nat
  BY ActivationAssumption DEF More, Ids
<1>3. Fine(w, EntryOf(rs, Len(rs)), ChunkOf(rs, Len(rs)), p, q)
      /\ Keeps(v, w, EntryOf(rs, Len(rs)))
  BY DEF Goes
<1>4. w.current # NoCode /\ w \in Vms
  BY <1>1, <1>2, <1>3, FineExecutes
<1>5. Becomes(v, w, rs, p, q)
  BY <1>3, <1>4 DEF Becomes
<1> QED BY <1>1, <1>5, SpineTop

LEMMA SpineOver ==
    ASSUME NEW v, NEW rs, NEW o, NEW m, NEW gs, NEW pk, Spine(v, rs, o, m, gs, pk),
           v.current # NoCode, NEW w,
           Over(w, EntryOf(rs, Len(rs))), Keeps(v, w, EntryOf(rs, Len(rs)))
    PROVE  Spine(w, rs, o, m, gs, pk)
<1>1. ~InControl(rs)
  BY TopFine
<1>2. w.current = NoCode /\ w \in Vms
  BY DEF Over
<1>3. Becomes(v, w, rs, o, m)
  BY <1>2 DEF Becomes
<1>4. More(o, m, o, m)
  BY ActivationAssumption DEF More, Spine, Ids
<1> QED BY <1>1, <1>3, <1>4, SpineTop

LEMMA SpineShelf ==
    ASSUME NEW v, NEW rs, NEW o, NEW m, NEW gs, NEW pk, Spine(v, rs, o, m, gs, pk),
           NEW hs, hs \subseteq 1..m, NEW qk \in [Ids -> Shelves \cup {NotParked}],
           \A g \in Ids : qk[g] # NotParked => g \in 1..m /\ Shelved(qk[g], g, o)
    PROVE  Spine(v, rs, o, m, hs, qk)
BY DEF Spine

LEMMA SameMore ==
    ASSUME NEW v, NEW rs, NEW o, NEW m, NEW gs, NEW pk, Spine(v, rs, o, m, gs, pk)
    PROVE  More(o, m, o, m)
BY ActivationAssumption DEF More, Spine, Ids

LEMMA OpenIsCode ==
    ASSUME NEW c \in Code, NEW x \in Constructs
    PROVE  /\ Open(c, x) \in Code /\ Open(c, x).of = c.of /\ Open(c, x).preparing = c.preparing
           /\ Open(c, x).open = Append(c.open, x)
BY DEF Open, Code

LEMMA MoreLevel ==
    ASSUME NEW env \in Environment
    PROVE  [env EXCEPT !.level = @ + 1] \in Environment
BY DEF Environment

(* A construct is opened.                                                  *)
LEMMA SpineOpens ==
    ASSUME SpineInv, Executing, UNCHANGED <<rust, own, made, objects>>,
           PushScope \/ PushHandler \/ PushOperand \/ ResolveName
    PROVE  SpineInv'
<1>1. PICK v, rs, E, C, o, m : /\ v = vm /\ rs = rust /\ E = EntryOf(rs, Len(rs))
                               /\ C = ChunkOf(rs, Len(rs)) /\ o = own /\ m = made
  OBVIOUS
<1>2. Spine(v, rs, o, m, generators, parked) /\ v.current # NoCode
  BY <1>1 DEF SpineInv, Executing, Here
<1>3. /\ E \in Nat /\ C \in BOOLEAN /\ m \in Nat /\ Fine(v, E, C, o, m)
      /\ v \in Vms /\ More(o, m, o, m)
  BY <1>1, <1>2, TopFine, SameMore DEF Spine
<1>4. SUFFICES Goes(v, vm', E, C, o, m)
  BY <1>1, <1>2, <1>3, SpineGoes DEF SpineInv, objects
<1>5. /\ v.current \in Code /\ v.stack \in Seq(Marks) /\ v.handlers \in Seq(Handlers)
      /\ v.regs \in Registers /\ v.regs.env \in Environment /\ v.references \in Seq(Marks)
  BY <1>3, VmTypes
<1>6. {"block", "try", "operand", "reference"} = Constructs
  BY DEF Constructs
<1>7. CASE PushScope
  <2>1. PICK e, env : e = Open(v.current, "block") /\ env = [v.regs.env EXCEPT !.level = @ + 1]
    OBVIOUS
  <2>2. e \in Code /\ env \in Environment
    BY <1>5, <1>6, <2>1, OpenIsCode, MoreLevel
  <2>3. vm' = [v EXCEPT !.current = e, !.regs.env = env]
    BY <1>1, <1>7, <2>1 DEF PushScope, Here
  <2>4. /\ vm' \in Vms /\ vm'.frames = v.frames /\ vm'.floor = v.floor
        /\ vm'.current = e /\ vm'.stack = v.stack /\ vm'.handlers = v.handlers
        /\ vm'.regs.env = env
    BY <1>3, <2>2, <2>3 DEF Vms, Registers
  <2>5. "block" # "try" /\ "block" # "operand" /\ "block" \in Constructs
    BY <1>6
  <2> QED BY <1>3, <1>5, <2>1, <2>4, <2>5, Opens
<1>8. CASE PushHandler
  <2>1. PICK e, hd, h : /\ e = Open(v.current, "try")
                        /\ hd = [target |-> v.current, frames |-> Len(v.frames),
                                 depth |-> Len(v.stack), env |-> v.regs.env,
                                 references |-> Len(v.references)]
                        /\ h = Append(v.handlers, hd)
    OBVIOUS
  <2>2. e \in Code /\ hd \in Handlers
    <3>1. Len(v.frames) \in Nat /\ Len(v.stack) \in Nat /\ Len(v.references) \in Nat
      BY <1>3, <1>5, VmTypes
    <3>2. hd \in Handlers
      BY <1>5, <2>1, <3>1 DEF Handlers
    <3> QED BY <1>5, <1>6, <2>1, <3>2, OpenIsCode
  <2>3. vm' = [v EXCEPT !.current = e, !.handlers = h]
    BY <1>1, <1>8, <2>1 DEF PushHandler, Here
  <2>4. h \in Seq(Handlers) /\ h = Append(v.handlers, h[Len(h)]) /\ h[Len(h)] = hd
    BY <1>5, <2>1, <2>2, Extended, SMTT(30)
  <2>5. /\ vm' \in Vms /\ vm'.frames = v.frames /\ vm'.floor = v.floor
        /\ vm'.current = e /\ vm'.stack = v.stack /\ vm'.handlers = h
        /\ vm'.regs.env = v.regs.env
    BY <1>3, <2>2, <2>3, <2>4 DEF Vms
  <2>6. /\ hd.target = v.current /\ hd.frames = Len(v.frames)
        /\ hd.depth = Len(v.stack) /\ hd.env = v.regs.env
    BY <2>1
  <2>7. "try" # "block" /\ "try" # "operand" /\ "try" \in Constructs
    BY <1>6
  <2> QED BY <1>3, <1>5, <2>1, <2>4, <2>5, <2>6, <2>7, Opens
<1>9. CASE PushOperand
  <2>1. PICK e, s : /\ e = Open(v.current, "operand") /\ s = Append(v.stack, Mark(e))
    OBVIOUS
  <2>2. e \in Code /\ Mark(e) \in Marks /\ s \in Seq(Marks)
    BY <1>5, <1>6, <2>1, OpenIsCode, MarkIsOne, Extended
  <2>3. vm' = [v EXCEPT !.current = e, !.stack = s]
    BY <1>1, <1>9, <2>1 DEF PushOperand, Here
  <2>4. /\ vm' \in Vms /\ vm'.frames = v.frames /\ vm'.floor = v.floor
        /\ vm'.current = e /\ vm'.stack = s /\ vm'.handlers = v.handlers
        /\ vm'.regs.env = v.regs.env
    BY <1>3, <2>2, <2>3 DEF Vms
  <2> QED BY <1>3, <2>1, <2>4, AnswerGoes
<1>10. CASE ResolveName
  <2>1. PICK e, r : /\ e = Open(v.current, "reference") /\ r = Append(v.references, Mark(e))
    OBVIOUS
  <2>2. e \in Code /\ Mark(e) \in Marks /\ r \in Seq(Marks)
    BY <1>5, <1>6, <2>1, OpenIsCode, MarkIsOne, Extended
  <2>3. vm' = [v EXCEPT !.current = e, !.references = r]
    BY <1>1, <1>10, <2>1 DEF ResolveName, Here
  <2>4. /\ vm' \in Vms /\ vm'.frames = v.frames /\ vm'.floor = v.floor
        /\ vm'.current = e /\ vm'.stack = v.stack /\ vm'.handlers = v.handlers
        /\ vm'.regs.env = v.regs.env
    BY <1>3, <2>2, <2>3 DEF Vms
  <2>5. "reference" # "block" /\ "reference" # "operand" /\ "reference" # "try"
        /\ "reference" \in Constructs
    BY <1>6
  <2> QED BY <1>3, <1>5, <2>1, <2>4, <2>5, Opens
<1> QED BY <1>7, <1>8, <1>9, <1>10

AtWork(v, rs, E, C, o, m) ==
    /\ v = vm /\ rs = rust /\ o = own /\ m = made
    /\ E = EntryOf(rs, Len(rs)) /\ C = ChunkOf(rs, Len(rs))
    /\ Spine(v, rs, o, m, generators, parked) /\ v.current # NoCode
    /\ E \in Nat /\ C \in BOOLEAN /\ m \in Nat /\ Fine(v, E, C, o, m)
    /\ v \in Vms /\ MarksInOrder(v, E) /\ More(o, m, o, m) /\ v.current \in Code

LEMMA Working ==
    ASSUME SpineInv, Executing
    PROVE  \E v, rs, E, C, o, m : AtWork(v, rs, E, C, o, m)
<1>1. PICK v, rs, E, C, o, m : /\ v = vm /\ rs = rust /\ E = EntryOf(rs, Len(rs))
                               /\ C = ChunkOf(rs, Len(rs)) /\ o = own /\ m = made
  OBVIOUS
<1>2. Spine(v, rs, o, m, generators, parked) /\ v.current # NoCode
  BY <1>1 DEF SpineInv, Executing, Here
<1>3. /\ E \in Nat /\ C \in BOOLEAN /\ m \in Nat /\ Fine(v, E, C, o, m)
      /\ More(o, m, o, m)
  BY <1>1, <1>2, TopFine, SameMore
<1>4. v \in Vms /\ MarksInOrder(v, E) /\ v.current \in Code
  BY <1>3, FineExecutes
<1>5. AtWork(v, rs, E, C, o, m)
  BY <1>1, <1>2, <1>3, <1>4 DEF AtWork
<1> QED BY <1>5

(* A construct is closed.                                                  *)
Closing(v, c, x, s, h, env) ==
    /\ v = vm /\ v \in Vms /\ v.current \in Code /\ Close
    /\ c = Before(v.current) /\ x = Last(v.current.open)
    /\ s = IF x = "operand" THEN Front(v.stack) ELSE v.stack
    /\ h = IF x = "try" THEN Front(v.handlers) ELSE v.handlers
    /\ env = IF x = "block" THEN [v.regs.env EXCEPT !.level = @ - 1] ELSE v.regs.env

LEMMA ClosedIs ==
    ASSUME NEW v, NEW c, NEW x, NEW s, NEW h, NEW env, Closing(v, c, x, s, h, env)
    PROVE  \E r \in Seq(Marks) :
              vm' = [v EXCEPT !.current = c, !.stack = s, !.handlers = h, !.references = r,
                              !.regs.env = env]
<1>2. v = vm /\ v \in Vms /\ Close
  BY DEF Closing
<1>4. /\ c = Before(v.current) /\ x = Last(v.current.open)
      /\ s = IF x = "operand" THEN Front(v.stack) ELSE v.stack
      /\ h = IF x = "try" THEN Front(v.handlers) ELSE v.handlers
      /\ env = IF x = "block" THEN [v.regs.env EXCEPT !.level = @ - 1] ELSE v.regs.env
  BY DEF Closing
<1>5. v.current.open # <<>> /\ v.current \in Code
  BY DEF Closing, Close, Here
<1>6. \E r \in Seq(Marks) :
         vm' = [v EXCEPT !.current = c, !.stack = s, !.handlers = h, !.references = r,
                         !.regs.env = env]
  <2>0. [v.regs EXCEPT !.env = v.regs.env] = v.regs
    BY <1>2, VmTypes DEF Registers
  <2>1. PICK u : u = [v EXCEPT !.current.open = Front(@)]
    OBVIOUS
  <2>2. /\ u = [v EXCEPT !.current = c]
        /\ u.stack = v.stack /\ u.handlers = v.handlers /\ u.references = v.references
        /\ u.regs = v.regs
    BY <1>2, <1>4, <1>5, <2>1 DEF Before, Vms, Code
  <2>3. CASE x = "block" \/ x = "try" \/ x = "operand" \/ x = "reference"
    <3>1. CASE x = "block"
      <4>1. vm' = [u EXCEPT !.regs.env.level = @ - 1]
        BY <1>2, <1>4, <2>1, <3>1 DEF Close, Here
      <4>2. PICK r, e : r = v.regs /\ e = v.regs.env
        OBVIOUS
      <4>3. vm' = [u EXCEPT !.regs.env = env]
        BY <1>2, <1>4, <2>2, <3>1, <4>1 DEF Vms, Registers
      <4>4. s = v.stack /\ h = v.handlers
        BY <1>4, <3>1
      <4>5. vm' = [v EXCEPT !.current = c, !.stack = s, !.handlers = h,
                            !.references = v.references, !.regs.env = env]
        BY <1>2, <2>2, <4>3, <4>4 DEF Vms, Registers
      <4> QED BY <1>2, <4>5, VmTypes, Zenon
    <3>2. CASE x = "try"
      <4>1. vm' = [u EXCEPT !.handlers = Front(@)]
        BY <1>2, <1>4, <2>1, <3>2 DEF Close, Here
      <4>2. s = v.stack /\ h = Front(v.handlers) /\ env = v.regs.env
        BY <1>4, <3>2
      <4>3. vm' = [v EXCEPT !.current = c, !.stack = s, !.handlers = h,
                            !.references = v.references, !.regs.env = env]
        BY <1>2, <2>0, <2>2, <4>1, <4>2, ZenonT(60) DEF Vms
      <4> QED BY <1>2, <4>3, VmTypes, Zenon
    <3>3. CASE x = "operand"
      <4>1. vm' = [u EXCEPT !.stack = Front(@)]
        BY <1>2, <1>4, <2>1, <3>3 DEF Close, Here
      <4>2. s = Front(v.stack) /\ h = v.handlers /\ env = v.regs.env
        BY <1>4, <3>3
      <4>3. vm' = [v EXCEPT !.current = c, !.stack = s, !.handlers = h,
                            !.references = v.references, !.regs.env = env]
        BY <1>2, <2>0, <2>2, <4>1, <4>2, ZenonT(60) DEF Vms
      <4> QED BY <1>2, <4>3, VmTypes, Zenon
    <3>4. CASE x = "reference"
      <4>1. vm' = [u EXCEPT !.references = Front(@)] /\ u.references # <<>>
        BY <1>2, <1>4, <2>1, <3>4 DEF Close, Here
      <4>2. s = v.stack /\ h = v.handlers /\ env = v.regs.env
        BY <1>4, <3>4
      <4>3. vm' = [v EXCEPT !.current = c, !.stack = s, !.handlers = h,
                            !.references = Front(v.references), !.regs.env = env]
        BY <1>2, <2>0, <2>2, <4>1, <4>2, ZenonT(60) DEF Vms
      <4>4. Front(v.references) \in Seq(Marks)
        BY <1>2, <2>2, <4>1, VmTypes, Fronted
      <4> QED BY <4>3, <4>4, Zenon
    <3> QED BY <2>3, <3>1, <3>2, <3>3, <3>4, Zenon
  <2>4. x \in Constructs
    BY <1>4, <1>5, CodeTypes, Fronted
  <2> QED BY <2>3, <2>4, Zenon DEF Constructs
<1> QED BY <1>6, Zenon

LEMMA SpineCloses ==
    ASSUME SpineInv, UNCHANGED <<rust, own, made, objects>>, Close
    PROVE  SpineInv'
<1>1. PICK v, rs, E, C, o, m : AtWork(v, rs, E, C, o, m)
  BY Working DEF Close
<1>2. /\ v = vm /\ rs = rust /\ E = EntryOf(rs, Len(rs))
      /\ C = ChunkOf(rs, Len(rs)) /\ o = own /\ m = made
      /\ Spine(v, rs, o, m, generators, parked) /\ v.current # NoCode
      /\ E \in Nat /\ C \in BOOLEAN /\ m \in Nat /\ Fine(v, E, C, o, m)
      /\ v \in Vms /\ More(o, m, o, m)
  BY <1>1 DEF AtWork
<1>3. SUFFICES Goes(v, vm', E, C, o, m)
  BY <1>2, SpineGoes DEF SpineInv, objects
<1>4. PICK c, x, s, h, env :
         /\ c = Before(v.current) /\ x = Last(v.current.open)
         /\ s = IF x = "operand" THEN Front(v.stack) ELSE v.stack
         /\ h = IF x = "try" THEN Front(v.handlers) ELSE v.handlers
         /\ env = IF x = "block" THEN [v.regs.env EXCEPT !.level = @ - 1] ELSE v.regs.env
  OBVIOUS
<1>5. v.current.open # <<>> /\ v.current \in Code
  BY <1>1, <1>2 DEF Close, Here, AtWork
<1>6. \E r \in Seq(Marks) :
         vm' = [v EXCEPT !.current = c, !.stack = s, !.handlers = h, !.references = r,
                         !.regs.env = env]
  <2>1. Closing(v, c, x, s, h, env)
    BY <1>2, <1>4, <1>5 DEF Closing
  <2> QED BY <2>1, ClosedIs, ZenonT(60)
<1>7. PICK r \in Seq(Marks) :
         vm' = [v EXCEPT !.current = c, !.stack = s, !.handlers = h, !.references = r,
                         !.regs.env = env]
  BY <1>6, Zenon
<1>8. /\ vm'.frames = v.frames /\ vm'.floor = v.floor
      /\ vm'.current = Before(v.current) /\ vm'.stack = s /\ vm'.handlers = h
      /\ vm'.regs.env = env
  BY <1>2, <1>4, <1>7 DEF Vms, Registers
<1>9. /\ c \in Code /\ s \in Seq(Marks) /\ h \in Seq(Handlers) /\ env \in Environment
      /\ vm' \in Vms => Goes(v, vm', E, C, o, m)
  <2>1. PICK w : w = vm'
    OBVIOUS
  <2>2. /\ Before(v.current) \in Code /\ s \in Seq(Marks) /\ h \in Seq(Handlers)
        /\ env \in Environment /\ (w \in Vms => Goes(v, w, E, C, o, m))
    <3>1. ClosedTo(v, w, x, s, h, env)
      BY <1>4, <1>8, <2>1 DEF ClosedTo
    <3>2. E \in Nat /\ C \in BOOLEAN /\ m \in Nat /\ Fine(v, E, C, o, m)
          /\ v.current.open # <<>>
      BY <1>2, <1>5
    <3> QED BY ONLY <3>1, <3>2, Closes
  <2> QED BY <1>4, <2>1, <2>2
<1>10. vm' \in Vms
  BY <1>2, <1>7, <1>9 DEF Vms, Registers
<1> QED BY <1>9, <1>10

(* A throw, at any instruction.                                            *)
LEMMA SpineThrows ==
    ASSUME NEW v, NEW rs, NEW o, NEW m, NEW gs, NEW pk, Spine(v, rs, o, m, gs, pk),
           v.current # NoCode, NEW x \in Vms, Alike(v, x), x.current.of = v.current.of
    PROVE  Spine(Unwind(x), rs, o, m, gs, pk)
<1>1. PICK E, C : E = EntryOf(rs, Len(rs)) /\ C = ChunkOf(rs, Len(rs))
  OBVIOUS
<1>2. /\ E \in Nat /\ C \in BOOLEAN /\ m \in Nat /\ Fine(v, E, C, o, m)
      /\ More(o, m, o, m)
  BY <1>1, TopFine, SameMore
<1>3. v \in Vms /\ MarksInOrder(v, E)
  BY <1>2, FineExecutes
<1>4. CASE Len(x.handlers) > x.floor.handlers
  <2>1. Goes(v, Unwind(x), E, C, o, m)
    BY <1>2, <1>4, UnwindGoes
  <2> QED BY <1>1, <1>2, <2>1, SpineGoes
<1>5. CASE ~(Len(x.handlers) > x.floor.handlers)
  <2>1. Over(Unwind(x), E) /\ Keeps(v, Unwind(x), E)
    BY <1>2, <1>3, <1>5, UnwindOver
  <2> QED BY <1>1, <2>1, SpineOver
<1> QED BY <1>4, <1>5

LEMMA SpineThrow ==
    ASSUME SpineInv, Throw
    PROVE  SpineInv'
<1>1. PICK v, rs, E, C, o, m : AtWork(v, rs, E, C, o, m)
  BY Working DEF Throw
<1>2. Spine(v, rs, o, m, generators, parked) /\ v.current # NoCode /\ v \in Vms
      /\ v = vm /\ rs = rust /\ o = own /\ m = made
  BY <1>1 DEF AtWork
<1>3. Spine(Unwind(v), rs, o, m, generators, parked)
  BY <1>2, SpineThrows DEF Alike
<1> QED BY <1>2, <1>3 DEF Throw, SpineInv, objects

(* A body returns.                                                         *)
LEMMA BodyAbove ==
    ASSUME NEW v, NEW rs, NEW E, NEW C, NEW o, NEW m, AtWork(v, rs, E, C, o, m)
    PROVE  /\ InBody <=> Len(v.frames) > v.floor.frames
           /\ Len(v.frames) \in Nat /\ v.floor.frames \in Nat
           /\ v.floor.frames <= Len(v.frames)
           /\ v.frames # <<>> =>
                /\ Len(v.frames) \in 1..Len(v.frames)
                /\ v.frames[Len(v.frames)].stack_base <= Len(v.stack)
                /\ v.frames[Len(v.frames)].handlers_base <= Len(v.handlers)
                /\ Last(v.frames) = v.frames[Len(v.frames)]
           /\ Len(v.frames) > v.floor.frames => v.frames # <<>>
           /\ v.frames # <<>> /\ Len(v.frames) > v.floor.frames
                 /\ v.frames[Len(v.frames)].generator # Nobody
              => v.current.of = v.frames[Len(v.frames)].generator /\ ~v.current.preparing
           /\ v.current.preparing => o[v.current.of].kind = "generator"
           /\ v.current.of \in 1..m
<1>1. PICK D, base, hbase : Runs(v, E, o, m, D, base, hbase)
  BY FineTop DEF AtWork
<1>2. /\ D = Len(v.frames) /\ D \in Nat /\ D >= v.floor.frames
      /\ (o[v.current.of].kind \in Bodies) <=> D > v.floor.frames
      /\ v.current.preparing => o[v.current.of].kind = "generator"
      /\ D > v.floor.frames /\ v.frames[D].generator # Nobody
            => v.current.of = v.frames[D].generator /\ ~v.current.preparing
      /\ v.current.of \in 1..m
  BY <1>1 DEF Runs
<1>3. v \in Vms /\ MarksInOrder(v, E) /\ v = vm /\ o = own
  BY DEF AtWork
<1>4. v.frames \in Seq(Frames) /\ v.floor.frames \in Nat /\ DOMAIN v.frames = 1..Len(v.frames)
  BY <1>3, VmTypes
<1>5. InBody <=> D > v.floor.frames
  BY <1>2, <1>3 DEF InBody, Here
<1>6. v.frames # <<>> => /\ Len(v.frames) \in 1..Len(v.frames)
                         /\ Last(v.frames) = v.frames[Len(v.frames)]
  BY <1>2, <1>4 DEF Last
<1>7. v.frames # <<>> => /\ v.frames[Len(v.frames)].stack_base <= Len(v.stack)
                         /\ v.frames[Len(v.frames)].handlers_base <= Len(v.handlers)
  BY <1>3, <1>4, <1>6 DEF MarksInOrder
<1>8. D > v.floor.frames => v.frames # <<>>
  BY <1>2, <1>4
<1> QED BY <1>2, <1>4, <1>5, <1>6, <1>7, <1>8

(* Whatever gives a body's frame back gives the caller what is its own.    *)
LEMMA SpineLeaves ==
    ASSUME NEW v, NEW rs, NEW E, NEW C, NEW o, NEW m, AtWork(v, rs, E, C, o, m),
           Len(v.frames) > v.floor.frames, NEW w, Left(v, w)
    PROVE  Spine(w, rs, o, m, generators, parked)
<1>1. /\ E = EntryOf(rs, Len(rs)) /\ C = ChunkOf(rs, Len(rs))
      /\ Spine(v, rs, o, m, generators, parked) /\ v.current # NoCode
      /\ E \in Nat /\ C \in BOOLEAN /\ m \in Nat /\ Fine(v, E, C, o, m)
      /\ v \in Vms /\ More(o, m, o, m)
  BY DEF AtWork
<1>2. CASE Len(v.frames) - 1 \in Lowest(v, C)..Len(v.frames)
  <2>1. Goes(v, w, E, C, o, m)
    BY <1>1, <1>2, LeftGoes
  <2> QED BY <1>1, <2>1, SpineGoes
<1>3. CASE ~(Len(v.frames) - 1 \in Lowest(v, C)..Len(v.frames))
  <2>1. Over(w, E) /\ Keeps(v, w, E)
    BY <1>1, <1>3, LeftOver
  <2> QED BY <1>1, <2>1, SpineOver
<1> QED BY <1>2, <1>3

LEMMA SpineReturn ==
    ASSUME SpineInv, Return
    PROVE  SpineInv'
<1>1. PICK v, rs, E, C, o, m : AtWork(v, rs, E, C, o, m)
  BY Working DEF Return
<1>2. v = vm /\ rs = rust /\ o = own /\ m = made /\ v \in Vms
  BY <1>1 DEF AtWork
<1>3. /\ v.frames # <<>> /\ Len(v.frames) > v.floor.frames
      /\ v.frames[Len(v.frames)].stack_base <= Len(v.stack)
      /\ v.frames[Len(v.frames)].handlers_base <= Len(v.handlers)
  BY <1>1, BodyAbove DEF Return
<1>4. Left(v, LeaveFrame(v))
  BY <1>2, <1>3, LeaveFrameLeaves
<1>5. Spine(LeaveFrame(v), rs, o, m, generators, parked)
  BY <1>1, <1>3, <1>4, SpineLeaves
<1> QED BY <1>2, <1>5 DEF Return, SpineInv, objects

(* A chunk ends.                                                           *)
LEMMA NothingOpen ==
    ASSUME NEW c, NEW env, NEW s, NEW h, NEW d, NEW base \in Nat, NEW top, NEW hbase \in Nat, NEW htop,
           Level(c, env, s, h, d, base, top, hbase, htop), c.open = <<>>
    PROVE  top = base /\ htop = hbase
<1>1. Len(c.open) = 0
  OBVIOUS
<1> QED BY <1>1, CountNothing DEF Level, OperandsFit, HandlersFit

LEMMA NoCodeIsCode ==
    NoCode \in Code
BY ActivationAssumption DEF NoCode, Code, Nobody

LEMMA SpineChunkEnds ==
    ASSUME SpineInv, ChunkEnds
    PROVE  SpineInv'
<1>1. PICK v, rs, E, C, o, m : AtWork(v, rs, E, C, o, m)
  BY Working DEF ChunkEnds
<1>2. /\ v = vm /\ rs = rust /\ o = own /\ m = made /\ v \in Vms /\ E = EntryOf(rs, Len(rs))
      /\ Fine(v, E, C, o, m) /\ E \in Nat /\ C \in BOOLEAN /\ m \in Nat
      /\ v.current # NoCode /\ Spine(v, rs, o, m, generators, parked)
      /\ MarksInOrder(v, E)
  BY <1>1 DEF AtWork
<1>3. PICK D, base, hbase : Runs(v, E, o, m, D, base, hbase)
  BY <1>2, FineTop
<1>4. /\ D \in Nat /\ D = Len(v.frames) /\ D >= v.floor.frames
      /\ base \in Nat /\ hbase \in Nat /\ base = BaseAt(v, E, D) /\ hbase = HandlersBaseAt(v, D)
      /\ Level(v.current, v.regs.env, v.stack, v.handlers, D,
               base, Len(v.stack), hbase, Len(v.handlers))
  BY <1>3 DEF Runs
<1>5. D = v.floor.frames
  BY <1>1, <1>4, BodyAbove, <1>2, VmTypes DEF ChunkEnds
<1>6. base = E /\ hbase = v.floor.handlers
  BY <1>4, <1>5 DEF BaseAt, HandlersBaseAt
<1>7. Len(v.handlers) = v.floor.handlers
  BY <1>2, <1>4, <1>6, NothingOpen DEF ChunkEnds, Here
<1>8. PICK w : w = [v EXCEPT !.current = NoCode]
  OBVIOUS
<1>9. /\ w \in Vms /\ w.current = NoCode /\ w.frames = v.frames /\ w.handlers = v.handlers
      /\ w.stack = v.stack /\ w.floor = v.floor
  BY <1>2, <1>8, NoCodeIsCode DEF Vms
<1>10. MarksInOrder(w, E)
  BY <1>2, <1>9 DEF MarksInOrder
<1>11. Over(w, E)
  BY <1>4, <1>5, <1>7, <1>9, <1>10 DEF Over
<1>12. Keeps(v, w, E)
  BY <1>2, <1>9 DEF Keeps, MarksInOrder
<1>13. Spine(w, rs, o, m, generators, parked)
  BY <1>2, <1>11, <1>12, SpineOver
<1> QED BY <1>2, <1>8, <1>13 DEF ChunkEnds, SpineInv, objects

(* Bodies are entered.                                                     *)
Entering(v, f, w, o, m, p, q) ==
    /\ More(o, m, p, q) /\ q \in Nat
    /\ w \in Vms /\ w.floor = v.floor /\ w.frames = Append(v.frames, f)
    /\ w.handlers = v.handlers /\ w.stack = SubSeq(v.stack, 1, f.stack_base)
    /\ w.current.open = <<>> /\ w.current.of = q /\ w.current.of \in 1..q
    /\ w.current \in Code
    /\ p[w.current.of].kind \in Bodies
    /\ w.current.preparing => p[w.current.of].kind = "generator"
    /\ w.regs.env = [of |-> w.current.of, level |-> 0]
    /\ w.thrown = v.thrown /\ w.escaped = v.escaped /\ w.regs = p[w.current.of].regs
    /\ q = m + 1

LEMMA EntersBody ==
    ASSUME NEW v \in Vms, NEW f \in Frames, f.stack_base <= Len(v.stack),
           NEW kind, NEW realm \in Realms, own \in Owners, made \in Ids, MayEnter,
           EnterBody(v, f, kind, realm)
    PROVE  Entering(v, f, vm', own, made, own', made') /\ UNCHANGED objects
<1>1. PICK id, regs, c : /\ id = made + 1 /\ regs = Entered(id, kind, realm)
                         /\ c = [of |-> id, open |-> <<>>, preparing |-> kind = "generator"]
  OBVIOUS
<1>2. /\ kind \in Bodies /\ made' = id
      /\ own' = [own EXCEPT ![id] = [kind |-> kind, regs |-> regs]]
      /\ vm' = [v EXCEPT !.stack = Truncate(@, f.stack_base), !.frames = Append(@, f),
                         !.regs = regs, !.current = c]
      /\ UNCHANGED objects
  BY <1>1 DEF EnterBody
<1>3. MaxActivations \in Nat /\ made \in Nat /\ id \in Nat /\ id \in Ids /\ made <= id
      /\ id \in 1..id
  BY <1>1, ActivationAssumption DEF MayEnter, Ids
<1>4. regs \in Registers /\ regs.env = [of |-> id, level |-> 0]
  <2>1. regs.env = [of |-> id, level |-> 0]
    BY <1>1 DEF Entered
  <2>2. regs.env \in Environment
    BY <1>3, <2>1 DEF Environment, Ids
  <2>3. CASE kind = "construct"
    <3>1. regs = [env |-> regs.env, var |-> id, this |-> id, target |-> id, realm |-> realm]
      BY <1>1, <2>3, <2>1 DEF Entered
    <3> QED BY <1>3, <2>1, <2>2, <3>1 DEF Registers
  <2>4. CASE kind # "construct"
    <3>1. regs = [env |-> regs.env, var |-> id, this |-> id, target |-> 0, realm |-> realm]
      BY <1>1, <2>4, <2>1 DEF Entered, Nobody
    <3> QED BY <1>3, <2>1, <2>2, <3>1 DEF Registers
  <2> QED BY <2>3, <2>4
<1>5. kind \in Kinds /\ [kind |-> kind, regs |-> regs] \in [kind : Kinds, regs : Registers]
  BY <1>2, <1>4 DEF Bodies, Kinds
<1>6. own' \in Owners /\ own'[id] = [kind |-> kind, regs |-> regs]
      /\ \A a \in 1..made : own'[a] = own[a]
  <2>1. PICK x, p : x = [kind |-> kind, regs |-> regs] /\ p = own'
    OBVIOUS
  <2>2. p = [own EXCEPT ![id] = x] /\ x \in [kind : Kinds, regs : Registers]
    BY <1>2, <1>5, <2>1
  <2>3. p \in Owners /\ p[id] = x
    BY <1>3, <2>2 DEF Owners
  <2>4. \A a \in 1..made : a # id /\ a \in Ids
    BY <1>1, <1>3 DEF Ids
  <2>5. \A a \in 1..made : p[a] = own[a]
    BY <2>2, <2>4 DEF Owners
  <2> QED BY <2>1, <2>3, <2>5
<1>7. c \in Code /\ c.open = <<>> /\ c.of = id /\ (c.preparing => kind = "generator")
  <2>1. (kind = "generator") \in BOOLEAN
    OBVIOUS
  <2>2. PICK b \in BOOLEAN : b = (kind = "generator")
    BY <2>1
  <2>3. c = [of |-> id, open |-> <<>>, preparing |-> b]
    BY <1>1, <2>2
  <2>4. id \in 0..MaxActivations /\ <<>> \in Seq(Constructs)
    BY <1>3 DEF Ids
  <2>5. c \in Code
    BY <2>2, <2>3, <2>4 DEF Code
  <2> QED BY <2>2, <2>3, <2>5
<1>8. /\ f.stack_base \in 0..Len(v.stack)
      /\ Truncate(v.stack, f.stack_base) = SubSeq(v.stack, 1, f.stack_base)
      /\ SubSeq(v.stack, 1, f.stack_base) \in Seq(Marks)
      /\ Append(v.frames, f) \in Seq(Frames)
  <2>1. v.stack \in Seq(Marks) /\ v.frames \in Seq(Frames) /\ f.stack_base \in Nat
        /\ Len(v.stack) \in Nat
    BY VmTypes DEF Frames
  <2>2. f.stack_base \in 0..Len(v.stack)
    BY <2>1
  <2>3. PICK t, n : t = v.stack /\ n = f.stack_base
    OBVIOUS
  <2>4. t \in Seq(Marks) /\ n \in 0..Len(t)
    BY ONLY <2>1, <2>2, <2>3
  <2>5. Truncate(t, n) = SubSeq(t, 1, n) /\ Truncate(t, n) \in Seq(Marks)
    BY ONLY <2>4, Shorter
  <2>6. Append(v.frames, f) \in Seq(Frames)
    BY <2>1, Extended
  <2> QED BY ONLY <2>2, <2>3, <2>5, <2>6
<1>9. PICK w, s, fs : w = vm' /\ s = SubSeq(v.stack, 1, f.stack_base) /\ fs = Append(v.frames, f)
  OBVIOUS
<1>10. w = [v EXCEPT !.stack = s, !.frames = fs, !.regs = regs, !.current = c]
  BY <1>2, <1>8, <1>9
<1>11. /\ w \in Vms /\ w.floor = v.floor /\ w.frames = fs /\ w.handlers = v.handlers
       /\ w.stack = s /\ w.current = c /\ w.regs = regs
       /\ w.thrown = v.thrown /\ w.escaped = v.escaped
  BY <1>4, <1>7, <1>8, <1>9, <1>10 DEF Vms
<1>12. More(own, made, own', made')
  BY <1>2, <1>3, <1>6 DEF More
<1> QED BY <1>1, <1>2, <1>3, <1>4, <1>6, <1>7, <1>9, <1>11, <1>12 DEF Entering

LEMMA FrameIsOne ==
    ASSUME NEW v \in Vms, NEW code \in Code, NEW kind
    PROVE  /\ FrameFrom(v, code, kind) \in Frames
           /\ FrameFrom(v, code, kind).code = code /\ FrameFrom(v, code, kind).regs = v.regs
           /\ FrameFrom(v, code, kind).stack_base = Len(v.stack)
           /\ FrameFrom(v, code, kind).handlers_base = Len(v.handlers)
           /\ FrameFrom(v, code, kind).generator = Nobody
<1>1. v.regs \in Registers /\ Len(v.stack) \in Nat /\ Len(v.handlers) \in Nat
  BY VmTypes
<1>2. (kind = "construct") \in BOOLEAN
  OBVIOUS
<1>3. PICK b \in BOOLEAN : b = (kind = "construct")
  BY <1>2
<1>4. FrameFrom(v, code, kind) =
        [code |-> code, regs |-> v.regs, stack_base |-> Len(v.stack),
         handlers_base |-> Len(v.handlers), constructed |-> b, generator |-> 0]
  BY <1>3 DEF FrameFrom, Nobody
<1> QED BY <1>1, <1>3, <1>4 DEF Frames, Nobody

(* A body entered in a frame of its own is one that `v` waits for.          *)
LEMMA EnteringPushes ==
    ASSUME NEW v \in Vms, NEW code \in Code, NEW kind, NEW f, f = FrameFrom(v, code, kind),
           NEW w, NEW o, NEW m, NEW p, NEW q, Entering(v, f, w, o, m, p, q)
    PROVE  Pushed(v, w, f) /\ Enters(w, p, q, f) /\ PushedLevel(v, w)
<1>1. /\ f \in Frames /\ f.stack_base = Len(v.stack) /\ f.handlers_base = Len(v.handlers)
      /\ f.generator = Nobody
  BY FrameIsOne
<1>2. /\ w \in Vms /\ w.floor = v.floor /\ w.frames = Append(v.frames, f)
      /\ w.handlers = v.handlers /\ w.stack = SubSeq(v.stack, 1, Len(v.stack))
      /\ w.current.open = <<>> /\ w.current.of \in 1..q /\ w.current \in Code
      /\ p[w.current.of].kind \in Bodies
      /\ w.current.preparing => p[w.current.of].kind = "generator"
      /\ w.regs.env = [of |-> w.current.of, level |-> 0]
  BY <1>1 DEF Entering
<1>3. v.stack \in Seq(Marks) /\ Len(v.stack) \in Nat /\ Len(v.handlers) \in Nat
  BY VmTypes
<1>4. w.stack = v.stack
  BY <1>2, <1>3
<1>5. Pushed(v, w, f)
  BY <1>1, <1>2, <1>3, <1>4 DEF Pushed
<1>6. Enters(w, p, q, f)
  BY <1>1, <1>2 DEF Enters
<1>7. PushedLevel(v, w)
  BY <1>2, <1>3, <1>4, StartedLevel DEF PushedLevel
<1> QED BY <1>5, <1>6, <1>7

LEMMA SpineCall ==
    ASSUME SpineInv, Call
    PROVE  SpineInv'
<1>1. PICK v, rs, E, C, o, m : AtWork(v, rs, E, C, o, m)
  BY Working DEF Call, MayOpen
<1>2. /\ v = vm /\ rs = rust /\ o = own /\ m = made /\ v \in Vms /\ E = EntryOf(rs, Len(rs))
      /\ C = ChunkOf(rs, Len(rs)) /\ Fine(v, E, C, o, m) /\ E \in Nat /\ C \in BOOLEAN
      /\ m \in Nat /\ v.current # NoCode /\ Spine(v, rs, o, m, generators, parked)
      /\ v.current \in Code /\ o \in Owners /\ m \in Ids
  BY <1>1 DEF AtWork, More
<1>3. PICK kind \in Bodies, realm \in Realms :
         EnterBody(vm, FrameFrom(vm, Open(Here, "operand"), kind), kind, realm)
  BY DEF Call
<1>4. PICK code, f : code = Open(v.current, "operand") /\ f = FrameFrom(v, code, kind)
  OBVIOUS
<1>5. code \in Code
  BY <1>2, <1>4, OpenIsCode DEF Constructs
<1>6. /\ f \in Frames /\ f.stack_base = Len(v.stack) /\ f.code = code /\ f.regs = v.regs
  BY <1>2, <1>4, <1>5, FrameIsOne
<1>7. PICK w, p, q : w = vm' /\ p = own' /\ q = made'
  OBVIOUS
<1>8. Entering(v, f, w, o, m, p, q) /\ UNCHANGED objects
  <2>1. EnterBody(v, f, kind, realm)
    BY <1>2, <1>3, <1>4 DEF Here
  <2>2. f.stack_base <= Len(v.stack)
    BY <1>2, <1>6, VmTypes
  <2> QED BY <1>2, <1>6, <1>7, <2>1, <2>2, EntersBody DEF Call
<1>9. Pushed(v, w, f) /\ Enters(w, p, q, f) /\ PushedLevel(v, w)
  BY <1>2, <1>4, <1>5, <1>8, EnteringPushes
<1>10. /\ More(o, m, p, q) /\ q \in Nat /\ m <= q /\ \A a \in 1..m : p[a] = o[a]
  BY <1>8 DEF Entering, More
<1>11. Fine(v, E, C, p, q)
  BY <1>2, <1>10, FineMore
<1>12. Goes(v, w, E, C, p, q)
  <2>1. f.code = Open(v.current, "operand") /\ f.regs.env = v.regs.env
    BY <1>4, <1>6
  <2>2. E \in Nat /\ C \in BOOLEAN /\ q \in Nat
    BY <1>2, <1>10
  <2>3. Pushed(v, w, f) /\ Enters(w, p, q, f) /\ PushedLevel(v, w)
    BY <1>9
  <2> QED BY ONLY <1>11, <2>1, <2>2, <2>3, PushedGoes
<1>13. Spine(w, rs, p, q, generators, parked)
  BY <1>2, <1>10, <1>12, SpineGoes
<1> QED BY <1>2, <1>7, <1>8, <1>13 DEF Call, SpineInv, objects

LEMMA SpineTailCall ==
    ASSUME SpineInv, TailCall
    PROVE  SpineInv'
<1>1. PICK v, rs, E, C, o, m : AtWork(v, rs, E, C, o, m)
  BY Working DEF TailCall
<1>2. /\ v = vm /\ rs = rust /\ o = own /\ m = made /\ v \in Vms /\ E = EntryOf(rs, Len(rs))
      /\ C = ChunkOf(rs, Len(rs)) /\ Fine(v, E, C, o, m) /\ E \in Nat /\ C \in BOOLEAN
      /\ m \in Nat /\ v.current # NoCode /\ Spine(v, rs, o, m, generators, parked)
      /\ v.current \in Code /\ o \in Owners /\ m \in Ids
  BY <1>1 DEF AtWork, More
<1>3. PICK D, f, u : /\ D = Len(v.frames) /\ f = Last(v.frames)
                     /\ u = [v EXCEPT !.frames = Front(@)]
  OBVIOUS
<1>4. /\ v.frames # <<>> /\ D > v.floor.frames /\ D \in Nat /\ D \in 1..D
      /\ f = v.frames[D] /\ f.stack_base <= Len(v.stack)
  BY <1>1, <1>2, <1>3, BodyAbove DEF TailCall
<1>5. f.generator = Nobody
  BY <1>2, <1>3 DEF TailCall
<1>6. PICK kind \in Bodies, realm \in Realms : EnterBody(u, f, kind, realm)
  BY <1>2, <1>3 DEF TailCall
<1>7. f \in Frames /\ v.frames \in Seq(Frames)
  BY <1>2, <1>3, <1>4, VmTypes
<1>8. u \in Vms /\ u.stack = v.stack /\ u.handlers = v.handlers /\ u.floor = v.floor
      /\ u.frames = Front(v.frames) /\ Append(Front(v.frames), f) = v.frames
  <2>1. PICK fs, gs : fs = v.frames /\ gs = Front(fs)
    OBVIOUS
  <2>2. gs \in Seq(Frames) /\ Len(gs) = Len(fs) - 1 /\ \A i \in 1..Len(fs) - 1 : gs[i] = fs[i]
    BY <1>4, <1>7, <2>1, Fronted
  <2>3. Append(gs, f) = fs
    BY <1>3, <1>4, <1>7, <2>1, <2>2
  <2> QED BY <1>2, <1>3, <2>1, <2>2, <2>3 DEF Vms
<1>9. PICK w, p, q : w = vm' /\ p = own' /\ q = made'
  OBVIOUS
<1>10. Entering(u, f, w, o, m, p, q) /\ UNCHANGED objects
  BY <1>2, <1>4, <1>6, <1>7, <1>8, <1>9, EntersBody DEF TailCall
<1>11. /\ More(o, m, p, q) /\ q \in Nat /\ m <= q /\ \A a \in 1..m : p[a] = o[a]
       /\ w \in Vms /\ w.floor = v.floor /\ w.frames = v.frames /\ w.handlers = v.handlers
       /\ w.stack = SubSeq(v.stack, 1, v.frames[D].stack_base)
       /\ w.current.open = <<>> /\ w.regs.env = [of |-> w.current.of, level |-> 0]
       /\ w.current.of \in 1..q /\ p[w.current.of].kind \in Bodies
       /\ (w.current.preparing => p[w.current.of].kind = "generator")
  BY <1>4, <1>8, <1>10 DEF Entering, More
<1>12. Fine(v, E, C, p, q)
  BY <1>2, <1>11, FineMore
<1>13. \A i \in DOMAIN v.current.open : v.current.open[i] # "try"
  BY <1>2 DEF TailCall, Here
<1>14. Goes(v, w, E, C, p, q)
  <2>1. D \in Nat /\ D = Len(v.frames) /\ D > v.floor.frames /\ v.frames[D].generator = Nobody
    BY <1>3, <1>4, <1>5
  <2>2. E \in Nat /\ C \in BOOLEAN /\ q \in Nat
    BY <1>2, <1>11
  <2> QED BY ONLY <1>11, <1>12, <1>13, <2>1, <2>2, TailGoes
<1>15. Spine(w, rs, p, q, generators, parked)
  BY <1>2, <1>11, <1>14, SpineGoes
<1> QED BY <1>2, <1>9, <1>10, <1>15 DEF TailCall, SpineInv, objects

(* A body parks.                                                           *)
LEMMA SpineSuspends ==
    ASSUME NEW v, NEW rs, NEW E, NEW C, NEW o, NEW m, AtWork(v, rs, E, C, o, m),
           Len(v.frames) > v.floor.frames, v.current.preparing => v.current.open = <<>>,
           NEW begun \in BOOLEAN, Suspend(v.current.of, begun), generators' \subseteq 1..m
    PROVE  SpineInv'
<1>1. /\ v = vm /\ rs = rust /\ o = own /\ m = made /\ v \in Vms
      /\ Fine(v, E, C, o, m) /\ E \in Nat /\ C \in BOOLEAN
      /\ m \in Nat /\ Spine(v, rs, o, m, generators, parked)
      /\ v.current \in Code
  BY DEF AtWork
<1>2. PICK g, resumed, p : /\ g = v.current.of
                           /\ resumed = [Open(v.current, "operand") EXCEPT !.preparing = FALSE]
                           /\ p = Park(v, resumed, begun)
  OBVIOUS
<1>3. g \in 1..m /\ v.frames # <<>>
      /\ v.frames[Len(v.frames)].stack_base <= Len(v.stack)
      /\ v.frames[Len(v.frames)].handlers_base <= Len(v.handlers)
  BY <1>2, BodyAbove
<1>4. Shelved(p, g, o)
  BY <1>1, <1>2, ParkShelves
<1>5. PICK w : w = [LeaveFrame(v) EXCEPT !.references = <<>>]
  OBVIOUS
<1>6. Left(v, w)
  BY <1>1, <1>3, <1>5, LeaveFrameLeaves
<1>7. Spine(w, rs, o, m, generators, parked)
  BY <1>6, SpineLeaves
<1>8. parked' = [parked EXCEPT ![g] = p] /\ vm' = w /\ UNCHANGED <<rust, own, made>>
  BY <1>1, <1>2, <1>5 DEF Suspend, Here
<1>9. PICK pk, qk : pk = parked /\ qk = parked'
  OBVIOUS
<1>10. /\ pk \in [Ids -> Shelves \cup {NotParked}] /\ qk = [pk EXCEPT ![g] = p] /\ g \in Ids
       /\ \A a \in Ids : pk[a] # NotParked => a \in 1..m /\ Shelved(pk[a], a, o)
       /\ p \in Shelves
  <2>1. m \in Ids
    BY <1>1 DEF Spine
  <2>2. g \in Ids
    BY <1>1, <1>3, <2>1, ActivationAssumption DEF Ids
  <2> QED BY <1>1, <1>4, <1>8, <1>9, <2>2 DEF Spine, Shelved
<1>11. qk \in [Ids -> Shelves \cup {NotParked}]
  BY <1>10
<1>12. \A a \in Ids : qk[a] # NotParked => a \in 1..m /\ Shelved(qk[a], a, o)
  BY <1>3, <1>4, <1>10
<1>13. Spine(w, rs, o, m, generators', qk)
  BY <1>7, <1>11, <1>12, SpineShelf
<1> QED BY <1>1, <1>8, <1>9, <1>13 DEF SpineInv

LEMMA SpineStartsGenerator ==
    ASSUME SpineInv, GeneratorStart
    PROVE  SpineInv'
<1>1. PICK v, rs, E, C, o, m : AtWork(v, rs, E, C, o, m)
  BY Working DEF GeneratorStart
<1>2. v = vm /\ o = own /\ m = made /\ Spine(v, rs, o, m, generators, parked)
  BY <1>1 DEF AtWork
<1>3. v.current.preparing /\ v.current.open = <<>> /\ Suspend(v.current.of, FALSE)
      /\ generators' = generators \cup {v.current.of}
  BY <1>2 DEF GeneratorStart, Here
<1>4. Len(v.frames) > v.floor.frames /\ v.current.of \in 1..m
  <2>1. o[v.current.of].kind = "generator"
    BY <1>1, <1>3, BodyAbove
  <2>2. InBody
    BY <1>2, <2>1 DEF InBody, Bodies, Here
  <2> QED BY <1>1, <2>2, BodyAbove
<1>5. generators' \subseteq 1..m
  BY <1>2, <1>3, <1>4 DEF Spine
<1>6. FALSE \in BOOLEAN
  OBVIOUS
<1> QED BY <1>1, <1>3, <1>4, <1>5, <1>6, SpineSuspends

LEMMA SpineYields ==
    ASSUME SpineInv, Yield
    PROVE  SpineInv'
<1>1. PICK v, rs, E, C, o, m : AtWork(v, rs, E, C, o, m)
  BY Working DEF Yield, MayOpen
<1>2. v = vm /\ o = own /\ m = made /\ Spine(v, rs, o, m, generators, parked)
  BY <1>1 DEF AtWork
<1>3. /\ own[v.current.of].kind = "generator" /\ ~v.current.preparing
      /\ Last(v.frames).generator # Nobody
      /\ Suspend(Last(v.frames).generator, TRUE) /\ generators' = generators
  BY <1>2 DEF Yield, Here
<1>4. Len(v.frames) > v.floor.frames
  <2>1. InBody
    BY <1>2, <1>3 DEF InBody, Bodies, Here
  <2> QED BY <1>1, <2>1, BodyAbove
<1>5. v.current.of = Last(v.frames).generator
  BY <1>1, <1>3, <1>4, BodyAbove
<1>6. generators' \subseteq 1..m
  BY <1>2, <1>3 DEF Spine
<1>7. TRUE \in BOOLEAN
  OBVIOUS
<1>8. Suspend(v.current.of, TRUE)
  BY <1>3, <1>5
<1> QED BY <1>1, <1>3, <1>4, <1>6, <1>7, <1>8, SpineSuspends

(* An answer without anything having run.                                  *)
LEMMA ResultsAre ==
    ASSUME NEW v \in Vms, NEW code \in Code
    PROVE  /\ Results(v, code) \in Vms
           /\ Results(v, code).stack = Append(v.stack, Mark(code))
           /\ Results(v, code).current = code /\ Results(v, code).frames = v.frames
           /\ Results(v, code).handlers = v.handlers /\ Results(v, code).floor = v.floor
           /\ Results(v, code).regs = v.regs /\ Results(v, code).thrown = v.thrown
           /\ Results(v, code).escaped = v.escaped
<1>1. PICK s : s = Append(v.stack, Mark(code))
  OBVIOUS
<1>2. s \in Seq(Marks)
  BY <1>1, VmTypes, MarkIsOne, Extended
<1>3. Results(v, code) = [v EXCEPT !.stack = s, !.current = code]
  BY <1>1 DEF Results
<1> QED BY <1>1, <1>2, <1>3 DEF Vms

LEMMA SpineTakes ==
    ASSUME NEW v, NEW rs, NEW o, NEW m, NEW gs, NEW pk, Spine(v, rs, o, m, gs, pk),
           NEW g
    PROVE  Spine(v, rs, o, m, gs, [pk EXCEPT ![g] = NotParked])
<1>1. PICK qk : qk = [pk EXCEPT ![g] = NotParked]
  OBVIOUS
<1>2. /\ pk \in [Ids -> Shelves \cup {NotParked}] /\ gs \subseteq 1..m
      /\ \A a \in Ids : pk[a] # NotParked => a \in 1..m /\ Shelved(pk[a], a, o)
  BY DEF Spine
<1>3. qk \in [Ids -> Shelves \cup {NotParked}]
  BY <1>1, <1>2
<1>4. \A a \in Ids : qk[a] # NotParked => a \in 1..m /\ Shelved(qk[a], a, o)
  BY <1>1, <1>2
<1>5. Spine(v, rs, o, m, gs, qk)
  BY <1>2, <1>3, <1>4, SpineShelf
<1> QED BY <1>1, <1>5

(* A parked body is revived by code that has come to `code`.               *)
Reviving(v, E, C, o, m, code, g, how, w, p, f) ==
    /\ w = Revive(v, code, g) /\ p = parked[g] /\ f = RevivedFrame(v, code, g)
    /\ g \in 1..m /\ g \in Ids /\ g \in Nat /\ Shelved(p, g, o) /\ p # NotParked
    /\ ~Running(g)
    /\ Revived(v, code, g, w, p) /\ Enters(w, o, m, f)
    /\ Goes(v, w, E, C, o, m) /\ Fine(w, E, C, o, m) /\ w.current # NoCode /\ w \in Vms
    /\ f \in Frames
    /\ parked \in [Ids -> Shelves \cup {NotParked}]
    /\ parked' = [parked EXCEPT ![g] = NotParked]
    /\ \/ vm' = Unwind(w) /\ how = "throw"
       \/ vm' = Results(v, code)
       \/ vm' = w

LEMMA ReviveIs ==
    ASSUME NEW v, NEW rs, NEW E, NEW C, NEW o, NEW m, AtWork(v, rs, E, C, o, m),
           NEW g \in generators, NEW how, NEW code, code = Open(v.current, "operand"),
           ResumeParked(v, code, g, how)
    PROVE  \E w, p, f : Reviving(v, E, C, o, m, code, g, how, w, p, f)
<1>1. /\ v = vm /\ rs = rust /\ v \in Vms
      /\ Fine(v, E, C, o, m) /\ E \in Nat /\ C \in BOOLEAN
      /\ m \in Nat /\ v.current # NoCode /\ Spine(v, rs, o, m, generators, parked)
      /\ v.current \in Code /\ More(o, m, o, m) /\ m \in Ids
  BY DEF AtWork, More
<1>2. code \in Code
  BY <1>1, OpenIsCode DEF Constructs
<1>3. PICK w, p, f : /\ w = Revive(v, code, g) /\ p = parked[g]
                     /\ f = RevivedFrame(v, code, g)
  OBVIOUS
<1>4. g \in 1..m /\ g \in Ids /\ g \in Nat
  BY <1>1, ActivationAssumption DEF Spine, Ids
<1>5. Shelved(p, g, o) /\ p # NotParked /\ ~Running(g)
  BY <1>1, <1>3, <1>4 DEF Spine, ResumeParked
<1>6. Revived(v, code, g, w, p)
  BY <1>1, <1>2, <1>3, <1>4, <1>5, RevivePushes
<1>7. Enters(w, o, m, f)
  BY <1>1, <1>3, <1>4, <1>5, <1>6, ReviveEnters
<1>8. /\ Pushed(v, w, f) /\ PushedLevel(v, w) /\ f.code = code /\ f.regs = v.regs
      /\ f \in Frames
  BY <1>3, <1>6 DEF Revived, Pushed
<1>9. Goes(v, w, E, C, o, m)
  <2>1. f.code = Open(v.current, "operand") /\ f.regs.env = v.regs.env
    BY <1>8
  <2> QED BY ONLY <1>1, <1>7, <1>8, <2>1, PushedGoes
<1>10. Fine(w, E, C, o, m) /\ w.current # NoCode /\ w \in Vms
  BY <1>1, <1>9, FineExecutes DEF Goes
<1>11. /\ parked' = [parked EXCEPT ![g] = NotParked]
       /\ \/ vm' = Unwind(w) /\ how = "throw"
          \/ vm' = Results(v, code)
          \/ vm' = w
  BY <1>3 DEF ResumeParked, TakeParked
<1>12. parked \in [Ids -> Shelves \cup {NotParked}]
  BY <1>1 DEF Spine
<1>13. Reviving(v, E, C, o, m, code, g, how, w, p, f)
  BY ONLY <1>3, <1>4, <1>5, <1>6, <1>7, <1>8, <1>9, <1>10, <1>11, <1>12 DEF Reviving
<1> QED BY <1>13

LEMMA SpineResumes ==
    ASSUME SpineInv, CallResume
    PROVE  SpineInv'
<1>1. PICK v, rs, E, C, o, m : AtWork(v, rs, E, C, o, m)
  BY Working DEF CallResume, MayOpen
<1>2. /\ v = vm /\ rs = rust /\ o = own /\ m = made /\ v \in Vms /\ E = EntryOf(rs, Len(rs))
      /\ C = ChunkOf(rs, Len(rs)) /\ Fine(v, E, C, o, m) /\ E \in Nat /\ C \in BOOLEAN
      /\ m \in Nat /\ v.current # NoCode /\ Spine(v, rs, o, m, generators, parked)
      /\ v.current \in Code /\ More(o, m, o, m) /\ m \in Ids
  BY <1>1 DEF AtWork, More
<1>3. PICK g \in generators, how \in {"next", "throw", "return"} :
         Resume(vm, Open(Here, "operand"), g, how)
  BY DEF CallResume
<1>4. PICK code : code = Open(v.current, "operand")
  OBVIOUS
<1>5. /\ Resume(v, code, g, how) /\ code \in Code
      /\ rust' = rs /\ own' = o /\ made' = m /\ generators' = generators
  BY <1>2, <1>3, <1>4, OpenIsCode DEF CallResume, Here, Resume, Constructs
<1>6. Spine(Unwind(v), rs, o, m, generators, parked)
  BY <1>2, SpineThrows DEF Alike
<1>7. Spine(Results(v, code), rs, o, m, generators, parked)
  <2>1. Goes(v, Results(v, code), E, C, o, m)
    <3>1. PICK w : w = Results(v, code)
      OBVIOUS
    <3>2. /\ w \in Vms /\ w.frames = v.frames /\ w.floor = v.floor /\ w.handlers = v.handlers
          /\ w.current = Open(v.current, "operand")
          /\ w.stack = Append(v.stack, Mark(w.current)) /\ w.regs.env = v.regs.env
      BY <1>2, <1>4, <1>5, <3>1, ResultsAre, SMTT(30)
    <3>3. Goes(v, w, E, C, o, m)
      BY ONLY <1>2, <3>2, AnswerGoes
    <3> QED BY <3>1, <3>3
  <2> QED BY <1>2, <2>1, SpineGoes
<1>8. SUFFICES Spine(vm', rs, o, m, generators, parked')
  BY <1>5 DEF SpineInv
<1>9. CASE ResumeRunning(v, g)
  BY <1>6, <1>9 DEF ResumeRunning
<1>10. CASE ResumeFinished(v, code, g, how)
  BY <1>6, <1>7, <1>10 DEF ResumeFinished
<1>11. CASE ResumeParked(v, code, g, how)
  <2>1. PICK w, p, f : Reviving(v, E, C, o, m, code, g, how, w, p, f)
    BY <1>1, <1>4, <1>11, ReviveIs
  <2>2. Goes(v, w, E, C, o, m) /\ w.current # NoCode /\ w \in Vms
    BY <2>1 DEF Reviving
  <2>3. Spine(w, rs, o, m, generators, parked)
    BY <1>2, <2>2, SpineGoes
  <2>4. Spine(Unwind(w), rs, o, m, generators, parked)
    BY <2>2, <2>3, SpineThrows DEF Alike
  <2>5. /\ parked' = [parked EXCEPT ![g] = NotParked]
        /\ vm' = Unwind(w) \/ vm' = Results(v, code) \/ vm' = w
    BY <2>1 DEF Reviving
  <2>6. Spine(vm', rs, o, m, generators, parked)
    BY <1>7, <2>3, <2>4, <2>5
  <2> QED BY <2>5, <2>6, SpineTakes
<1> QED BY <1>5, <1>9, <1>10, <1>11 DEF Resume

(* Rust is called.                                                         *)

(* Nothing of v is gone from w.                                            *)
Above(v, w) ==
    /\ Len(v.stack) <= Len(w.stack) /\ \A i \in 1..Len(v.stack) : w.stack[i] = v.stack[i]
    /\ Len(v.frames) <= Len(w.frames) /\ \A i \in 1..Len(v.frames) : w.frames[i] = v.frames[i]
    /\ Len(v.handlers) <= Len(w.handlers)
    /\ \A i \in 1..Len(v.handlers) : w.handlers[i] = v.handlers[i]

Asks(v, w, call) ==
    /\ call \in Waits
    /\ call.code = Open(v.current, "operand") /\ call.entry = Len(v.stack)
    /\ call.realm = v.regs.realm /\ call.floor = v.floor
    /\ IF call.running
       THEN call.regs.env = v.regs.env /\ w.floor = [handlers |-> Len(v.handlers), frames |-> Len(v.frames)]
       ELSE /\ call.kind = "native" /\ w.regs.env = v.regs.env
            /\ w.current = NoCode /\ w.floor = v.floor
            /\ Len(w.stack) = Len(v.stack) /\ Len(w.frames) = Len(v.frames)
            /\ Len(w.handlers) = Len(v.handlers)

LEMMA AllRunning ==
    ASSUME NEW v, NEW rs, Calling(v, rs), ~InControl(rs), NEW k \in DOMAIN rs
    PROVE  rs[k].running
<1>1. rs \in Seq(Waits) /\ \A l \in DOMAIN rs : l < Len(rs) => rs[l].running
  BY DEF Calling
<1>2. k \in 1..Len(rs) /\ Len(rs) \in Nat /\ rs # <<>>
  BY <1>1
<1>3. CASE k = Len(rs)
  BY <1>1, <1>2, <1>3 DEF InControl, Last
<1>4. CASE k < Len(rs)
  BY <1>1, <1>4
<1> QED BY <1>2, <1>3, <1>4

LEMMA WholePart ==
    ASSUME NEW S, NEW s \in Seq(S), NEW t \in Seq(S), Len(s) <= Len(t),
           \A i \in 1..Len(s) : t[i] = s[i]
    PROVE  SubSeq(t, 1, Len(s)) = s
<1>1. Len(s) \in Nat /\ Len(t) \in Nat
  OBVIOUS
<1>2. SubSeq(t, 1, Len(s)) \in Seq(S) /\ Len(SubSeq(t, 1, Len(s))) = Len(s)
      /\ \A i \in 1..Len(s) : SubSeq(t, 1, Len(s))[i] = t[i]
  BY <1>1, PartIs
<1>3. PICK r : r = SubSeq(t, 1, Len(s))
  OBVIOUS
<1>4. r \in Seq(S) /\ Len(r) = Len(s) /\ \A i \in 1..Len(s) : r[i] = s[i]
  BY <1>2, <1>3
<1>5. r = s
  BY <1>4
<1> QED BY <1>3, <1>5

(* What the call will come back to is what made it.                        *)
Recalls(w, rs, call, ss, j, x) ==
    ss = Append(rs, call) /\ j = Len(rs) + 1 /\ x = Saved(w, ss, j)

LEMMA SavedAsking ==
    ASSUME NEW v \in Vms, NEW rs \in Seq(Waits), NEW n \in Nat, n = Len(rs),
           NEW w \in Vms, Above(v, w), NEW call, Asks(v, w, call), v.current \in Code,
           NEW ss, NEW j, NEW x, Recalls(w, rs, call, ss, j, x)
    PROVE  /\ x \in Vms /\ Alike(v, x) /\ x.current = v.current /\ x.regs.env = v.regs.env
<1> USE DEF Recalls
<1>1. ss \in Seq(Waits) /\ Len(ss) = n + 1 /\ ss[n + 1] = call /\ call \in Waits
  BY Extended DEF Asks
<1>2. PICK fl : fl = [handlers |-> Len(v.handlers), frames |-> Len(v.frames)]
  OBVIOUS
<1>3. FloorOver(w, ss, n + 1) = fl
  BY <1>1, <1>2 DEF FloorOver, Asks
<1>4. /\ v.stack \in Seq(Marks) /\ v.handlers \in Seq(Handlers) /\ v.frames \in Seq(Frames)
      /\ w.stack \in Seq(Marks) /\ w.handlers \in Seq(Handlers) /\ w.frames \in Seq(Frames)
      /\ v.regs \in Registers /\ v.floor \in Floors
  BY VmTypes
<1>5. SubSeq(w.stack, 1, Len(v.stack)) = v.stack
  <2>1. PICK s, t : s = v.stack /\ t = w.stack
    OBVIOUS
  <2> QED BY <1>4, <2>1, WholePart DEF Above
<1>6. SubSeq(w.handlers, 1, Len(v.handlers)) = v.handlers
  <2>1. PICK s, t : s = v.handlers /\ t = w.handlers
    OBVIOUS
  <2> QED BY <1>4, <2>1, WholePart DEF Above
<1>7. SubSeq(w.frames, 1, Len(v.frames)) = v.frames
  <2>1. PICK s, t : s = v.frames /\ t = w.frames
    OBVIOUS
  <2> QED BY <1>4, <2>1, WholePart DEF Above
<1>8. PICK regs : regs = [(IF call.running THEN call.regs ELSE w.regs) EXCEPT !.realm = call.realm]
  OBVIOUS
<1>81. regs \in Registers /\ regs.env = v.regs.env
  <2>1. call.regs \in Registers /\ w.regs \in Registers /\ call.realm \in Realms
    BY <1>1, VmTypes DEF Waits
  <2>2. PICK rg : rg = IF call.running THEN call.regs ELSE w.regs
    OBVIOUS
  <2>3. rg \in Registers /\ rg.env = v.regs.env
    BY <2>1, <2>2 DEF Asks
  <2> QED BY <1>8, <2>1, <2>2, <2>3 DEF Registers
<1>9. Before(call.code) = v.current
  <2>1. PICK c : c = v.current
    OBVIOUS
  <2>2. call.code = [c EXCEPT !.open = Append(@, "operand")] /\ c \in Code
    BY <2>1 DEF Asks, Open
  <2>3. c.open \in Seq(Constructs) /\ Front(Append(c.open, "operand")) = c.open
    <3>1. PICK s, t : s = c.open /\ t = Append(s, "operand")
      OBVIOUS
    <3>2. s \in Seq(Constructs) /\ "operand" \in Constructs
      BY <2>2, <3>1 DEF Code, Constructs
    <3>3. t \in Seq(Constructs) /\ Len(t) = Len(s) + 1 /\ \A i \in 1..Len(s) : t[i] = s[i]
      BY <3>1, <3>2, Extended
    <3>4. PICK r : r = Front(t)
      OBVIOUS
    <3>5. r \in Seq(Constructs) /\ Len(r) = Len(s) /\ \A i \in 1..Len(s) : r[i] = s[i]
      <4>1. t # <<>>
        BY <3>2, <3>3
      <4>2. Front(t) \in Seq(Constructs) /\ Len(Front(t)) = Len(t) - 1
            /\ \A i \in 1..Len(t) - 1 : Front(t)[i] = t[i]
        BY <3>3, <4>1, Fronted
      <4> QED BY <3>2, <3>3, <3>4, <4>2
    <3>6. r = s
      BY <3>2, <3>5
    <3> QED BY <3>1, <3>2, <3>4, <3>6
  <2>4. Before(call.code) = c
    BY <2>2, <2>3 DEF Before, Code
  <2> QED BY <2>1, <2>4
<1>10. x = [stack |-> v.stack, handlers |-> v.handlers, frames |-> v.frames,
            references |-> <<>>, regs |-> regs, escaped |-> FALSE, thrown |-> FALSE,
            current |-> v.current, floor |-> v.floor]
  <2>1. call.entry = Len(v.stack) /\ call.floor = v.floor
    BY DEF Asks
  <2>2. PICK k, s, h, f, r, c :
           /\ k = n + 1 /\ s = SubSeq(w.stack, 1, call.entry)
           /\ h = SubSeq(w.handlers, 1, fl.handlers) /\ f = SubSeq(w.frames, 1, fl.frames)
           /\ r = [(IF call.running THEN call.regs ELSE w.regs) EXCEPT !.realm = call.realm]
           /\ c = Before(call.code)
    OBVIOUS
  <2>3. ss[k] = call /\ FloorOver(w, ss, k) = fl /\ x = Saved(w, ss, k)
    BY <1>1, <1>3, <2>2
  <2>4. x = [stack |-> s, handlers |-> h, frames |-> f,
             references |-> <<>>, regs |-> r, escaped |-> FALSE, thrown |-> FALSE,
             current |-> c, floor |-> call.floor]
    BY ONLY <2>2, <2>3 DEF Saved
  <2>5. s = v.stack /\ h = v.handlers /\ f = v.frames /\ r = regs /\ c = v.current
    BY <1>2, <1>5, <1>6, <1>7, <1>8, <1>9, <2>1, <2>2
  <2> QED BY <2>1, <2>4, <2>5
<1>11. x \in Vms
  <2>1. PICK s, h, f, r, c, fl2 : /\ s = v.stack /\ h = v.handlers /\ f = v.frames
                                 /\ r = regs /\ c = v.current /\ fl2 = v.floor
    OBVIOUS
  <2>2. x = [stack |-> s, handlers |-> h, frames |-> f,
             references |-> <<>>, regs |-> r, escaped |-> FALSE, thrown |-> FALSE,
             current |-> c, floor |-> fl2]
    BY <1>10, <2>1
  <2>3. s \in Seq(Marks) /\ h \in Seq(Handlers) /\ f \in Seq(Frames) /\ r \in Registers
        /\ c \in Code /\ fl2 \in Floors /\ <<>> \in Seq(Marks)
    BY <1>4, <1>81, <2>1
  <2> QED BY ONLY <2>2, <2>3 DEF Vms
<1> QED BY <1>10, <1>11, <1>81 DEF Alike

LEMMA SpineRises ==
    ASSUME NEW v, NEW rs, NEW o, NEW m, NEW gs, NEW pk, Spine(v, rs, o, m, gs, pk),
           v.current # NoCode, NEW p, NEW q, More(o, m, p, q),
           NEW w \in Vms, Above(v, w), NEW call, Asks(v, w, call),
           NEW ss, ss = Append(rs, call), TopIsFine(w, ss, p, q)
    PROVE  Spine(w, ss, p, q, gs, pk)
<1>0. PICK E, C : E = EntryOf(rs, Len(rs)) /\ C = ChunkOf(rs, Len(rs))
  OBVIOUS
<1>1. /\ v \in Vms /\ E = EntryOf(rs, Len(rs)) /\ C = ChunkOf(rs, Len(rs))
      /\ Fine(v, E, C, o, m) /\ E \in Nat /\ C \in BOOLEAN /\ m \in Nat /\ v.current # NoCode
      /\ Spine(v, rs, o, m, gs, pk) /\ v.current \in Code /\ MarksInOrder(v, E)
  <2>1. Fine(v, E, C, o, m) /\ E \in Nat /\ C \in BOOLEAN /\ m \in Nat
    BY <1>0, TopFine
  <2> QED BY <1>0, <2>1, FineExecutes
<1>2. PICK n \in Nat : n = Len(rs)
  BY <1>1 DEF Spine, Calling
<1>3. /\ rs \in Seq(Waits) /\ Calling(v, rs) /\ ~InControl(rs) /\ call \in Waits
      /\ DOMAIN rs = 1..n
  BY <1>1, <1>2, TopFine DEF Spine, Calling, Asks
<1>4. /\ ss \in Seq(Waits) /\ Len(ss) = n + 1 /\ ss[n + 1] = call
      /\ \A k \in 1..n : ss[k] = rs[k]
      /\ DOMAIN ss = 1..n + 1 /\ ss # <<>> /\ Last(ss) = call
  <2>1. /\ ss \in Seq(Waits) /\ Len(ss) = n + 1 /\ ss[n + 1] = call
        /\ \A k \in 1..n : ss[k] = rs[k]
    BY <1>2, <1>3, Extended
  <2>2. DOMAIN ss = 1..n + 1 /\ ss # <<>>
    BY <1>2, <2>1
  <2> QED BY <1>2, <2>1, <2>2 DEF Last
<1>5. /\ q \in Nat /\ m <= q /\ q \in Ids /\ p \in Owners /\ \A a \in 1..m : p[a] = o[a]
  BY ActivationAssumption DEF More, Ids
<1>6. /\ Len(v.stack) \in Nat /\ Len(v.frames) \in Nat /\ Len(v.handlers) \in Nat
      /\ Len(w.stack) \in Nat /\ Len(w.frames) \in Nat /\ Len(w.handlers) \in Nat
      /\ v.floor.frames \in Nat /\ v.floor.handlers \in Nat /\ v.floor \in Floors
      /\ w.floor.frames \in Nat /\ w.floor.handlers \in Nat
      /\ v.floor.frames <= Len(v.frames) /\ v.floor.handlers <= Len(v.handlers)
      /\ v.floor.frames <= w.floor.frames /\ v.floor.handlers <= w.floor.handlers
  <2>1. /\ Len(v.stack) \in Nat /\ Len(v.frames) \in Nat /\ Len(v.handlers) \in Nat
        /\ Len(w.stack) \in Nat /\ Len(w.frames) \in Nat /\ Len(w.handlers) \in Nat
        /\ v.floor.frames \in Nat /\ v.floor.handlers \in Nat /\ v.floor \in Floors
        /\ w.floor.frames \in Nat /\ w.floor.handlers \in Nat
    BY <1>1, VmTypes
  <2>2. v.floor.frames <= Len(v.frames) /\ v.floor.handlers <= Len(v.handlers)
    BY <1>1 DEF MarksInOrder
  <2>3. v.floor.frames <= w.floor.frames /\ v.floor.handlers <= w.floor.handlers
    <3>1. CASE call.running
      BY <2>1, <2>2, <3>1 DEF Asks
    <3>2. CASE ~call.running
      BY <2>1, <3>2 DEF Asks
    <3> QED BY <3>1, <3>2
  <2> QED BY <2>1, <2>2, <2>3
<1>7. /\ Len(v.stack) <= Len(w.stack) /\ \A i \in 1..Len(v.stack) : w.stack[i] = v.stack[i]
      /\ Len(v.frames) <= Len(w.frames) /\ \A i \in 1..Len(v.frames) : w.frames[i] = v.frames[i]
      /\ Len(v.handlers) <= Len(w.handlers)
      /\ \A i \in 1..Len(v.handlers) : w.handlers[i] = v.handlers[i]
  BY DEF Above
<1>8. ASSUME NEW k \in 1..n
      PROVE  /\ rs[k].running /\ Awaiting(rs[k].code)
             /\ rs[k].entry \in Nat /\ rs[k].floor.frames \in Nat /\ rs[k].floor.handlers \in Nat
             /\ rs[k].floor \in Floors
             /\ rs[k].entry <= Len(v.stack)
             /\ rs[k].floor.frames <= v.floor.frames
             /\ rs[k].floor.handlers <= v.floor.handlers
             /\ ss[k] = rs[k] /\ k \in DOMAIN rs /\ k \in DOMAIN ss
  <2>1. k \in DOMAIN rs /\ k \in DOMAIN ss /\ ss[k] = rs[k]
    BY <1>3, <1>4
  <2>2. rs[k].running
    BY <1>3, <2>1, AllRunning
  <2>3. /\ rs[k].entry \in Nat /\ rs[k].floor.frames \in Nat /\ rs[k].floor.handlers \in Nat
        /\ rs[k].floor \in Floors
    BY <1>3, <2>1, WaitTypes
  <2> QED BY <1>3, <2>1, <2>2, <2>3 DEF Calling
<1>9. ASSUME NEW k \in 1..n
      PROVE  Saved(w, ss, k) = Saved(v, rs, k)
  <2>1. PICK fl : fl = FloorOver(v, rs, k)
    OBVIOUS
  <2>2. /\ fl \in Floors /\ fl.frames \in Nat /\ fl.handlers \in Nat
        /\ fl.frames <= v.floor.frames /\ fl.handlers <= v.floor.handlers
        /\ FloorOver(w, ss, k) = fl
    <3>1. CASE k < n
      <4>1. k + 1 \in 1..n /\ k < n + 1
        BY <3>1
      <4>2. fl = rs[k + 1].floor
        BY <1>2, <2>1, <3>1 DEF FloorOver
      <4>3. FloorOver(w, ss, k) = ss[k + 1].floor
        BY <1>4, <4>1 DEF FloorOver
      <4> QED BY <1>8, <4>1, <4>2, <4>3
    <3>2. CASE k = n
      <4>1. fl = v.floor
        BY <1>2, <1>8, <2>1, <3>2 DEF FloorOver
      <4>2. k < n + 1
        BY <3>2
      <4>3. FloorOver(w, ss, k) = ss[k + 1].floor
        BY <1>4, <4>2 DEF FloorOver
      <4>4. ss[k + 1].floor = v.floor
        BY <1>4, <3>2 DEF Asks
      <4> QED BY <1>6, <4>1, <4>3, <4>4, SMTT(30)
    <3> QED BY <3>1, <3>2
  <2>3. /\ rs[k].entry <= Len(v.stack) /\ rs[k].entry <= Len(w.stack)
        /\ \A i \in 1..rs[k].entry : w.stack[i] = v.stack[i]
    <3>1. PICK e \in Nat : e = rs[k].entry /\ e <= Len(v.stack)
      BY <1>8
    <3>2. \A i \in 1..e : i \in 1..Len(v.stack)
      BY <1>6, <3>1
    <3>3. e <= Len(w.stack)
      BY ONLY <1>6, <1>7, <3>1, SMTT(30)
    <3> QED BY <1>7, <3>1, <3>2, <3>3
  <2>4. /\ fl.frames <= Len(v.frames) /\ fl.frames <= Len(w.frames)
        /\ \A i \in 1..fl.frames : w.frames[i] = v.frames[i]
    BY ONLY <1>6, <1>7, <2>2, SMTT(30)
  <2>5. /\ fl.handlers <= Len(v.handlers) /\ fl.handlers <= Len(w.handlers)
        /\ \A i \in 1..fl.handlers : w.handlers[i] = v.handlers[i]
    BY ONLY <1>6, <1>7, <2>2, SMTT(30)
  <2>6. /\ v \in Vms /\ w \in Vms /\ rs \in Seq(Waits) /\ ss \in Seq(Waits)
        /\ k \in DOMAIN rs /\ k \in DOMAIN ss /\ ss[k] = rs[k] /\ rs[k].running
        /\ FloorOver(v, rs, k) = fl /\ FloorOver(w, ss, k) = fl /\ fl \in Floors
    BY <1>1, <1>3, <1>4, <1>8, <2>1, <2>2
  <2> QED BY ONLY <2>3, <2>4, <2>5, <2>6, SavedStays
<1>10. \A k \in DOMAIN ss :
          Fine(Saved(w, ss, k), EntryOf(ss, k - 1), ChunkOf(ss, k - 1), p, q)
  <2> SUFFICES ASSUME NEW k \in 1..n + 1
               PROVE  Fine(Saved(w, ss, k), EntryOf(ss, k - 1), ChunkOf(ss, k - 1), p, q)
    BY <1>4
  <2>1. EntryOf(ss, k - 1) = EntryOf(rs, k - 1) /\ ChunkOf(ss, k - 1) = ChunkOf(rs, k - 1)
    <3>1. CASE k - 1 = 0
      BY <3>1 DEF EntryOf, ChunkOf
    <3>2. CASE k - 1 # 0
      <4>1. k - 1 \in 1..n
        BY <3>2
      <4>2. ss[k - 1] = rs[k - 1]
        BY <1>4, <4>1
      <4> QED BY <3>2, <4>2 DEF EntryOf, ChunkOf
    <3> QED BY <3>1, <3>2
  <2>2. CASE k \in 1..n
    <3>1. Fine(Saved(v, rs, k), EntryOf(rs, k - 1), ChunkOf(rs, k - 1), o, m)
      BY <1>1, <1>3, <2>2 DEF Spine
    <3>2. Fine(Saved(v, rs, k), EntryOf(rs, k - 1), ChunkOf(rs, k - 1), p, q)
      BY <1>1, <1>5, <3>1, FineMore
    <3> QED BY <1>9, <2>1, <2>2, <3>2
  <2>3. CASE k = n + 1
    <3>1. PICK x : x = Saved(w, ss, k)
      OBVIOUS
    <3>2. x \in Vms /\ Alike(v, x) /\ x.current = v.current /\ x.regs.env = v.regs.env
      <4>1. /\ v \in Vms /\ w \in Vms /\ rs \in Seq(Waits) /\ n \in Nat /\ n = Len(rs)
            /\ Above(v, w) /\ Asks(v, w, call) /\ v.current \in Code
        BY <1>1, <1>2, <1>3
      <4>2. Recalls(w, rs, call, ss, k, x)
        BY <1>2, <2>3, <3>1 DEF Recalls
      <4> QED BY ONLY <4>1, <4>2, SavedAsking
    <3>3. Fine(v, E, C, p, q)
      BY <1>1, <1>5, FineMore
    <3>4. Fine(x, E, C, p, q)
      BY <3>2, <3>3, FineSame
    <3>5. k - 1 = n /\ EntryOf(rs, n) = E /\ ChunkOf(rs, n) = C
      BY <1>1, <1>2, <2>3
    <3> QED BY <2>1, <2>3, <3>1, <3>4, <3>5
  <2> QED BY <2>2, <2>3
<1>11. Calling(w, ss)
  <2>1. /\ call.entry = Len(v.stack) /\ call.floor = v.floor /\ Awaiting(call.code)
        /\ (~call.running => call.kind = "native" /\ w.current = NoCode /\ w.floor = v.floor
                             /\ Len(w.stack) = Len(v.stack))
    <3>1. Awaiting(call.code)
      <4>1. PICK s, t : s = v.current.open /\ t = Append(s, "operand")
        OBVIOUS
      <4>2. s \in Seq(Constructs) /\ "operand" \in Constructs
        BY <1>1, <4>1 DEF Code, Constructs
      <4>3. t # <<>> /\ Last(t) = "operand"
        <5>1. t \in Seq(Constructs) /\ Len(t) = Len(s) + 1 /\ t[Len(s) + 1] = "operand"
          BY <4>1, <4>2, Extended
        <5>2. Len(s) \in Nat
          BY <4>2
        <5> QED BY <5>1, <5>2 DEF Last
      <4>4. call.code.open = t
        BY <1>1, <4>1 DEF Asks, Open, Code
      <4> QED BY <4>3, <4>4 DEF Awaiting
    <3> QED BY <3>1 DEF Asks
  <2>2. ASSUME NEW k \in DOMAIN ss
        PROVE  /\ k < Len(ss) => ss[k].running
               /\ ~ss[k].running => ss[k].kind = "native"
               /\ Awaiting(ss[k].code)
               /\ ss[k].entry <= Len(w.stack)
               /\ ss[k].floor.frames <= w.floor.frames
               /\ ss[k].floor.handlers <= w.floor.handlers
    <3>1. CASE k \in 1..n
      <4>1. ss[k] = rs[k] /\ rs[k].running /\ Awaiting(rs[k].code)
        BY <1>8, <3>1
      <4>2. rs[k].entry <= Len(w.stack)
        BY ONLY <1>6, <1>7, <1>8, <3>1
      <4>3. rs[k].floor.frames <= w.floor.frames /\ rs[k].floor.handlers <= w.floor.handlers
        BY ONLY <1>6, <1>8, <3>1, SMTT(30)
      <4> QED BY <4>1, <4>2, <4>3
    <3>2. CASE k = n + 1
      <4>1. ss[k] = call /\ ~(k < Len(ss))
        BY <1>4, <3>2
      <4> QED BY <1>6, <1>7, <2>1, <4>1
    <3> QED BY <1>4, <3>1, <3>2
  <2>3. ASSUME NEW k \in DOMAIN ss, NEW l \in DOMAIN ss, k < l
        PROVE  /\ ss[k].entry <= ss[l].entry
               /\ ss[k].floor.frames <= ss[l].floor.frames
               /\ ss[k].floor.handlers <= ss[l].floor.handlers
    <3>1. k \in 1..n
      BY <1>4, <2>3
    <3>2. CASE l \in 1..n
      BY <1>3, <1>4, <2>3, <3>1, <3>2 DEF Calling
    <3>3. CASE l = n + 1
      <4>1. ss[l] = call /\ ss[k] = rs[k]
        BY <1>4, <3>1, <3>3
      <4> QED BY <1>8, <2>1, <3>1, <4>1
    <3> QED BY <1>4, <3>2, <3>3
  <2>4. InControl(ss) => /\ w.current = NoCode
                         /\ w.floor = Last(ss).floor
                         /\ Len(w.stack) = Last(ss).entry
    BY <1>4, <2>1 DEF InControl
  <2> QED BY <1>4, <2>2, <2>3, <2>4 DEF Calling
<1>12. /\ gs \subseteq 1..q /\ pk \in [Ids -> Shelves \cup {NotParked}]
       /\ \A g \in Ids : pk[g] # NotParked => g \in 1..q /\ Shelved(pk[g], g, p)
  <2>1. \A g \in 1..m : g \in 1..q
    BY <1>1, <1>5
  <2>2. /\ gs \subseteq 1..m /\ pk \in [Ids -> Shelves \cup {NotParked}]
        /\ \A g \in Ids : pk[g] # NotParked => g \in 1..m /\ Shelved(pk[g], g, o)
    BY <1>1 DEF Spine
  <2>3. \A g \in Ids : pk[g] # NotParked => Shelved(pk[g], g, p)
    BY <1>5, <2>2 DEF Shelved
  <2> QED BY <2>1, <2>2, <2>3
<1> QED BY <1>5, <1>10, <1>11, <1>12 DEF Spine

LEMMA WaitingIsOne ==
    ASSUME NEW v, NEW rs, NEW E, NEW C, NEW o, NEW m, AtWork(v, rs, E, C, o, m),
           NEW kind \in {"conversion", "native", "eval"}, NEW running \in BOOLEAN,
           NEW call, call = Waiting(kind, running)
    PROVE  /\ call \in Waits /\ call.kind = kind /\ call.running = running
           /\ call.code = Open(v.current, "operand") /\ call.entry = Len(v.stack)
           /\ call.realm = v.regs.realm /\ call.floor = v.floor /\ call.regs = v.regs
           /\ ~call.failed
<1>1. v = vm /\ v \in Vms /\ v.current \in Code
  BY DEF AtWork
<1>2. PICK code, top, regs, fl, realm :
         /\ code = Open(v.current, "operand") /\ top = Len(v.stack)
         /\ regs = v.regs /\ fl = v.floor /\ realm = v.regs.realm
  OBVIOUS
<1>3. code \in Code /\ top \in Nat /\ regs \in Registers /\ fl \in Floors /\ realm \in Realms
  BY <1>1, <1>2, VmTypes, OpenIsCode DEF Constructs, Registers
<1>4. call = [kind |-> kind, running |-> running, failed |-> FALSE, code |-> code,
              entry |-> top, realm |-> realm, regs |-> regs, floor |-> fl]
  BY <1>1, <1>2 DEF Waiting, Here
<1> QED BY <1>2, <1>3, <1>4 DEF Waits

(* The instruction's own state, its floors raised to the tops.             *)
LEMMA FloorsRise ==
    ASSUME NEW v, NEW rs, NEW E, NEW C, NEW o, NEW m, AtWork(v, rs, E, C, o, m),
           NEW u, u = [v EXCEPT !.floor = Floor]
    PROVE  /\ u \in Vms /\ u.stack = v.stack /\ u.frames = v.frames /\ u.handlers = v.handlers
           /\ u.regs = v.regs /\ u.current = v.current /\ u.thrown = v.thrown
           /\ u.escaped = v.escaped
           /\ u.floor = [handlers |-> Len(v.handlers), frames |-> Len(v.frames)]
           /\ MarksInOrder(u, Len(v.stack))
<1>1. v = vm /\ v \in Vms /\ MarksInOrder(v, E) /\ E \in Nat
  BY DEF AtWork
<1>2. PICK fl : fl = [handlers |-> Len(v.handlers), frames |-> Len(v.frames)]
  OBVIOUS
<1>3. fl \in Floors
  BY <1>1, <1>2, VmTypes DEF Floors
<1>4. u = [v EXCEPT !.floor = fl]
  BY <1>1, <1>2 DEF Floor
<1>5. /\ u \in Vms /\ u.stack = v.stack /\ u.frames = v.frames /\ u.handlers = v.handlers
      /\ u.regs = v.regs /\ u.current = v.current /\ u.floor = fl /\ u.thrown = v.thrown
      /\ u.escaped = v.escaped
  BY <1>1, <1>3, <1>4 DEF Vms
<1>6. u.floor.frames = Len(v.frames) /\ u.floor.handlers = Len(v.handlers)
  BY <1>2, <1>5
<1>7. MarksInOrder(u, Len(v.stack))
  BY <1>1, <1>5, <1>6, Refloored
<1> QED BY <1>2, <1>5, <1>7

LEMMA PushedAbove ==
    ASSUME NEW v \in Vms, NEW w, NEW f, Pushed(v, w, f)
    PROVE  Above(v, w) /\ w \in Vms
<1>1. v.frames \in Seq(Frames) /\ f \in Frames /\ w.frames = Append(v.frames, f) /\ w \in Vms
  BY VmTypes DEF Pushed
<1>2. Len(v.frames) <= Len(w.frames) /\ \A i \in 1..Len(v.frames) : w.frames[i] = v.frames[i]
  <2>1. PICK s, t : s = v.frames /\ t = w.frames
    OBVIOUS
  <2>2. /\ t \in Seq(Frames) /\ Len(t) = Len(s) + 1 /\ \A i \in 1..Len(s) : t[i] = s[i]
        /\ Len(s) \in Nat
    BY <1>1, <2>1, Extended
  <2> QED BY <2>1, <2>2
<1> QED BY <1>1, <1>2 DEF Pushed, Above

Converts(v, rs, o, m, call, u, f, w, p, q) ==
    /\ call \in Waits /\ call.kind = "conversion" /\ call.running
    /\ call.code = Open(v.current, "operand") /\ call.entry = Len(v.stack)
    /\ call.realm = v.regs.realm /\ call.floor = v.floor /\ call.regs = v.regs
    /\ u \in Vms /\ u.stack = v.stack /\ u.frames = v.frames /\ u.handlers = v.handlers
    /\ u.regs = v.regs /\ u.thrown = v.thrown
    /\ u.floor = [handlers |-> Len(v.handlers), frames |-> Len(v.frames)]
    /\ MarksInOrder(u, Len(v.stack)) /\ Len(v.stack) \in Nat
    /\ f \in Frames /\ f.code = NoCode /\ f.regs = u.regs /\ f.generator = Nobody
    /\ f.stack_base = Len(u.stack)
    /\ w = vm' /\ p = own' /\ q = made' /\ rust' = Append(rs, call) /\ UNCHANGED objects
    /\ Entering(u, f, w, o, m, p, q)
    /\ Pushed(u, w, f) /\ Enters(w, p, q, f) /\ PushedLevel(u, w)

LEMMA ConvertIs ==
    ASSUME NEW v, NEW rs, NEW E, NEW C, NEW o, NEW m, AtWork(v, rs, E, C, o, m), Convert
    PROVE  \E call, u, f, w, p, q : Converts(v, rs, o, m, call, u, f, w, p, q)
<1>2. /\ v = vm /\ rs = rust /\ o = own /\ m = made /\ v \in Vms /\ o \in Owners /\ m \in Ids
      /\ v.current \in Code /\ rs \in Seq(Waits)
  BY DEF AtWork, More, Spine, Calling
<1>3. PICK call, u : /\ call = Waiting("conversion", TRUE)
                     /\ u = [v EXCEPT !.floor = Floor]
  OBVIOUS
<1>4. /\ call \in Waits /\ call.kind = "conversion" /\ call.running
      /\ call.code = Open(v.current, "operand") /\ call.entry = Len(v.stack)
      /\ call.realm = v.regs.realm /\ call.floor = v.floor /\ call.regs = v.regs
  <2>1. PICK k \in {"conversion", "native", "eval"}, b \in BOOLEAN : k = "conversion" /\ b = TRUE
    OBVIOUS
  <2>2. call = Waiting(k, b)
    BY <1>3, <2>1
  <2>3. /\ call \in Waits /\ call.kind = k /\ call.running = b
        /\ call.code = Open(v.current, "operand") /\ call.entry = Len(v.stack)
        /\ call.realm = v.regs.realm /\ call.floor = v.floor /\ call.regs = v.regs
    BY <2>2, WaitingIsOne
  <2> QED BY <2>1, <2>3
<1>5. /\ u \in Vms /\ u.stack = v.stack /\ u.frames = v.frames /\ u.handlers = v.handlers
      /\ u.regs = v.regs /\ u.thrown = v.thrown
      /\ u.floor = [handlers |-> Len(v.handlers), frames |-> Len(v.frames)]
      /\ MarksInOrder(u, Len(v.stack)) /\ Len(v.stack) \in Nat
  <2>1. Len(v.stack) \in Nat
    BY <1>2, VmTypes
  <2> QED BY <1>3, <2>1, FloorsRise, ZenonT(60)
<1>6. PICK kind \in Bodies, realm \in Realms :
         EnterBody(u, FrameFrom(v, NoCode, kind), kind, realm)
  BY <1>2, <1>3 DEF Convert
<1>7. PICK f : f = FrameFrom(u, NoCode, kind)
  OBVIOUS
<1>8. EnterBody(u, f, kind, realm)
  BY <1>5, <1>6, <1>7 DEF FrameFrom
<1>9. /\ f \in Frames /\ f.code = NoCode /\ f.regs = u.regs /\ f.stack_base = Len(u.stack)
      /\ f.generator = Nobody
  BY <1>5, <1>7, FrameIsOne, NoCodeIsCode
<1>10. PICK w, p, q : w = vm' /\ p = own' /\ q = made'
  OBVIOUS
<1>11. Entering(u, f, w, o, m, p, q) /\ UNCHANGED objects
  <2>1. f.stack_base <= Len(u.stack)
    BY <1>5, <1>9
  <2> QED BY <1>2, <1>5, <1>8, <1>9, <1>10, <2>1, EntersBody DEF Convert
<1>12. Pushed(u, w, f) /\ Enters(w, p, q, f) /\ PushedLevel(u, w)
  BY <1>5, <1>7, <1>11, EnteringPushes, NoCodeIsCode
<1>13. rust' = Append(rs, call)
  BY <1>2, <1>3 DEF Convert
<1>14. Converts(v, rs, o, m, call, u, f, w, p, q)
  BY <1>4, <1>5, <1>9, <1>10, <1>11, <1>12, <1>13 DEF Converts
<1> QED BY <1>14

LEMMA SpineConvert ==
    ASSUME SpineInv, Convert
    PROVE  SpineInv'
<1>1. PICK v, rs, E, C, o, m : AtWork(v, rs, E, C, o, m)
  BY Working DEF Convert, MayReenter, MayOpen
<1>2. v \in Vms /\ rs \in Seq(Waits)
  BY <1>1 DEF AtWork, Spine, Calling
<1>3. PICK call, u, f, w, p, q : Converts(v, rs, o, m, call, u, f, w, p, q)
  BY <1>1, ConvertIs
<1>4. /\ call \in Waits /\ call.kind = "conversion" /\ call.running
      /\ call.code = Open(v.current, "operand") /\ call.entry = Len(v.stack)
      /\ call.realm = v.regs.realm /\ call.floor = v.floor /\ call.regs = v.regs
  BY <1>3 DEF Converts
<1>5. /\ u \in Vms /\ u.stack = v.stack /\ u.frames = v.frames /\ u.handlers = v.handlers
      /\ u.floor = [handlers |-> Len(v.handlers), frames |-> Len(v.frames)]
      /\ MarksInOrder(u, Len(v.stack)) /\ Len(v.stack) \in Nat
  BY <1>3 DEF Converts
<1>6. /\ f \in Frames /\ f.code = NoCode
  BY <1>3 DEF Converts
<1>7. Pushed(u, w, f) /\ Enters(w, p, q, f) /\ PushedLevel(u, w)
  BY <1>3 DEF Converts
<1>8. More(o, m, p, q) /\ q \in Nat /\ w.floor = u.floor
  BY <1>3 DEF Converts, Entering
<1>9. PICK ss : ss = Append(rs, call)
  OBVIOUS
<1>10. Fine(w, Len(v.stack), FALSE, p, q)
  <2>1. PICK top \in Nat : top = Len(v.stack) /\ top = Len(u.stack)
    BY <1>5
  <2>2. u.floor.frames = Len(u.frames) /\ u.floor.handlers = Len(u.handlers)
    BY <1>5
  <2>3. MarksInOrder(u, top)
    BY <1>5, <2>1
  <2>4. Goes(u, w, top, FALSE, p, q)
    BY ONLY <1>5, <1>6, <1>7, <1>8, <2>1, <2>2, <2>3, PushedStarts
  <2> QED BY <2>1, <2>4 DEF Goes
<1>11. /\ ss \in Seq(Waits) /\ Len(ss) = Len(rs) + 1 /\ ss[Len(rs) + 1] = call
       /\ Len(rs) \in Nat /\ ss # <<>>
  <2>1. Len(rs) \in Nat
    BY <1>2
  <2>2. /\ ss \in Seq(Waits) /\ Len(ss) = Len(rs) + 1 /\ ss[Len(rs) + 1] = call
    <3>1. rs \in Seq(Waits) /\ call \in Waits /\ ss = Append(rs, call)
      BY <1>2, <1>4, <1>9
    <3> QED BY ONLY <3>1, Extended
  <2> QED BY <2>1, <2>2
<1>12. EntryOf(ss, Len(ss)) = Len(v.stack) /\ ChunkOf(ss, Len(ss)) = FALSE /\ ~InControl(ss)
  <2>1. Last(ss) = call /\ ss[Len(ss)] = call /\ Len(ss) # 0
    BY <1>11 DEF Last
  <2> QED BY <1>4, <2>1 DEF EntryOf, ChunkOf, InControl
<1>13. w.current # NoCode
  <2>1. FALSE \in BOOLEAN
    OBVIOUS
  <2> QED BY <1>5, <1>8, <1>10, <2>1, FineExecutes
<1>14. TopIsFine(w, ss, p, q)
  <2>1. Fine(w, EntryOf(ss, Len(ss)), ChunkOf(ss, Len(ss)), p, q)
    BY <1>10, <1>12
  <2> QED BY <1>13, <2>1 DEF TopIsFine
<1>15. Above(v, w) /\ w \in Vms
  BY <1>5, <1>7, PushedAbove DEF Above
<1>16. Asks(v, w, call)
  BY <1>4, <1>5, <1>8 DEF Asks
<1>17. Spine(w, ss, p, q, generators, parked)
  BY <1>1, <1>8, <1>9, <1>14, <1>15, <1>16, SpineRises DEF AtWork
<1>18. rust' = ss
  BY <1>3, <1>9 DEF Converts
<1> QED BY <1>3, <1>17, <1>18 DEF Converts, SpineInv, objects

Builtin(v, rs, call, w, realm) ==
    /\ call \in Waits /\ call.kind = "native" /\ ~call.running
    /\ call.code = Open(v.current, "operand") /\ call.entry = Len(v.stack)
    /\ call.realm = v.regs.realm /\ call.floor = v.floor /\ call.regs = v.regs
    /\ realm \in Realms
    /\ w = vm' /\ w \in Vms /\ w.current = NoCode
    /\ w.regs = [v.regs EXCEPT !.realm = realm] /\ w.regs.env = v.regs.env
    /\ w.stack = v.stack /\ w.frames = v.frames /\ w.handlers = v.handlers /\ w.floor = v.floor
    /\ w.thrown = v.thrown
    /\ rust' = Append(rs, call) /\ UNCHANGED <<own, made, objects>>

LEMMA CallNativeIs ==
    ASSUME NEW v, NEW rs, NEW E, NEW C, NEW o, NEW m, AtWork(v, rs, E, C, o, m), CallNative
    PROVE  \E call, w, realm : Builtin(v, rs, call, w, realm)
<1>2. /\ v = vm /\ rs = rust /\ o = own /\ m = made /\ v \in Vms
      /\ rs \in Seq(Waits) /\ More(o, m, o, m)
  BY DEF AtWork, Spine, Calling
<1>3. PICK call : call = Waiting("native", FALSE)
  BY Zenon
<1>4. /\ call \in Waits /\ call.kind = "native" /\ ~call.running
      /\ call.code = Open(v.current, "operand") /\ call.entry = Len(v.stack)
      /\ call.realm = v.regs.realm /\ call.floor = v.floor /\ call.regs = v.regs
  <2>1. PICK k \in {"conversion", "native", "eval"}, b \in BOOLEAN : k = "native" /\ b = FALSE
    OBVIOUS
  <2>2. call = Waiting(k, b)
    BY <1>3, <2>1
  <2>3. /\ call \in Waits /\ call.kind = k /\ call.running = b
        /\ call.code = Open(v.current, "operand") /\ call.entry = Len(v.stack)
        /\ call.realm = v.regs.realm /\ call.floor = v.floor /\ call.regs = v.regs
    BY <2>2, WaitingIsOne
  <2> QED BY <2>1, <2>3
<1>5. PICK realm \in Realms : vm' = [v EXCEPT !.current = NoCode, !.regs.realm = realm]
  BY <1>2, Zenon DEF CallNative
<1>6. PICK w, regs : w = vm' /\ regs = [v.regs EXCEPT !.realm = realm]
  OBVIOUS
<1>7. v.regs \in Registers /\ regs \in Registers /\ regs.env = v.regs.env
  BY <1>2, <1>6, VmTypes DEF Registers
<1>8. w = [v EXCEPT !.current = NoCode, !.regs = regs]
  BY <1>2, <1>5, <1>6 DEF Vms, Registers
<1>9. /\ w \in Vms /\ w.current = NoCode /\ w.regs = regs /\ w.stack = v.stack
      /\ w.frames = v.frames /\ w.handlers = v.handlers /\ w.floor = v.floor
      /\ w.thrown = v.thrown
  BY <1>2, <1>7, <1>8, NoCodeIsCode DEF Vms
<1>10. rust' = Append(rs, call) /\ UNCHANGED <<own, made, objects>>
  BY <1>2, <1>3 DEF CallNative
<1>11. Builtin(v, rs, call, w, realm)
  BY <1>4, <1>6, <1>7, <1>9, <1>10 DEF Builtin
<1> QED BY <1>11

LEMMA SpineCallNative ==
    ASSUME SpineInv, CallNative
    PROVE  SpineInv'
<1>1. PICK v, rs, E, C, o, m : AtWork(v, rs, E, C, o, m)
  BY Working DEF CallNative, MayReenter, MayOpen
<1>2. /\ v \in Vms /\ o = own /\ m = made /\ rs \in Seq(Waits) /\ More(o, m, o, m)
  BY <1>1 DEF AtWork, Spine, Calling
<1>3. PICK call, w, realm : Builtin(v, rs, call, w, realm)
  BY <1>1, CallNativeIs
<1>4. /\ call \in Waits /\ call.kind = "native" /\ ~call.running
      /\ call.code = Open(v.current, "operand") /\ call.entry = Len(v.stack)
      /\ call.realm = v.regs.realm /\ call.floor = v.floor
  BY <1>3 DEF Builtin
<1>5. /\ w \in Vms /\ w.current = NoCode /\ w.regs.env = v.regs.env /\ w.stack = v.stack
      /\ w.frames = v.frames /\ w.handlers = v.handlers /\ w.floor = v.floor
  BY <1>3 DEF Builtin
<1>6. Above(v, w)
  BY <1>2, <1>5, VmTypes DEF Above
<1>7. Asks(v, w, call)
  BY <1>4, <1>5 DEF Asks
<1>8. PICK ss : ss = Append(rs, call)
  OBVIOUS
<1>9. TopIsFine(w, ss, o, m)
  <2>1. /\ ss \in Seq(Waits) /\ Len(ss) = Len(rs) + 1 /\ ss[Len(rs) + 1] = call
    <3>1. rs \in Seq(Waits) /\ call \in Waits /\ ss = Append(rs, call)
      BY <1>2, <1>4, <1>8
    <3> QED BY ONLY <3>1, Extended
  <2>2. Len(rs) \in Nat
    BY <1>2
  <2>3. Last(ss) = call /\ ss # <<>>
    BY <2>1, <2>2 DEF Last
  <2> QED BY <1>4, <2>3 DEF TopIsFine, InControl
<1>10. Spine(w, ss, o, m, generators, parked)
  BY <1>1, <1>2, <1>5, <1>6, <1>7, <1>8, <1>9, SpineRises DEF AtWork
<1> QED BY <1>2, <1>3, <1>8, <1>10 DEF Builtin, SpineInv, objects

(* A chunk begins.                                                         *)
LEMMA ChunkStarts ==
    ASSUME NEW w \in Vms, NEW top \in Nat, top = Len(w.stack), MarksInOrder(w, top),
           w.floor.frames = Len(w.frames), w.floor.handlers = Len(w.handlers),
           NEW p, NEW q, w.current.of \in 1..q, w.current.open = <<>>, ~w.current.preparing,
           p[w.current.of].kind \notin Bodies,
           w.regs.env = [of |-> w.current.of, level |-> 0],
           NEW chunk \in BOOLEAN, chunk
    PROVE  Fine(w, top, chunk, p, q)
<1>1. PICK D \in Nat : D = Len(w.frames)
  BY VmTypes
<1>2. Len(w.handlers) \in Nat /\ w.current \in Code
  BY VmTypes
<1>3. CodeAt(w, D) = w.current /\ EnvAt(w, D) = w.regs.env /\ TopAt(w, D) = top
      /\ HandlersTopAt(w, D) = Len(w.handlers)
      /\ BaseAt(w, top, D) = top /\ HandlersBaseAt(w, D) = Len(w.handlers)
  BY <1>1 DEF CodeAt, EnvAt, TopAt, HandlersTopAt, BaseAt, HandlersBaseAt
<1>4. Level(w.current, w.regs.env, w.stack, w.handlers, D, top, top,
            Len(w.handlers), Len(w.handlers))
  BY <1>2, StartedLevel
<1>5. Belongs(w, D, p, q)
  BY <1>1, <1>2, <1>3 DEF Belongs
<1>6. Sits(w, top, D, p, q)
  BY <1>1, <1>3, <1>4, <1>5 DEF Sits
<1>7. Lowest(w, chunk) = D
  BY <1>1 DEF Lowest
<1>8. \A d \in Lowest(w, chunk)..Len(w.frames) : Sits(w, top, d, p, q)
  <2>1. \A d \in D..D : d = D
    BY <1>1
  <2> QED BY <1>1, <1>6, <1>7, <2>1
<1> QED BY <1>8 DEF Fine

Evals(v, rs, o, m, call, u, c, env, w, p, id) ==
    /\ call \in Waits /\ call.kind = "eval" /\ call.running
    /\ call.code = Open(v.current, "operand") /\ call.entry = Len(v.stack)
    /\ call.realm = v.regs.realm /\ call.floor = v.floor /\ call.regs = v.regs
    /\ u \in Vms /\ u.stack = v.stack /\ u.frames = v.frames /\ u.handlers = v.handlers
    /\ u.floor = [handlers |-> Len(v.handlers), frames |-> Len(v.frames)]
    /\ MarksInOrder(u, Len(v.stack)) /\ Len(v.stack) \in Nat
    /\ id = m + 1 /\ id \in Nat /\ id \in Ids /\ m <= id /\ id \in 1..id /\ m \in Nat
    /\ env = [of |-> id, level |-> 0] /\ env \in Environment
    /\ c \in Code /\ c.of = id /\ c.open = <<>> /\ ~c.preparing
    /\ w \in Vms /\ w.current = c /\ w.regs.env = env /\ w.stack = v.stack
    /\ w.frames = v.frames /\ w.handlers = v.handlers /\ w.floor = u.floor
    /\ w.regs = [v.regs EXCEPT !.env = env] /\ w.thrown = v.thrown
    /\ p \in Owners /\ p[id].kind = "eval" /\ p[id].regs = [o[v.current.of].regs EXCEPT !.env = env]
    /\ \A a \in 1..m : p[a] = o[a]
    /\ w = vm' /\ p = own' /\ id = made' /\ rust' = Append(rs, call) /\ UNCHANGED objects

LEMMA EvalIs ==
    ASSUME NEW v, NEW rs, NEW E, NEW C, NEW o, NEW m, AtWork(v, rs, E, C, o, m), DirectEval
    PROVE  \E call, u, c, env, w, p, id : Evals(v, rs, o, m, call, u, c, env, w, p, id)
<1>2. /\ v = vm /\ rs = rust /\ o = own /\ m = made /\ v \in Vms /\ o \in Owners /\ m \in Ids
      /\ v.current \in Code /\ rs \in Seq(Waits)
  BY DEF AtWork, More, Spine, Calling
<1>3. PICK call, u : call = Waiting("eval", TRUE) /\ u = [v EXCEPT !.floor = Floor]
  OBVIOUS
<1>4. /\ call \in Waits /\ call.kind = "eval" /\ call.running
      /\ call.code = Open(v.current, "operand") /\ call.entry = Len(v.stack)
      /\ call.realm = v.regs.realm /\ call.floor = v.floor /\ call.regs = v.regs
  <2>1. PICK k \in {"conversion", "native", "eval"}, b \in BOOLEAN : k = "eval" /\ b = TRUE
    OBVIOUS
  <2>2. call = Waiting(k, b)
    BY <1>3, <2>1
  <2>3. /\ call \in Waits /\ call.kind = k /\ call.running = b
        /\ call.code = Open(v.current, "operand") /\ call.entry = Len(v.stack)
        /\ call.realm = v.regs.realm /\ call.floor = v.floor /\ call.regs = v.regs
    BY <2>2, WaitingIsOne
  <2> QED BY <2>1, <2>3
<1>5. /\ u \in Vms /\ u.stack = v.stack /\ u.frames = v.frames /\ u.handlers = v.handlers
      /\ u.regs = v.regs /\ u.thrown = v.thrown
      /\ u.floor = [handlers |-> Len(v.handlers), frames |-> Len(v.frames)]
      /\ MarksInOrder(u, Len(v.stack)) /\ Len(v.stack) \in Nat
  <2>1. Len(v.stack) \in Nat
    BY <1>2, VmTypes
  <2> QED BY <1>3, <2>1, FloorsRise, ZenonT(60)
<1>6. PICK id, env, c, w, p, x :
         /\ id = m + 1 /\ env = [of |-> id, level |-> 0] /\ c = [NoCode EXCEPT !.of = id]
         /\ w = vm' /\ p = own'
         /\ x = [kind |-> "eval", regs |-> [own[v.current.of].regs EXCEPT !.env = env]]
  OBVIOUS
<1>7. /\ made' = id /\ p = [o EXCEPT ![id] = x]
      /\ w = [u EXCEPT !.regs.env = env, !.current = c]
      /\ rust' = Append(rs, call) /\ UNCHANGED objects
  BY <1>2, <1>3, <1>6 DEF DirectEval, Here
<1>8. /\ id \in Nat /\ id \in Ids /\ m <= id /\ id \in 1..id /\ m \in Nat /\ id \in 0..MaxActivations
  BY <1>2, <1>6, ActivationAssumption DEF DirectEval, MayEnter, Ids
<1>9. env \in Environment /\ c \in Code /\ c.of = id /\ c.open = <<>> /\ ~c.preparing
  <2>1. env \in Environment
    BY <1>6, <1>8 DEF Environment
  <2>2. NoCode \in Code /\ NoCode.open = <<>> /\ ~NoCode.preparing
    BY NoCodeIsCode DEF NoCode
  <2>3. PICK d \in Code : d = NoCode
    BY <2>2
  <2>4. c = [d EXCEPT !.of = id] /\ d.open = <<>> /\ ~d.preparing
    BY <1>6, <2>2, <2>3
  <2>5. c \in Code /\ c.of = id /\ c.open = <<>> /\ ~c.preparing
    BY <1>8, <2>3, <2>4 DEF Code
  <2> QED BY <2>1, <2>5
<1>10. /\ w \in Vms /\ w.current = c /\ w.regs.env = env /\ w.stack = v.stack
       /\ w.frames = v.frames /\ w.handlers = v.handlers /\ w.floor = u.floor
       /\ w.regs = [v.regs EXCEPT !.env = env] /\ w.thrown = v.thrown
  <2>1. PICK regs : regs = [v.regs EXCEPT !.env = env]
    OBVIOUS
  <2>2. regs \in Registers /\ regs.env = env
    BY <1>2, <1>9, <2>1, VmTypes DEF Registers
  <2>3. w = [u EXCEPT !.regs = regs, !.current = c]
    BY <1>5, <1>7, <2>1 DEF Vms
  <2> QED BY <1>5, <1>9, <2>1, <2>2, <2>3 DEF Vms
<1>11. /\ p \in Owners /\ p[id] = x /\ \A a \in 1..m : p[a] = o[a]
  <2>1. x \in [kind : Kinds, regs : Registers]
    <3>1. v.current.of \in 1..m
      BY BodyAbove
    <3>2. v.current.of \in Ids
      BY <1>2, <1>8, <3>1, ActivationAssumption DEF Ids
    <3>3. PICK regs : regs = own[v.current.of].regs
      OBVIOUS
    <3>4. regs \in Registers
      BY <1>2, <3>2, <3>3 DEF Owners
    <3>5. [regs EXCEPT !.env = env] \in Registers
      BY <1>9, <3>4 DEF Registers
    <3>6. "eval" \in Kinds
      BY DEF Kinds
    <3> QED BY <1>6, <3>3, <3>5, <3>6
  <2>2. p \in Owners /\ p[id] = x
    BY <1>2, <1>7, <1>8, <2>1 DEF Owners
  <2>3. \A a \in 1..m : a # id
    BY <1>6, <1>8
  <2> QED BY <1>2, <1>7, <2>2, <2>3 DEF Owners
<1>12. p[id].kind = "eval" /\ p[id].regs = [o[v.current.of].regs EXCEPT !.env = env]
  BY <1>2, <1>6, <1>11, SMTT(30)
<1>13. Evals(v, rs, o, m, call, u, c, env, w, p, id)
  BY <1>4, <1>5, <1>6, <1>7, <1>8, <1>9, <1>10, <1>11, <1>12 DEF Evals
<1> QED BY <1>13

LEMMA SpineEval ==
    ASSUME SpineInv, DirectEval
    PROVE  SpineInv'
<1>1. PICK v, rs, E, C, o, m : AtWork(v, rs, E, C, o, m)
  BY Working DEF DirectEval, MayReenter, MayOpen
<1>2. /\ v \in Vms /\ o \in Owners /\ m \in Ids /\ rs \in Seq(Waits)
  BY <1>1 DEF AtWork, More, Spine, Calling
<1>3. PICK call, u, c, env, w, p, id : Evals(v, rs, o, m, call, u, c, env, w, p, id)
  BY <1>1, EvalIs
<1>4. /\ call \in Waits /\ call.kind = "eval" /\ call.running
      /\ call.code = Open(v.current, "operand") /\ call.entry = Len(v.stack)
      /\ call.realm = v.regs.realm /\ call.floor = v.floor /\ call.regs = v.regs
  BY <1>3 DEF Evals
<1>5. /\ u \in Vms /\ u.stack = v.stack /\ u.frames = v.frames /\ u.handlers = v.handlers
      /\ u.floor = [handlers |-> Len(v.handlers), frames |-> Len(v.frames)]
      /\ MarksInOrder(u, Len(v.stack)) /\ Len(v.stack) \in Nat
  BY <1>3 DEF Evals
<1>6. env = [of |-> id, level |-> 0]
  BY <1>3 DEF Evals
<1>7. PICK ss : ss = Append(rs, call)
  OBVIOUS
<1>8. id \in Nat /\ id \in Ids /\ m <= id /\ id \in 1..id /\ m \in Nat
  BY <1>3 DEF Evals
<1>9. c \in Code /\ c.of = id /\ c.open = <<>> /\ ~c.preparing
  BY <1>3 DEF Evals
<1>10. /\ w \in Vms /\ w.current = c /\ w.regs.env = env /\ w.stack = v.stack
       /\ w.frames = v.frames /\ w.handlers = v.handlers /\ w.floor = u.floor
  BY <1>3 DEF Evals
<1>11. p \in Owners /\ p[id].kind = "eval" /\ \A a \in 1..m : p[a] = o[a]
  BY <1>3 DEF Evals
<1>12. More(o, m, p, id)
  BY <1>2, <1>8, <1>11 DEF More
<1>13. PICK chunk \in BOOLEAN : chunk = TRUE
  OBVIOUS
<1>14. Fine(w, Len(v.stack), chunk, p, id)
  <2>1. PICK top \in Nat : top = Len(v.stack)
    BY <1>5
  <2>2. MarksInOrder(w, top)
    BY <1>5, <1>10, <2>1 DEF MarksInOrder
  <2>3. p[w.current.of].kind \notin Bodies
    BY <1>9, <1>10, <1>11 DEF Bodies
  <2>4. /\ w \in Vms /\ top = Len(w.stack) /\ w.floor.frames = Len(w.frames)
        /\ w.floor.handlers = Len(w.handlers) /\ w.current.of \in 1..id
        /\ w.current.open = <<>> /\ ~w.current.preparing
        /\ w.regs.env = [of |-> w.current.of, level |-> 0]
    BY <1>5, <1>6, <1>8, <1>9, <1>10, <2>1
  <2>5. Fine(w, top, chunk, p, id)
    BY ONLY <1>13, <2>1, <2>2, <2>3, <2>4, ChunkStarts
  <2> QED BY <2>1, <2>5
<1>15. /\ ss \in Seq(Waits) /\ Len(ss) = Len(rs) + 1 /\ ss[Len(rs) + 1] = call
       /\ Len(rs) \in Nat /\ ss # <<>>
  <2>1. Len(rs) \in Nat
    BY <1>2
  <2>2. /\ ss \in Seq(Waits) /\ Len(ss) = Len(rs) + 1 /\ ss[Len(rs) + 1] = call
    <3>1. rs \in Seq(Waits) /\ call \in Waits /\ ss = Append(rs, call)
      BY <1>2, <1>4, <1>7
    <3> QED BY ONLY <3>1, Extended
  <2> QED BY <2>1, <2>2
<1>16. EntryOf(ss, Len(ss)) = Len(v.stack) /\ ChunkOf(ss, Len(ss)) = chunk /\ ~InControl(ss)
  <2>1. Last(ss) = call /\ ss[Len(ss)] = call /\ Len(ss) # 0
    BY <1>15 DEF Last
  <2> QED BY <1>4, <1>13, <2>1 DEF EntryOf, ChunkOf, InControl
<1>17. w.current # NoCode
  BY <1>5, <1>8, <1>13, <1>14, FineExecutes
<1>18. TopIsFine(w, ss, p, id)
  <2>1. Fine(w, EntryOf(ss, Len(ss)), ChunkOf(ss, Len(ss)), p, id)
    BY <1>14, <1>16
  <2> QED BY <1>17, <2>1 DEF TopIsFine
<1>19. Above(v, w)
  BY <1>2, <1>10, VmTypes DEF Above
<1>20. Asks(v, w, call)
  BY <1>4, <1>5, <1>10 DEF Asks
<1>21. Spine(w, ss, p, id, generators, parked)
  BY <1>1, <1>7, <1>10, <1>12, <1>18, <1>19, <1>20, SpineRises DEF AtWork
<1> QED BY <1>3, <1>7, <1>21 DEF Evals, SpineInv, objects

(* Rust calls end.                                                         *)

LEMMA FrontIs ==
    ASSUME NEW S, NEW s \in Seq(S), s # <<>>, NEW t, t = Front(s), NEW n, n = Len(s)
    PROVE  /\ t \in Seq(S) /\ n \in Nat /\ n >= 1 /\ Len(t) = n - 1 /\ DOMAIN t = 1..n - 1
           /\ \A i \in 1..n - 1 : t[i] = s[i]
           /\ DOMAIN s = 1..n /\ n \in DOMAIN s /\ Last(s) = s[n] /\ s[n] \in S
           /\ s = Append(t, s[n])
<1>1. n \in Nat /\ n >= 1 /\ DOMAIN s = 1..n /\ n \in DOMAIN s
  OBVIOUS
<1>2. /\ t \in Seq(S) /\ Len(t) = n - 1 /\ \A i \in 1..n - 1 : t[i] = s[i]
      /\ Last(s) = s[n] /\ s[n] \in S
  BY Fronted
<1>3. s = Append(t, s[n])
  <2>0. PICK x \in S : x = s[n]
    BY <1>2
  <2>1. PICK r : r = Append(t, x) /\ x = s[n]
    BY <2>0
  <2>2. r \in Seq(S) /\ Len(r) = Len(t) + 1 /\ r[Len(t) + 1] = x
        /\ \A i \in 1..Len(t) : r[i] = t[i]
    BY <1>2, <2>1, Extended
  <2>3. Len(r) = n /\ \A i \in 1..n : r[i] = s[i]
    BY <1>1, <1>2, <2>1, <2>2
  <2>4. r = s
    BY <1>1, <2>2, <2>3
  <2> QED BY <2>1, <2>4
<1>4. DOMAIN t = 1..n - 1
  BY <1>2
<1>5. \A i \in 1..n - 1 : t[i] = s[i]
  BY <1>2
<1> QED BY ONLY <1>1, <1>2, <1>3, <1>4, <1>5

LEMMA SpineFalls ==
    ASSUME NEW v, NEW rs, NEW o, NEW m, NEW gs, NEW pk, Spine(v, rs, o, m, gs, pk),
           rs # <<>>, NEW n, n = Len(rs), NEW u, u = Saved(v, rs, n), NEW ts, ts = Front(rs)
    PROVE  Spine(u, ts, o, m, gs, pk) /\ u.current # NoCode
<1>1. /\ v \in Vms /\ rs \in Seq(Waits) /\ Calling(v, rs) /\ m \in Nat /\ m \in Ids
      /\ \A k \in DOMAIN rs :
            Fine(Saved(v, rs, k), EntryOf(rs, k - 1), ChunkOf(rs, k - 1), o, m)
  BY ActivationAssumption DEF Spine, Calling, Ids
<1>2. /\ ts \in Seq(Waits) /\ n \in Nat /\ n >= 1 /\ Len(ts) = n - 1 /\ DOMAIN ts = 1..n - 1
      /\ \A i \in 1..n - 1 : ts[i] = rs[i]
      /\ DOMAIN rs = 1..n /\ n \in DOMAIN rs
  <2>1. rs \in Seq(Waits) /\ rs # <<>> /\ ts = Front(rs) /\ n = Len(rs)
    BY <1>1
  <2> QED BY ONLY <2>1, FrontIs
<1>3. PICK E, C : E = EntryOf(rs, n - 1) /\ C = ChunkOf(rs, n - 1)
  OBVIOUS
<1>4. E \in Nat /\ C \in BOOLEAN
  <2>1. n - 1 \in 0..Len(rs)
    BY <1>2
  <2> QED BY <1>1, <1>3, <2>1, EntryTypes
<1>5. Fine(u, E, C, o, m)
  BY <1>1, <1>2, <1>3
<1>6. u.current # NoCode /\ u \in Vms /\ MarksInOrder(u, E)
  BY <1>1, <1>4, <1>5, FineExecutes
<1>7. PICK fl, e : fl = FloorOver(v, rs, n) /\ e = rs[n].entry
  OBVIOUS
<1>8. /\ u.stack = SubSeq(v.stack, 1, e) /\ u.frames = SubSeq(v.frames, 1, fl.frames)
      /\ u.handlers = SubSeq(v.handlers, 1, fl.handlers) /\ u.floor = rs[n].floor
  BY <1>7 DEF Saved
<1>9. /\ e \in Nat /\ e <= Len(v.stack) /\ fl.frames \in Nat /\ fl.handlers \in Nat
      /\ fl.frames <= Len(v.frames) /\ fl.handlers <= Len(v.handlers)
      /\ rs[n].floor \in Floors /\ rs[n].floor.frames \in Nat /\ rs[n].floor.handlers \in Nat
      /\ Len(v.stack) \in Nat /\ Len(v.frames) \in Nat /\ Len(v.handlers) \in Nat
  <2>1. /\ Len(v.stack) \in Nat /\ Len(v.frames) \in Nat /\ Len(v.handlers) \in Nat
        /\ v.floor.frames \in Nat /\ v.floor.handlers \in Nat
    BY <1>1, VmTypes
  <2>2. e \in Nat /\ rs[n].floor \in Floors
        /\ rs[n].floor.frames \in Nat /\ rs[n].floor.handlers \in Nat
    BY <1>1, <1>2, <1>7, WaitTypes
  <2>3. e <= Len(v.stack)
    BY <1>1, <1>2, <1>7 DEF Calling
  <2>4. CASE rs[n].running
    <3>1. fl = v.floor
      BY <1>7, <2>4 DEF FloorOver
    <3>2. ~InControl(rs)
      <4>1. Last(rs) = rs[n]
        BY DEF Last
      <4> QED BY <2>4, <4>1 DEF InControl
    <3>3. MarksInOrder(v, EntryOf(rs, Len(rs)))
      BY <3>2, TopMarks
    <3>4. v.floor.frames <= Len(v.frames) /\ v.floor.handlers <= Len(v.handlers)
      BY <3>3 DEF MarksInOrder
    <3> QED BY <2>1, <2>2, <2>3, <3>1, <3>4
  <2>5. CASE ~rs[n].running
    <3>1. fl = [handlers |-> Len(v.handlers), frames |-> Len(v.frames)]
      BY <1>7, <2>5 DEF FloorOver
    <3> QED BY <2>1, <2>2, <2>3, <3>1
  <2> QED BY <2>4, <2>5
<1>10. /\ Len(u.stack) = e /\ \A i \in 1..e : u.stack[i] = v.stack[i]
       /\ Len(u.frames) = fl.frames /\ \A i \in 1..fl.frames : u.frames[i] = v.frames[i]
       /\ Len(u.handlers) = fl.handlers /\ \A i \in 1..fl.handlers : u.handlers[i] = v.handlers[i]
  <2>1. PICK s, f, h : s = v.stack /\ f = v.frames /\ h = v.handlers
    OBVIOUS
  <2>2. s \in Seq(Marks) /\ f \in Seq(Frames) /\ h \in Seq(Handlers)
    BY <1>1, <2>1, VmTypes
  <2>3. PICK a, b : a = fl.frames /\ b = fl.handlers
    OBVIOUS
  <2>4. Len(SubSeq(s, 1, e)) = e /\ \A i \in 1..e : SubSeq(s, 1, e)[i] = s[i]
    BY <1>9, <2>1, <2>2, PartIs
  <2>5. Len(SubSeq(f, 1, a)) = a /\ \A i \in 1..a : SubSeq(f, 1, a)[i] = f[i]
    BY <1>9, <2>1, <2>2, <2>3, PartIs
  <2>6. Len(SubSeq(h, 1, b)) = b /\ \A i \in 1..b : SubSeq(h, 1, b)[i] = h[i]
    BY <1>9, <2>1, <2>2, <2>3, PartIs
  <2> QED BY <1>8, <2>1, <2>3, <2>4, <2>5, <2>6, ZenonT(60)
<1>11. /\ u.floor.frames <= fl.frames /\ u.floor.handlers <= fl.handlers
       /\ u.floor = rs[n].floor
  BY ONLY <1>6, <1>8, <1>10 DEF MarksInOrder
<1>12. ASSUME NEW k \in 1..n - 1
       PROVE  /\ rs[k].running /\ Awaiting(rs[k].code)
              /\ rs[k].entry \in Nat /\ rs[k].floor.frames \in Nat /\ rs[k].floor.handlers \in Nat
              /\ rs[k].floor \in Floors
              /\ rs[k].entry <= e
              /\ rs[k].floor.frames <= u.floor.frames
              /\ rs[k].floor.handlers <= u.floor.handlers
              /\ ts[k] = rs[k] /\ k \in DOMAIN rs /\ k \in DOMAIN ts
              /\ k \in Nat /\ k < n
  <2>1. k \in DOMAIN rs /\ k \in DOMAIN ts /\ k < n /\ k \in Nat
    BY <1>2
  <2>2. /\ rs[k].running /\ Awaiting(rs[k].code)
        /\ rs[k].entry <= rs[n].entry
        /\ rs[k].floor.frames <= rs[n].floor.frames
        /\ rs[k].floor.handlers <= rs[n].floor.handlers
    BY <1>1, <1>2, <2>1 DEF Calling
  <2>3. /\ rs[k].entry \in Nat /\ rs[k].floor.frames \in Nat /\ rs[k].floor.handlers \in Nat
        /\ rs[k].floor \in Floors
    BY <1>1, <2>1, WaitTypes
  <2> QED BY <1>2, <1>7, <1>8, <2>1, <2>2, <2>3
<1>13. ASSUME NEW k \in 1..n - 1
       PROVE  Saved(u, ts, k) = Saved(v, rs, k)
  <2>1. PICK d : d = FloorOver(v, rs, k)
    OBVIOUS
  <2>2. d = rs[k + 1].floor
    BY <1>12, <2>1 DEF FloorOver
  <2>3. /\ d \in Floors /\ d.frames \in Nat /\ d.handlers \in Nat
        /\ d.frames <= u.floor.frames /\ d.handlers <= u.floor.handlers
        /\ FloorOver(u, ts, k) = d
    <3>1. CASE k < n - 1
      <4>1. k + 1 \in 1..n - 1 /\ k < Len(ts)
        BY <1>2, <3>1
      <4>2. FloorOver(u, ts, k) = ts[k + 1].floor
        BY <4>1 DEF FloorOver
      <4> QED BY <1>12, <2>2, <4>1, <4>2
    <3>2. CASE k = n - 1
      <4>1. k + 1 = n /\ ~(k < Len(ts))
        BY <1>2, <3>2
      <4>2. FloorOver(u, ts, k) = u.floor
        BY <1>12, <4>1 DEF FloorOver
      <4> QED BY <1>8, <1>9, <2>2, <4>1, <4>2, SMTT(30)
    <3> QED BY <1>2, <3>1, <3>2
  <2>4. /\ rs[k].entry <= Len(v.stack) /\ rs[k].entry <= Len(u.stack)
        /\ \A i \in 1..rs[k].entry : u.stack[i] = v.stack[i]
    <3>1. PICK a \in Nat : a = rs[k].entry /\ a <= e
      BY <1>12
    <3>2. \A i \in 1..a : i \in 1..e
      BY <1>9, <3>1
    <3> QED BY ONLY <1>9, <1>10, <3>1, <3>2, SMTT(30)
  <2>5. /\ d.frames <= Len(v.frames) /\ d.frames <= Len(u.frames)
        /\ \A i \in 1..d.frames : u.frames[i] = v.frames[i]
    <3>1. u.floor.frames \in Nat
      BY <1>9, <1>11
    <3> QED BY ONLY <1>9, <1>10, <1>11, <2>3, <3>1, SMTT(30)
  <2>6. /\ d.handlers <= Len(v.handlers) /\ d.handlers <= Len(u.handlers)
        /\ \A i \in 1..d.handlers : u.handlers[i] = v.handlers[i]
    <3>1. u.floor.handlers \in Nat
      BY <1>9, <1>11
    <3> QED BY ONLY <1>9, <1>10, <1>11, <2>3, <3>1, SMTT(30)
  <2>7. /\ v \in Vms /\ u \in Vms /\ rs \in Seq(Waits) /\ ts \in Seq(Waits)
        /\ k \in DOMAIN rs /\ k \in DOMAIN ts /\ ts[k] = rs[k] /\ rs[k].running
        /\ FloorOver(v, rs, k) = d /\ FloorOver(u, ts, k) = d /\ d \in Floors
    BY <1>1, <1>2, <1>6, <1>12, <2>1, <2>3
  <2> QED BY ONLY <2>4, <2>5, <2>6, <2>7, SavedStays
<1>14. ASSUME NEW k \in 0..n - 1
       PROVE  EntryOf(ts, k) = EntryOf(rs, k) /\ ChunkOf(ts, k) = ChunkOf(rs, k)
  <2>1. CASE k = 0
    BY <2>1 DEF EntryOf, ChunkOf
  <2>2. CASE k # 0
    <3>1. k \in 1..n - 1
      BY <2>2
    <3> QED BY <1>2, <2>2, <3>1 DEF EntryOf, ChunkOf
  <2> QED BY <2>1, <2>2
<1>15. \A k \in DOMAIN ts :
          Fine(Saved(u, ts, k), EntryOf(ts, k - 1), ChunkOf(ts, k - 1), o, m)
  <2> SUFFICES ASSUME NEW k \in 1..n - 1
               PROVE  Fine(Saved(u, ts, k), EntryOf(ts, k - 1), ChunkOf(ts, k - 1), o, m)
    BY <1>2
  <2>1. k - 1 \in 0..n - 1 /\ k \in DOMAIN rs
    BY <1>2
  <2> QED BY <1>1, <1>13, <1>14, <2>1
<1>16. ~InControl(ts)
  <2>1. CASE ts = <<>>
    BY <2>1 DEF InControl
  <2>2. CASE ts # <<>>
    <3>1. n - 1 \in 1..n - 1 /\ Last(ts) = ts[n - 1]
      BY <1>2, <2>2 DEF Last
    <3> QED BY <1>12, <3>1 DEF InControl
  <2> QED BY <2>1, <2>2
<1>17. Calling(u, ts)
  <2>1. ASSUME NEW k \in DOMAIN ts
        PROVE  /\ ts[k].running /\ Awaiting(ts[k].code) /\ ts[k].entry <= Len(u.stack)
               /\ ts[k].floor.frames <= u.floor.frames
               /\ ts[k].floor.handlers <= u.floor.handlers
    <3>1. k \in 1..n - 1
      BY <1>2
    <3> QED BY <1>10, <1>12, <3>1
  <2>2. ASSUME NEW k \in DOMAIN ts, NEW l \in DOMAIN ts, k < l
        PROVE  /\ ts[k].entry <= ts[l].entry
               /\ ts[k].floor.frames <= ts[l].floor.frames
               /\ ts[k].floor.handlers <= ts[l].floor.handlers
    <3>1. k \in 1..n - 1 /\ l \in 1..n - 1
      BY <1>2
    <3>2. k \in DOMAIN rs /\ l \in DOMAIN rs /\ ts[k] = rs[k] /\ ts[l] = rs[l]
      BY <1>12, <3>1
    <3> QED BY <1>1, <2>2, <3>2 DEF Calling
  <2> QED BY <1>2, <1>16, <2>1, <2>2 DEF Calling
<1>18. TopIsFine(u, ts, o, m)
  <2>1. n - 1 \in 0..n - 1 /\ Len(ts) = n - 1
    BY <1>2
  <2>2. EntryOf(ts, Len(ts)) = E /\ ChunkOf(ts, Len(ts)) = C
    BY <1>3, <1>14, <2>1
  <2> QED BY <1>5, <1>6, <2>2 DEF TopIsFine
<1> QED BY <1>6, <1>15, <1>17, <1>18 DEF Spine

LEMMA SpineAlike ==
    ASSUME NEW v, NEW rs, NEW o, NEW m, NEW gs, NEW pk, Spine(v, rs, o, m, gs, pk),
           ~InControl(rs), NEW w \in Vms, Alike(v, w), w.current = v.current,
           w.regs.env = v.regs.env
    PROVE  Spine(w, rs, o, m, gs, pk)
<1>1. PICK E, C : E = EntryOf(rs, Len(rs)) /\ C = ChunkOf(rs, Len(rs))
  OBVIOUS
<1>2. MarksInOrder(v, E)
  BY <1>1, TopMarks
<1>3. Keeps(v, w, E)
  BY <1>2 DEF Keeps, MarksInOrder, Alike
<1>4. CASE v.current # NoCode
  <2>1. Fine(v, E, C, o, m)
    BY <1>1, <1>4 DEF Spine, TopIsFine
  <2>2. Fine(w, E, C, o, m)
    BY <2>1, FineSame
  <2> QED BY <1>1, <1>3, <1>4, <2>2, SameMore, SpineTop DEF Becomes
<1>5. CASE v.current = NoCode
  <2>1. Over(v, E)
    BY <1>1, <1>5 DEF Spine, TopIsFine
  <2>2. MarksInOrder(w, E)
    BY <1>2 DEF MarksInOrder, Alike
  <2>3. Over(w, E)
    BY <1>5, <2>1, <2>2 DEF Over, Alike
  <2> QED BY <1>1, <1>3, <1>5, <2>3, SameMore, SpineTop DEF Becomes
<1> QED BY <1>4, <1>5

(* What a Rust call in control, or one whose execution is over, has to do  *)
(* with what made it.                                                      *)
Returns(v, rs, n, call, u, ts, o, m, gs, pk) ==
    /\ Spine(v, rs, o, m, gs, pk) /\ Spine(u, ts, o, m, gs, pk)
    /\ u.current # NoCode /\ u.current \in Code /\ u \in Vms /\ v \in Vms
    /\ n = Len(rs) /\ n \in Nat /\ call = rs[n] /\ call = Last(rs) /\ call \in Waits
    /\ rs = Append(ts, call) /\ ts = Front(rs) /\ ts \in Seq(Waits) /\ rs \in Seq(Waits)
    /\ u = Saved(v, rs, n)
    /\ u.stack = Truncate(v.stack, call.entry) /\ u.stack \in Seq(Marks)
    /\ u.frames = v.frames /\ u.handlers = v.handlers
    /\ u.floor = call.floor /\ Len(u.stack) = call.entry /\ call.entry \in Nat
    /\ call.code = Open(u.current, "operand") /\ call.code \in Code
    /\ call.code.of = u.current.of
    /\ u.regs = [(IF call.running THEN call.regs ELSE v.regs) EXCEPT !.realm = call.realm]
    /\ v.current = NoCode
    /\ ~call.running => v.floor = call.floor /\ u.stack = v.stack /\ call.kind = "native"
    /\ m \in Nat /\ More(o, m, o, m)

LEMMA Returning ==
    ASSUME NEW v, NEW rs, NEW o, NEW m, NEW gs, NEW pk, Spine(v, rs, o, m, gs, pk),
           rs # <<>>, Last(rs).running => v.current = NoCode
    PROVE  \E n, call, u, ts : Returns(v, rs, n, call, u, ts, o, m, gs, pk)
<1>1. PICK n, call, u, ts : /\ n = Len(rs) /\ call = rs[n] /\ u = Saved(v, rs, n)
                            /\ ts = Front(rs)
  OBVIOUS
<1>2. Spine(u, ts, o, m, gs, pk) /\ u.current # NoCode
  BY <1>1, SpineFalls
<1>3. /\ v \in Vms /\ u \in Vms /\ rs \in Seq(Waits) /\ Calling(v, rs) /\ m \in Nat
  BY <1>2, ActivationAssumption DEF Spine, Calling, Ids
<1>4. /\ ts \in Seq(Waits) /\ n \in Nat /\ call = Last(rs) /\ call \in Waits
      /\ n \in DOMAIN rs /\ rs = Append(ts, call)
  <2>1. /\ rs \in Seq(Waits) /\ rs # <<>> /\ ts = Front(rs) /\ n = Len(rs)
    BY <1>1, <1>3
  <2> QED BY ONLY <1>1, <2>1, FrontIs
<1>5. /\ Awaiting(call.code) /\ call.entry <= Len(v.stack)
      /\ (~call.running => call.kind = "native" /\ v.current = NoCode /\ v.floor = call.floor
                           /\ Len(v.stack) = call.entry)
  BY <1>1, <1>3, <1>4 DEF Calling, InControl
<1>6. call.entry \in Nat /\ call.code \in Code /\ Len(v.stack) \in Nat
      /\ v.stack \in Seq(Marks) /\ v.frames \in Seq(Frames) /\ v.handlers \in Seq(Handlers)
  BY <1>1, <1>3, <1>4, WaitTypes, VmTypes
<1>7. PICK fl : fl = FloorOver(v, rs, n)
  OBVIOUS
<1>8. fl.frames = Len(v.frames) /\ fl.handlers = Len(v.handlers)
  <2>1. CASE call.running
    <3>1. fl = v.floor
      BY <1>1, <1>7, <2>1 DEF FloorOver
    <3>2. v.current = NoCode /\ ~InControl(rs)
      BY <1>4, <2>1 DEF InControl
    <3>3. Over(v, EntryOf(rs, Len(rs)))
      BY <3>2 DEF Spine, TopIsFine
    <3> QED BY <3>1, <3>3 DEF Over
  <2>2. CASE ~call.running
    <3>1. fl = [handlers |-> Len(v.handlers), frames |-> Len(v.frames)]
      BY <1>1, <1>7, <2>2 DEF FloorOver
    <3> QED BY <3>1
  <2> QED BY <2>1, <2>2
<1>9. /\ u.stack = SubSeq(v.stack, 1, call.entry) /\ u.frames = SubSeq(v.frames, 1, fl.frames)
      /\ u.handlers = SubSeq(v.handlers, 1, fl.handlers) /\ u.floor = call.floor
      /\ u.current = Before(call.code)
      /\ u.regs = [(IF call.running THEN call.regs ELSE v.regs) EXCEPT !.realm = call.realm]
  BY <1>1, <1>7 DEF Saved
<1>10. u.frames = v.frames /\ u.handlers = v.handlers
  <2>1. PICK f, h : f = v.frames /\ h = v.handlers
    OBVIOUS
  <2>2. f \in Seq(Frames) /\ h \in Seq(Handlers)
    BY <1>6, <2>1
  <2>3. SubSeq(f, 1, Len(f)) = f /\ SubSeq(h, 1, Len(h)) = h
    BY <2>2
  <2> QED BY <1>8, <1>9, <2>1, <2>3
<1>11. u.stack = Truncate(v.stack, call.entry) /\ Len(u.stack) = call.entry
       /\ u.stack \in Seq(Marks)
  <2>1. PICK s, e : s = v.stack /\ e = call.entry
    OBVIOUS
  <2>2. s \in Seq(Marks) /\ e \in 0..Len(s)
    BY <1>5, <1>6, <2>1
  <2>3. Truncate(s, e) = SubSeq(s, 1, e) /\ Len(Truncate(s, e)) = e /\ Truncate(s, e) \in Seq(Marks)
    BY <2>2, Shorter
  <2> QED BY <1>9, <2>1, <2>3
<1>12. ~call.running => u.stack = v.stack
  <2>1. SubSeq(v.stack, 1, Len(v.stack)) = v.stack
    BY <1>6
  <2> QED BY <1>5, <1>9, <2>1
<1>13. call.code = Open(u.current, "operand")
  BY <1>5, <1>6, <1>9, AwaitingOpens
<1>14. call.code.of = u.current.of
  BY <1>6, <1>9, CodeTypes
<1>15. v.current = NoCode
  BY <1>4, <1>5
<1>16. u.current \in Code /\ More(o, m, o, m)
  BY <1>3, VmTypes, SameMore
<1>17. Returns(v, rs, n, call, u, ts, o, m, gs, pk)
  BY <1>1, <1>2, <1>3, <1>4, <1>5, <1>6, <1>9, <1>10, <1>11, <1>12, <1>13, <1>14, <1>15,
     <1>16 DEF Returns
<1> QED BY <1>17

LEMMA SpineAnswers ==
    ASSUME NEW v, NEW rs, NEW n, NEW call, NEW u, NEW ts, NEW o, NEW m, NEW gs, NEW pk,
           Returns(v, rs, n, call, u, ts, o, m, gs, pk),
           NEW w \in Vms, w.frames = u.frames, w.floor = u.floor, w.handlers = u.handlers,
           w.current = call.code, w.stack = Append(u.stack, Mark(call.code)),
           w.regs.env = u.regs.env
    PROVE  Spine(w, ts, o, m, gs, pk)
<1>1. PICK E, C : E = EntryOf(ts, Len(ts)) /\ C = ChunkOf(ts, Len(ts))
  OBVIOUS
<1>2. /\ Spine(u, ts, o, m, gs, pk) /\ u.current # NoCode /\ More(o, m, o, m)
      /\ call.code = Open(u.current, "operand")
  BY DEF Returns
<1>3. E \in Nat /\ C \in BOOLEAN /\ m \in Nat /\ Fine(u, E, C, o, m)
  BY <1>1, <1>2, TopFine
<1>4. Goes(u, w, E, C, o, m)
  <2>1. /\ w \in Vms /\ w.frames = u.frames /\ w.floor = u.floor /\ w.handlers = u.handlers
        /\ w.current = Open(u.current, "operand")
        /\ w.stack = Append(u.stack, Mark(w.current)) /\ w.regs.env = u.regs.env
    BY <1>2
  <2> QED BY ONLY <1>3, <2>1, AnswerGoes
<1> QED BY <1>1, <1>2, <1>4, SpineGoes

LEMMA SpineFails ==
    ASSUME NEW v, NEW rs, NEW n, NEW call, NEW u, NEW ts, NEW o, NEW m, NEW gs, NEW pk,
           Returns(v, rs, n, call, u, ts, o, m, gs, pk),
           NEW x \in Vms, Alike(u, x), x.current = call.code
    PROVE  Spine(Unwind(x), ts, o, m, gs, pk)
<1>1. /\ Spine(u, ts, o, m, gs, pk) /\ u.current # NoCode /\ x.current.of = u.current.of
  BY DEF Returns
<1> QED BY <1>1, SpineThrows

(* A built-in answers or throws.                                           *)
LEMMA AnsweredIs ==
    ASSUME NEW v, NEW rs, NEW n, NEW call, NEW u, NEW ts, NEW o, NEW m, NEW gs, NEW pk,
           Returns(v, rs, n, call, u, ts, o, m, gs, pk),
           NEW b \in Vms, b.stack = v.stack \/ b.stack = u.stack, NEW w, w = Answered(b, call)
    PROVE  /\ w \in Vms /\ w.stack = Append(u.stack, Mark(call.code)) /\ w.current = call.code
           /\ w.frames = b.frames /\ w.handlers = b.handlers /\ w.floor = b.floor
           /\ w.regs = b.regs /\ w.thrown = b.thrown /\ w.escaped = b.escaped
<1>1. u.stack = Truncate(v.stack, call.entry) /\ u.stack \in Seq(Marks) /\ call.code \in Code
      /\ Len(u.stack) = call.entry /\ call.entry \in Nat
  BY DEF Returns
<1>2. Truncate(b.stack, call.entry) = u.stack
  <2>1. Truncate(u.stack, call.entry) = u.stack
    BY <1>1 DEF Truncate
  <2> QED BY <1>1, <2>1
<1>3. PICK s : s = Append(u.stack, Mark(call.code))
  OBVIOUS
<1>4. s \in Seq(Marks)
  BY <1>1, <1>3, MarkIsOne, Extended
<1>5. w = [b EXCEPT !.stack = s, !.current = call.code]
  BY <1>2, <1>3 DEF Answered
<1> QED BY <1>1, <1>3, <1>4, <1>5 DEF Vms

LEMMA FailedIs ==
    ASSUME NEW v, NEW rs, NEW n, NEW call, NEW u, NEW ts, NEW o, NEW m, NEW gs, NEW pk,
           Returns(v, rs, n, call, u, ts, o, m, gs, pk),
           NEW b \in Vms, b.stack = v.stack \/ b.stack = u.stack
    PROVE  \E x \in Vms : /\ Failed(b, call) = Unwind(x)
                          /\ x.stack = u.stack /\ x.current = call.code
                          /\ x.frames = b.frames /\ x.handlers = b.handlers
                          /\ x.floor = b.floor
<1>1. u.stack = Truncate(v.stack, call.entry) /\ u.stack \in Seq(Marks) /\ call.code \in Code
      /\ Len(u.stack) = call.entry /\ call.entry \in Nat
  BY DEF Returns
<1>2. Truncate(b.stack, call.entry) = u.stack
  <2>1. Truncate(u.stack, call.entry) = u.stack
    BY <1>1 DEF Truncate
  <2> QED BY <1>1, <2>1
<1>3. PICK x : x = [b EXCEPT !.stack = u.stack, !.current = call.code]
  OBVIOUS
<1>4. Failed(b, call) = Unwind(x)
  BY <1>2, <1>3 DEF Failed
<1>5. x \in Vms /\ x.stack = u.stack /\ x.current = call.code
      /\ x.frames = b.frames /\ x.handlers = b.handlers /\ x.floor = b.floor
  BY <1>1, <1>3 DEF Vms
<1> QED BY <1>4, <1>5

LEMMA RealmBack ==
    ASSUME NEW v \in Vms, NEW realm \in Realms, NEW w, w = [v EXCEPT !.regs.realm = realm]
    PROVE  /\ w \in Vms /\ Alike(v, w) /\ w.current = v.current /\ w.regs.env = v.regs.env
           /\ w.regs = [v.regs EXCEPT !.realm = realm] /\ w.thrown = v.thrown
           /\ w.escaped = v.escaped
<1>1. PICK regs : regs = [v.regs EXCEPT !.realm = realm]
  OBVIOUS
<1>2. regs \in Registers /\ regs.env = v.regs.env
  BY <1>1, VmTypes DEF Registers
<1>3. w = [v EXCEPT !.regs = regs]
  BY <1>1 DEF Vms
<1> QED BY <1>1, <1>2, <1>3 DEF Vms, Alike

LEMMA NativeReturning ==
    ASSUME SpineInv, NativeInControl
    PROVE  \E n, call, u, ts : /\ Returns(vm, rust, n, call, u, ts, own, made, generators, parked)
                               /\ ~call.running /\ call = Last(rust)
<1>1. rust # <<>> /\ ~Last(rust).running
  BY DEF NativeInControl
<1>2. PICK n, call, u, ts : Returns(vm, rust, n, call, u, ts, own, made, generators, parked)
  BY <1>1, Returning DEF SpineInv
<1>3. call = Last(rust) /\ ~call.running
  BY <1>1, <1>2 DEF Returns
<1> QED BY <1>2, <1>3

LEMMA SpineNativeAnswers ==
    ASSUME SpineInv, NativeAnswers
    PROVE  SpineInv'
<1>1. PICK n, call, u, ts : /\ Returns(vm, rust, n, call, u, ts, own, made, generators, parked)
                            /\ ~call.running /\ call = Last(rust)
  BY NativeReturning DEF NativeAnswers
<1>2. /\ vm \in Vms /\ ts = Front(rust) /\ call \in Waits /\ vm.floor = call.floor
      /\ u.frames = vm.frames /\ u.handlers = vm.handlers /\ u.floor = call.floor
      /\ u.regs = [vm.regs EXCEPT !.realm = call.realm]
  BY <1>1 DEF Returns
<1>3. PICK w, x : w = vm' /\ x = Answered(vm, call)
  OBVIOUS
<1>4. /\ w = [x EXCEPT !.regs.realm = call.realm] /\ rust' = ts
      /\ UNCHANGED <<own, made, generators, parked>>
  BY <1>1, <1>2, <1>3 DEF NativeAnswers, objects
<1>5. /\ x \in Vms /\ x.stack = Append(u.stack, Mark(call.code)) /\ x.current = call.code
      /\ x.frames = vm.frames /\ x.handlers = vm.handlers /\ x.floor = vm.floor
      /\ x.regs = vm.regs
  BY <1>1, <1>2, <1>3, AnsweredIs
<1>6. call.realm \in Realms
  BY <1>2 DEF Waits
<1>7. /\ w \in Vms /\ Alike(x, w) /\ w.current = x.current
      /\ w.regs = [x.regs EXCEPT !.realm = call.realm]
  <2>1. PICK realm : realm = call.realm
    OBVIOUS
  <2>2. x \in Vms /\ realm \in Realms /\ w = [x EXCEPT !.regs.realm = realm]
    BY ONLY <1>4, <1>5, <1>6, <2>1, Zenon
  <2>3. /\ w \in Vms /\ Alike(x, w) /\ w.current = x.current
        /\ w.regs = [x.regs EXCEPT !.realm = realm]
    BY ONLY <2>2, RealmBack, ZenonT(60)
  <2> QED BY ONLY <2>1, <2>3, Zenon
<1>8. Spine(w, ts, own, made, generators, parked)
  <2>1. /\ w \in Vms /\ w.frames = u.frames /\ w.floor = u.floor /\ w.handlers = u.handlers
        /\ w.current = call.code /\ w.stack = Append(u.stack, Mark(call.code))
        /\ w.regs.env = u.regs.env
    BY <1>2, <1>5, <1>7 DEF Alike
  <2> QED BY <1>1, <2>1, SpineAnswers
<1> QED BY <1>3, <1>4, <1>8 DEF SpineInv

LEMMA SpineNativeThrows ==
    ASSUME SpineInv, NativeThrows
    PROVE  SpineInv'
<1>1. PICK n, call, u, ts : /\ Returns(vm, rust, n, call, u, ts, own, made, generators, parked)
                            /\ ~call.running /\ call = Last(rust)
  BY NativeReturning DEF NativeThrows
<1>2. /\ vm \in Vms /\ ts = Front(rust) /\ call \in Waits /\ vm.floor = call.floor
      /\ u.frames = vm.frames /\ u.handlers = vm.handlers /\ u.floor = call.floor
  BY <1>1 DEF Returns
<1>3. PICK x \in Vms : /\ Failed(vm, call) = Unwind(x)
                       /\ x.stack = u.stack /\ x.current = call.code
                       /\ x.frames = vm.frames /\ x.handlers = vm.handlers
                       /\ x.floor = vm.floor
  BY <1>1, <1>2, FailedIs
<1>4. PICK y, w : y = Unwind(x) /\ w = vm'
  OBVIOUS
<1>5. Alike(u, x)
  BY <1>2, <1>3 DEF Alike
<1>6. Spine(y, ts, own, made, generators, parked)
  BY <1>1, <1>3, <1>4, <1>5, SpineFails
<1>7. /\ w = [y EXCEPT !.regs.realm = call.realm] /\ rust' = ts
      /\ UNCHANGED <<own, made, generators, parked>>
  BY <1>1, <1>2, <1>3, <1>4 DEF NativeThrows, objects
<1>8. call.realm \in Realms /\ y \in Vms
  BY <1>2, <1>6 DEF Waits, Spine
<1>9. w \in Vms /\ Alike(y, w) /\ w.current = y.current /\ w.regs.env = y.regs.env
  BY <1>7, <1>8, RealmBack
<1>10. ~InControl(ts)
  BY <1>1, TopFine DEF Returns
<1>11. Spine(w, ts, own, made, generators, parked)
  BY <1>6, <1>9, <1>10, SpineAlike
<1> QED BY <1>4, <1>7, <1>11 DEF SpineInv

LEMMA LastReplaced ==
    ASSUME NEW S, NEW s \in Seq(S), s # <<>>, NEW d \in S
    PROVE  [s EXCEPT ![Len(s)] = d] = Append(Front(s), d)
<1>0. PICK n, r, t : n = Len(s) /\ r = [s EXCEPT ![n] = d] /\ t = Front(s)
  OBVIOUS
<1>1. /\ t \in Seq(S) /\ n \in Nat /\ n >= 1 /\ Len(t) = n - 1
      /\ \A i \in 1..n - 1 : t[i] = s[i]
      /\ DOMAIN s = 1..n
  BY <1>0, FrontIs
<1>2. PICK a : a = Append(t, d)
  OBVIOUS
<1>3. a \in Seq(S) /\ Len(a) = Len(t) + 1 /\ a[Len(t) + 1] = d
      /\ \A i \in 1..Len(t) : a[i] = t[i]
  BY <1>1, <1>2, Extended
<1>4. r \in Seq(S) /\ Len(r) = n /\ r[n] = d /\ \A i \in 1..n - 1 : r[i] = s[i]
  BY <1>0, <1>1
<1>5. Len(a) = n /\ a[n] = d /\ \A i \in 1..n - 1 : a[i] = s[i]
  BY <1>1, <1>3
<1>6. \A i \in 1..n : a[i] = r[i]
  BY <1>1, <1>4, <1>5
<1>7. a = r
  BY <1>3, <1>4, <1>5, <1>6
<1> QED BY <1>0, <1>2, <1>7

(* An execution ends.                                                      *)
GivenBack(call) ==
    [vm.regs EXCEPT !.env = call.regs.env, !.var = call.regs.var,
                    !.this = IF call.kind = "eval" THEN @ ELSE call.regs.this]

Ending(n, call, u, ts, b) ==
    /\ Returns(vm, rust, n, call, u, ts, own, made, generators, parked) /\ call.running
    /\ vm \in Vms /\ ts = Front(rust) /\ ts \in Seq(Waits) /\ call \in Waits /\ u \in Vms
    /\ u.frames = vm.frames /\ u.handlers = vm.handlers /\ u.floor = call.floor
    /\ u.stack = Truncate(vm.stack, call.entry) /\ u.stack \in Seq(Marks)
    /\ call = Last(rust) /\ n = Len(rust) /\ rust \in Seq(Waits) /\ call = rust[n]
    /\ Len(u.stack) = call.entry /\ call.code = Open(u.current, "operand")
    /\ More(own, made, own, made)
    /\ u.regs = [call.regs EXCEPT !.realm = call.realm] /\ u.regs.env = call.regs.env
    /\ u.regs.realm = call.realm
    /\ b \in Vms /\ b.regs = GivenBack(call) /\ b.floor = u.floor /\ b.stack = u.stack
    /\ b.frames = u.frames /\ b.handlers = u.handlers /\ b.current = NoCode
    /\ b.regs.env = u.regs.env /\ b.thrown = vm.thrown
    /\ IF call.kind = "native"
       THEN /\ vm' = b
            /\ rust' = [rust EXCEPT ![Len(rust)].running = FALSE,
                                    ![Len(rust)].failed = vm.escaped]
       ELSE /\ rust' = ts
            /\ vm' = IF vm.escaped THEN Failed(b, call) ELSE Answered(b, call)
    /\ UNCHANGED <<own, made, generators, parked>>

LEMMA EndingIs ==
    ASSUME SpineInv, ExecutionEnds
    PROVE  \E n, call, u, ts, b : Ending(n, call, u, ts, b)
<1>1. rust # <<>> /\ Last(rust).running /\ vm.current = NoCode
  BY DEF ExecutionEnds, Executing, Here
<1>2. PICK n, call, u, ts : Returns(vm, rust, n, call, u, ts, own, made, generators, parked)
  BY <1>1, Returning DEF SpineInv
<1>3. /\ vm \in Vms /\ ts = Front(rust) /\ ts \in Seq(Waits) /\ call \in Waits /\ u \in Vms
      /\ u.frames = vm.frames /\ u.handlers = vm.handlers /\ u.floor = call.floor
      /\ u.stack = Truncate(vm.stack, call.entry) /\ u.stack \in Seq(Marks)
      /\ call = Last(rust) /\ n = Len(rust) /\ rust \in Seq(Waits) /\ call = rust[n]
      /\ Len(u.stack) = call.entry /\ call.code = Open(u.current, "operand")
      /\ More(own, made, own, made)
  BY <1>2 DEF Returns
<1>4. u.regs = [call.regs EXCEPT !.realm = call.realm] /\ u.regs.env = call.regs.env
      /\ u.regs.realm = call.realm
  <2>1. u.regs = [call.regs EXCEPT !.realm = call.realm]
    BY <1>1, <1>2, <1>3 DEF Returns
  <2>2. call.regs \in Registers
    BY <1>3 DEF Waits
  <2> QED BY <2>1, <2>2, SMTT(30) DEF Registers
<1>5. PICK regs, b :
         /\ regs = [vm.regs EXCEPT !.env = call.regs.env, !.var = call.regs.var,
                        !.this = IF call.kind = "eval" THEN @ ELSE call.regs.this]
         /\ b = [vm EXCEPT !.regs = regs, !.floor = call.floor,
                           !.escaped = FALSE, !.stack = Truncate(@, call.entry)]
  BY Zenon
<1>6. regs \in Registers /\ regs.env = call.regs.env
  <2>1. call.regs \in Registers /\ vm.regs \in Registers
    BY <1>3, VmTypes DEF Waits
  <2>2. PICK t : t = IF call.kind = "eval" THEN vm.regs.this ELSE call.regs.this
    OBVIOUS
  <2>3. t \in Nat
    BY <2>1, <2>2 DEF Registers
  <2>4. regs = [vm.regs EXCEPT !.env = call.regs.env, !.var = call.regs.var, !.this = t]
    BY <1>5, <2>1, <2>2 DEF Registers
  <2> QED BY <2>1, <2>3, <2>4 DEF Registers
<1>7. /\ b \in Vms /\ b.regs = regs /\ b.floor = u.floor /\ b.stack = u.stack
      /\ b.frames = u.frames /\ b.handlers = u.handlers /\ b.current = NoCode
      /\ b.regs.env = u.regs.env /\ b.thrown = vm.thrown
  <2>1. b = [vm EXCEPT !.regs = regs, !.floor = call.floor, !.escaped = FALSE,
                       !.stack = u.stack]
    BY <1>3, <1>5
  <2>2. call.floor \in Floors
    BY <1>3 DEF Waits
  <2> QED BY <1>1, <1>3, <1>4, <1>6, <2>1, <2>2 DEF Vms
<1>8. UNCHANGED <<own, made, generators, parked>>
  BY DEF ExecutionEnds, objects
<1>9. IF call.kind = "native"
      THEN /\ vm' = b
           /\ rust' = [rust EXCEPT ![Len(rust)].running = FALSE,
                                   ![Len(rust)].failed = vm.escaped]
      ELSE /\ rust' = ts
           /\ vm' = IF vm.escaped THEN Failed(b, call) ELSE Answered(b, call)
  BY <1>3, <1>5 DEF ExecutionEnds
<1>10. b.regs = GivenBack(call) /\ call.running
  BY <1>1, <1>3, <1>5, <1>7 DEF GivenBack
<1>11. Ending(n, call, u, ts, b)
  BY <1>1, <1>2, <1>3, <1>4, <1>7, <1>8, <1>9, <1>10 DEF Ending
<1> QED BY <1>11

LEMMA SpineEnds ==
    ASSUME SpineInv, ExecutionEnds
    PROVE  SpineInv'
<1>1. PICK n, call, u, ts, b : Ending(n, call, u, ts, b)
  BY EndingIs
<1>2. Returns(vm, rust, n, call, u, ts, own, made, generators, parked)
  BY <1>1 DEF Ending
<1>3. /\ vm \in Vms /\ ts = Front(rust) /\ ts \in Seq(Waits) /\ call \in Waits /\ u \in Vms
      /\ u.frames = vm.frames /\ u.handlers = vm.handlers /\ u.floor = call.floor
      /\ u.stack = Truncate(vm.stack, call.entry) /\ u.stack \in Seq(Marks)
      /\ call = Last(rust) /\ n = Len(rust) /\ rust \in Seq(Waits) /\ call = rust[n]
      /\ Len(u.stack) = call.entry /\ call.code = Open(u.current, "operand")
      /\ More(own, made, own, made)
  BY <1>1 DEF Ending
<1>4. u.regs.env = call.regs.env /\ u.regs.realm = call.realm
  BY <1>1 DEF Ending
<1>5. IF call.kind = "native"
      THEN /\ vm' = b
           /\ rust' = [rust EXCEPT ![Len(rust)].running = FALSE,
                                   ![Len(rust)].failed = vm.escaped]
      ELSE /\ rust' = ts
           /\ vm' = IF vm.escaped THEN Failed(b, call) ELSE Answered(b, call)
  BY <1>1 DEF Ending
<1>6. rust # <<>>
  BY DEF ExecutionEnds
<1>7. /\ b \in Vms /\ b.floor = u.floor /\ b.stack = u.stack
      /\ b.frames = u.frames /\ b.handlers = u.handlers /\ b.current = NoCode
      /\ b.regs.env = u.regs.env /\ b.thrown = vm.thrown
  BY <1>1 DEF Ending
<1>8. UNCHANGED <<own, made, generators, parked>>
  BY <1>1 DEF Ending
<1>9. CASE call.kind = "native"
  <2>1. PICK d, ss, w : /\ d = [call EXCEPT !.running = FALSE, !.failed = vm.escaped]
                        /\ ss = rust' /\ w = vm'
    OBVIOUS
  <2>2. w = b /\ ss = [rust EXCEPT ![Len(rust)].running = FALSE,
                                   ![Len(rust)].failed = vm.escaped]
    BY <1>5, <1>9, <2>1
  <2>3. d \in Waits /\ ~d.running /\ d.kind = "native" /\ d.code = call.code
        /\ d.entry = call.entry /\ d.realm = call.realm /\ d.floor = call.floor
    <3>1. vm.escaped \in BOOLEAN
      BY <1>3 DEF Vms
    <3> QED BY <1>3, <1>9, <2>1, <3>1 DEF Waits
  <2>4. ss = Append(ts, d)
    <3>1. n \in DOMAIN rust
      BY <1>3, <1>6
    <3>2. ss = [rust EXCEPT ![n] = d]
      BY <1>3, <2>1, <2>2, <3>1
    <3>3. [rust EXCEPT ![Len(rust)] = d] = Append(Front(rust), d)
      BY <1>3, <1>6, <2>3, LastReplaced
    <3> QED BY <1>3, <3>2, <3>3
  <2>5. Above(u, b)
    BY <1>3, <1>7, VmTypes DEF Above
  <2>6. Asks(u, b, d)
    BY <1>3, <1>4, <1>7, <2>3 DEF Asks
  <2>7. TopIsFine(b, ss, own, made)
    <3>1. /\ ss \in Seq(Waits) /\ Len(ss) = Len(ts) + 1 /\ ss[Len(ts) + 1] = d
      BY <1>3, <2>3, <2>4, Extended
    <3>2. Len(ts) \in Nat
      BY <1>3
    <3>3. Last(ss) = d /\ ss # <<>>
      BY <3>1, <3>2 DEF Last
    <3> QED BY <2>3, <3>3 DEF TopIsFine, InControl
  <2>8. Spine(u, ts, own, made, generators, parked) /\ u.current # NoCode
    BY <1>2 DEF Returns
  <2>9. Spine(b, ss, own, made, generators, parked)
    BY <1>3, <1>7, <2>4, <2>5, <2>6, <2>7, <2>8, SpineRises
  <2> QED BY <1>8, <2>1, <2>2, <2>9 DEF SpineInv
<1>10. CASE call.kind # "native"
  <2>1. /\ rust' = ts
        /\ vm' = IF vm.escaped THEN Failed(b, call) ELSE Answered(b, call)
    BY <1>5, <1>10
  <2>2. PICK x, y : x = Answered(b, call) /\ y = Failed(b, call)
    OBVIOUS
  <2>3. Spine(x, ts, own, made, generators, parked)
    <3>1. /\ x \in Vms /\ x.stack = Append(u.stack, Mark(call.code)) /\ x.current = call.code
          /\ x.frames = b.frames /\ x.handlers = b.handlers /\ x.floor = b.floor
          /\ x.regs = b.regs
      BY <1>2, <1>7, <2>2, AnsweredIs
    <3>2. /\ x \in Vms /\ x.frames = u.frames /\ x.floor = u.floor /\ x.handlers = u.handlers
          /\ x.current = call.code /\ x.stack = Append(u.stack, Mark(call.code))
          /\ x.regs.env = u.regs.env
      BY <1>7, <3>1
    <3> QED BY <1>2, <3>2, SpineAnswers
  <2>4. Spine(y, ts, own, made, generators, parked)
    <3>1. PICK z \in Vms : /\ Failed(b, call) = Unwind(z)
                           /\ z.stack = u.stack /\ z.current = call.code
                           /\ z.frames = b.frames /\ z.handlers = b.handlers
                           /\ z.floor = b.floor
      BY <1>2, <1>7, FailedIs
    <3>2. Alike(u, z)
      BY <1>7, <3>1 DEF Alike
    <3> QED BY <1>2, <2>2, <3>1, <3>2, SpineFails
  <2>5. vm' = x \/ vm' = y
    BY <2>1, <2>2
  <2> QED BY <1>8, <2>1, <2>3, <2>4, <2>5 DEF SpineInv
<1> QED BY <1>9, <1>10

(* A built-in calls back.                                                  *)
Begun(v, w, p, q) ==
    /\ w \in Vms /\ Keeps(v, w, Len(v.stack))
    /\ IF w.current # NoCode THEN Fine(w, Len(v.stack), FALSE, p, q)
       ELSE Over(w, Len(v.stack))

(* The machine over which the new execution runs.                          *)
Raised(u, v) ==
    /\ v \in Vms /\ v.stack = u.stack /\ v.frames = u.frames /\ v.handlers = u.handlers
    /\ v.floor = [handlers |-> Len(u.handlers), frames |-> Len(u.frames)]
    /\ MarksInOrder(v, Len(v.stack)) /\ v.current = NoCode

LEMMA SpineBegins ==
    ASSUME NEW v, NEW rs, NEW n, NEW call, NEW u, NEW ts, NEW o, NEW m, NEW gs, NEW pk,
           Returns(v, rs, n, call, u, ts, o, m, gs, pk), ~call.running,
           NEW p, NEW q, More(o, m, p, q), NEW x, Raised(u, x), NEW w, Begun(x, w, p, q),
           NEW d, d = [call EXCEPT !.running = TRUE, !.failed = FALSE,
                                   !.regs = v.regs, !.floor = v.floor]
    PROVE  Spine(w, Append(ts, d), p, q, gs, pk)
<1>1. /\ Spine(u, ts, o, m, gs, pk) /\ u.current # NoCode /\ u \in Vms /\ v \in Vms
      /\ call \in Waits /\ ts \in Seq(Waits) /\ u.floor = call.floor /\ v.floor = call.floor
      /\ Len(u.stack) = call.entry /\ call.code = Open(u.current, "operand")
      /\ u.regs = [v.regs EXCEPT !.realm = call.realm] /\ call.kind = "native"
  BY DEF Returns
<1>2. u.regs.env = v.regs.env /\ u.regs.realm = call.realm
  <2>1. v.regs \in Registers
    BY <1>1, VmTypes
  <2> QED BY <1>1, <2>1 DEF Registers
<1>3. /\ d \in Waits /\ d.running /\ d.regs = v.regs /\ d.floor = u.floor
      /\ d.entry = Len(u.stack) /\ d.code = Open(u.current, "operand")
      /\ d.realm = u.regs.realm /\ d.kind = "native"
  <2>1. v.regs \in Registers /\ v.floor \in Floors
    BY <1>1, VmTypes
  <2> QED BY <1>1, <1>2, <2>1 DEF Waits
<1>4. PICK ss, top : ss = Append(ts, d) /\ top = Len(u.stack)
  OBVIOUS
<1>5. /\ ss \in Seq(Waits) /\ Len(ss) = Len(ts) + 1 /\ ss[Len(ts) + 1] = d
  <2>1. ts \in Seq(Waits) /\ d \in Waits /\ ss = Append(ts, d)
    BY <1>1, <1>3, <1>4
  <2> QED BY ONLY <2>1, Extended
<1>6. Last(ss) = d /\ ss # <<>> /\ Len(ss) # 0 /\ ss[Len(ss)] = d
  <2>1. Len(ts) \in Nat
    BY <1>1
  <2> QED BY <1>5, <2>1 DEF Last
<1>7. EntryOf(ss, Len(ss)) = top /\ ChunkOf(ss, Len(ss)) = FALSE /\ ~InControl(ss)
  BY <1>3, <1>4, <1>6 DEF EntryOf, ChunkOf, InControl
<1>8. /\ x.stack = u.stack /\ x.frames = u.frames /\ x.handlers = u.handlers
      /\ x.floor = [handlers |-> Len(u.handlers), frames |-> Len(u.frames)]
      /\ w \in Vms /\ Keeps(x, w, top)
      /\ IF w.current # NoCode THEN Fine(w, top, FALSE, p, q) ELSE Over(w, top)
  BY <1>4 DEF Raised, Begun
<1>9. Above(u, w) /\ w.floor = x.floor
  BY <1>4, <1>8 DEF Keeps, Above
<1>10. Asks(u, w, d)
  BY <1>2, <1>3, <1>8, <1>9 DEF Asks
<1>11. TopIsFine(w, ss, p, q)
  BY <1>7, <1>8 DEF TopIsFine
<1>12. Spine(w, ss, p, q, gs, pk)
  BY <1>1, <1>4, <1>8, <1>9, <1>10, <1>11, SpineRises
<1> QED BY <1>4, <1>12

(* A body begins, new or revived.                                          *)
LEMMA BegunBody ==
    ASSUME NEW u, NEW x, Raised(u, x), NEW w, NEW f, NEW p, NEW q \in Nat,
           Pushed(x, w, f), Enters(w, p, q, f), PushedLevel(x, w), f.code = NoCode
    PROVE  Begun(x, w, p, q) /\ Fine(w, Len(x.stack), FALSE, p, q) /\ w.current # NoCode
<1>1. PICK top : top = Len(x.stack)
  OBVIOUS
<1>2. /\ x \in Vms /\ MarksInOrder(x, top) /\ top \in Nat
      /\ x.floor.frames = Len(x.frames) /\ x.floor.handlers = Len(x.handlers)
  BY <1>1, VmTypes DEF Raised
<1>3. Goes(x, w, top, FALSE, p, q)
  <2>1. /\ Pushed(x, w, f) /\ Enters(w, p, q, f) /\ PushedLevel(x, w) /\ f.code = NoCode
        /\ q \in Nat
    OBVIOUS
  <2> QED BY ONLY <1>1, <1>2, <2>1, PushedStarts
<1>4. Fine(w, top, FALSE, p, q) /\ Keeps(x, w, top)
  BY <1>3 DEF Goes
<1>5. w.current # NoCode /\ w \in Vms
  <2>1. FALSE \in BOOLEAN
    OBVIOUS
  <2> QED BY <1>2, <1>4, <2>1, FineExecutes
<1> QED BY <1>1, <1>4, <1>5 DEF Begun

LEMMA BegunOver ==
    ASSUME NEW u, NEW x, Raised(u, x), NEW p, NEW q
    PROVE  Begun(x, Unwind(x), p, q) /\ Begun(x, Results(x, NoCode), p, q)
<1>1. PICK top : top = Len(x.stack)
  OBVIOUS
<1>2. /\ x \in Vms /\ MarksInOrder(x, top) /\ top \in Nat
      /\ x.floor.frames = Len(x.frames) /\ x.floor.handlers = Len(x.handlers)
      /\ Len(x.frames) \in Nat /\ Len(x.handlers) \in Nat
      /\ x.frames \in Seq(Frames) /\ x.stack \in Seq(Marks)
  BY <1>1, VmTypes DEF Raised
<1>3. Over(Unwind(x), top) /\ Keeps(x, Unwind(x), top)
  <2>1. Alike(x, x) /\ ~(Len(x.handlers) > x.floor.handlers)
    BY <1>2 DEF Alike
  <2> QED BY <1>2, <2>1, UnwindOver
<1>4. Over(Results(x, NoCode), top) /\ Keeps(x, Results(x, NoCode), top)
  <2>1. PICK w : w = Results(x, NoCode)
    OBVIOUS
  <2>2. /\ w \in Vms /\ w.stack = Append(x.stack, Mark(NoCode)) /\ w.current = NoCode
        /\ w.frames = x.frames /\ w.handlers = x.handlers /\ w.floor = x.floor
    BY <1>2, <2>1, NoCodeIsCode, ResultsAre
  <2>3. top <= Len(w.stack) /\ \A i \in 1..top : w.stack[i] = x.stack[i]
    <3>1. Mark(NoCode) \in Marks
      BY NoCodeIsCode, MarkIsOne
    <3>3. PICK s, t : s = x.stack /\ t = w.stack
      OBVIOUS
    <3>4. /\ Len(t) = Len(s) + 1 /\ \A i \in 1..Len(s) : t[i] = s[i]
      BY <1>2, <2>2, <3>1, <3>3, Extended
    <3> QED BY <1>1, <1>2, <3>3, <3>4
  <2>4. w.frames = Truncate(x.frames, x.floor.frames)
    <3>1. PICK s : s = x.frames /\ s \in Seq(Frames)
      BY <1>2
    <3>2. Truncate(s, Len(s)) = s
      BY <3>1 DEF Truncate
    <3> QED BY <1>2, <2>2, <3>1, <3>2
  <2>5. Over(w, top) /\ Keeps(x, w, top)
    BY <1>2, <2>2, <2>3, <2>4, OverKeeps
  <2> QED BY <2>1, <2>5
<1>5. Begun(x, Unwind(x), p, q)
  BY <1>1, <1>3 DEF Begun, Over
<1>6. Begun(x, Results(x, NoCode), p, q)
  BY <1>1, <1>4 DEF Begun, Over
<1> QED BY <1>5, <1>6

(* Thrown into as soon as it goes on.                                      *)
LEMMA BegunThrows ==
    ASSUME NEW x, NEW w, NEW p, NEW q \in Nat, x \in Vms,
           Begun(x, w, p, q), Fine(w, Len(x.stack), FALSE, p, q), w.current # NoCode
    PROVE  Begun(x, Unwind(w), p, q)
<1>1. PICK top, z : top = Len(x.stack) /\ z = Unwind(w)
  OBVIOUS
<1>2. top \in Nat /\ w \in Vms /\ Keeps(x, w, top) /\ Fine(w, top, FALSE, p, q)
      /\ MarksInOrder(w, top)
  BY <1>1, VmTypes DEF Begun, Fine
<1>3. /\ x.floor.frames \in Nat /\ x.floor.handlers \in Nat /\ w.floor = x.floor
  BY <1>2, VmTypes DEF Keeps
<1>4. FALSE \in BOOLEAN /\ Alike(w, w)
  BY DEF Alike
<1>5. ASSUME Keeps(w, z, top)
      PROVE  Keeps(x, z, top)
  BY <1>2, <1>3, <1>5 DEF Keeps
<1>6. CASE Len(w.handlers) > w.floor.handlers
  <2>1. Goes(w, z, top, FALSE, p, q)
    BY <1>1, <1>2, <1>4, <1>6, UnwindGoes
  <2>2. Fine(z, top, FALSE, p, q) /\ Keeps(w, z, top)
    BY <2>1 DEF Goes
  <2>3. z.current # NoCode /\ z \in Vms
    BY <1>2, <1>4, <2>2, FineExecutes
  <2> QED BY <1>1, <1>5, <2>2, <2>3 DEF Begun
<1>7. CASE ~(Len(w.handlers) > w.floor.handlers)
  <2>1. Over(z, top) /\ Keeps(w, z, top)
    BY <1>1, <1>2, <1>4, <1>7, UnwindOver
  <2> QED BY <1>1, <1>5, <2>1 DEF Begun, Over
<1> QED BY <1>6, <1>7

LEMMA FloorRaised ==
    ASSUME NEW v, NEW rs, NEW n, NEW call, NEW u, NEW ts, NEW o, NEW m, NEW gs, NEW pk,
           Returns(v, rs, n, call, u, ts, o, m, gs, pk), ~call.running, v = vm,
           NEW x, x = [v EXCEPT !.floor = Floor]
    PROVE  Raised(u, x) /\ x.regs = v.regs /\ x.thrown = v.thrown
<1>1. /\ v \in Vms /\ u \in Vms /\ Spine(u, ts, o, m, gs, pk) /\ u.current # NoCode
      /\ u.stack = v.stack /\ u.frames = v.frames /\ u.handlers = v.handlers
      /\ v.current = NoCode
  BY DEF Returns
<1>2. PICK fl : fl = [handlers |-> Len(v.handlers), frames |-> Len(v.frames)]
  OBVIOUS
<1>3. fl \in Floors
  BY <1>1, <1>2, VmTypes DEF Floors
<1>4. x = [v EXCEPT !.floor = fl]
  BY <1>2 DEF Floor
<1>5. /\ x \in Vms /\ x.stack = v.stack /\ x.frames = v.frames /\ x.handlers = v.handlers
      /\ x.regs = v.regs /\ x.current = v.current /\ x.floor = fl /\ x.thrown = v.thrown
  BY <1>1, <1>3, <1>4 DEF Vms
<1>6. PICK E : E = EntryOf(ts, Len(ts))
  OBVIOUS
<1>7. MarksInOrder(u, E) /\ E \in Nat
  BY <1>1, <1>6, TopFine DEF Fine
<1>8. x.floor.frames = Len(u.frames) /\ x.floor.handlers = Len(u.handlers)
  BY <1>1, <1>2, <1>5
<1>9. x.stack = u.stack /\ x.handlers = u.handlers /\ x.frames = u.frames
  BY <1>1, <1>5
<1>10. MarksInOrder(x, Len(u.stack))
  BY ONLY <1>1, <1>5, <1>7, <1>8, <1>9, Refloored
<1> QED BY <1>1, <1>2, <1>5, <1>9, <1>10 DEF Raised

(* A parked body is revived by a built-in.                                 *)
Rejoining(x, o, m, g, how, y, p, f) ==
    /\ y = Revive(x, NoCode, g) /\ p = parked[g] /\ f = RevivedFrame(x, NoCode, g)
    /\ g \in 1..m /\ g \in Ids /\ Shelved(p, g, o) /\ p # NotParked /\ ~Running(g)
    /\ Revived(x, NoCode, g, y, p) /\ Enters(y, o, m, f)
    /\ Begun(x, y, o, m) /\ Fine(y, Len(x.stack), FALSE, o, m)
    /\ y.current # NoCode /\ y \in Vms /\ f \in Frames
    /\ parked \in [Ids -> Shelves \cup {NotParked}]
    /\ parked' = [parked EXCEPT ![g] = NotParked]
    /\ \/ vm' = Unwind(y) /\ how = "throw"
       \/ vm' = Results(x, NoCode)
       \/ vm' = y

LEMMA RejoinIs ==
    ASSUME NEW x, NEW u, Raised(u, x), NEW rs, NEW o, NEW m \in Ids,
           Spine(u, rs, o, m, generators, parked), NEW g \in generators,
           NEW how, ResumeParked(x, NoCode, g, how)
    PROVE  \E y, p, f : Rejoining(x, o, m, g, how, y, p, f)
<1>1. x \in Vms /\ parked \in [Ids -> Shelves \cup {NotParked}]
  BY DEF Raised, Spine
<1>2. PICK y, p, f : /\ y = Revive(x, NoCode, g) /\ p = parked[g]
                     /\ f = RevivedFrame(x, NoCode, g)
  OBVIOUS
<1>3. g \in 1..m /\ g \in Ids /\ g \in Nat /\ m \in Nat
  BY ActivationAssumption DEF Spine, Ids
<1>4. Shelved(p, g, o) /\ p # NotParked /\ ~Running(g)
  BY <1>2, <1>3 DEF Spine, ResumeParked
<1>5. Revived(x, NoCode, g, y, p)
  BY <1>1, <1>2, <1>3, <1>4, RevivePushes, NoCodeIsCode
<1>6. Enters(y, o, m, f)
  BY <1>2, <1>3, <1>4, <1>5, ReviveEnters
<1>7. Pushed(x, y, f) /\ PushedLevel(x, y) /\ f.code = NoCode /\ f \in Frames /\ y \in Vms
  BY <1>2, <1>5 DEF Revived, Pushed
<1>8. /\ Begun(x, y, o, m) /\ Fine(y, Len(x.stack), FALSE, o, m) /\ y.current # NoCode
  BY <1>3, <1>6, <1>7, BegunBody
<1>9. /\ parked' = [parked EXCEPT ![g] = NotParked]
      /\ \/ vm' = Unwind(y) /\ how = "throw"
         \/ vm' = Results(x, NoCode)
         \/ vm' = y
  BY <1>2 DEF ResumeParked, TakeParked
<1>10. Rejoining(x, o, m, g, how, y, p, f)
  BY ONLY <1>1, <1>2, <1>3, <1>4, <1>5, <1>6, <1>7, <1>8, <1>9 DEF Rejoining
<1> QED BY <1>10

(* What a resumption from a built-in leads to.                             *)
LEMMA BegunResumes ==
    ASSUME NEW x, NEW u, Raised(u, x), NEW rs, NEW o, NEW m \in Ids,
           Spine(u, rs, o, m, generators, parked), NEW g \in generators,
           NEW how, NEW w, w = vm', Resume(x, NoCode, g, how)
    PROVE  /\ Begun(x, w, o, m)
           /\ parked' = parked \/ parked' = [parked EXCEPT ![g] = NotParked]
<1>1. x \in Vms /\ x.current = NoCode
  BY DEF Raised
<1>2. Begun(x, Unwind(x), o, m) /\ Begun(x, Results(x, NoCode), o, m)
  BY BegunOver
<1>3. CASE ResumeRunning(x, g)
  BY <1>2, <1>3 DEF ResumeRunning
<1>4. CASE ResumeFinished(x, NoCode, g, how)
  BY <1>2, <1>4 DEF ResumeFinished
<1>5. CASE ResumeParked(x, NoCode, g, how)
  <2>1. PICK y, p, f : Rejoining(x, o, m, g, how, y, p, f)
    BY <1>5, RejoinIs
  <2>2. /\ Begun(x, y, o, m) /\ Fine(y, Len(x.stack), FALSE, o, m) /\ y.current # NoCode
        /\ parked' = [parked EXCEPT ![g] = NotParked]
        /\ vm' = Unwind(y) \/ vm' = Results(x, NoCode) \/ vm' = y
    BY <2>1 DEF Rejoining
  <2>3. m \in Nat
    BY ActivationAssumption DEF Ids
  <2>4. Begun(x, Unwind(y), o, m)
    BY <1>1, <2>2, <2>3, BegunThrows
  <2> QED BY <1>2, <2>2, <2>4
<1> QED BY <1>3, <1>4, <1>5 DEF Resume

(* A built-in calls back: into a body of its own, or into a generator.     *)
CallsBack(n, call, u, ts, x, d, w, p, q) ==
    /\ Returns(vm, rust, n, call, u, ts, own, made, generators, parked)
    /\ ~call.running /\ call = Last(rust)
    /\ Spine(u, ts, own, made, generators, parked) /\ More(own, made, own, made)
    /\ made \in Ids /\ made \in Nat /\ own \in Owners
    /\ Raised(u, x) /\ x.regs = vm.regs /\ x.thrown = vm.thrown /\ x \in Vms
    /\ x.frames = vm.frames
    /\ d = [call EXCEPT !.running = TRUE, !.failed = FALSE,
                        !.regs = vm.regs, !.floor = vm.floor]
    /\ d \in Waits /\ rust' = Append(ts, d)
    /\ w = vm' /\ p = own' /\ q = made'
    /\ \/ \E f : /\ Entering(x, f, w, own, made, p, q) /\ UNCHANGED objects
                  /\ Pushed(x, w, f) /\ Enters(w, p, q, f) /\ PushedLevel(x, w)
                  /\ f \in Frames /\ f.code = NoCode /\ f.regs = x.regs
                  /\ f.generator = Nobody
       \/ \E g, how : g \in generators /\ Resume(x, NoCode, g, how)

LEMMA CallBackIs ==
    ASSUME SpineInv, CallBack
    PROVE  \E n, call, u, ts, x, d, w, p, q : CallsBack(n, call, u, ts, x, d, w, p, q)
<1>1. PICK n, call, u, ts : /\ Returns(vm, rust, n, call, u, ts, own, made, generators, parked)
                            /\ ~call.running /\ call = Last(rust)
  BY NativeReturning DEF CallBack
<1>2. PICK v, rs, o, m : v = vm /\ rs = rust /\ o = own /\ m = made
  OBVIOUS
<1>3. /\ Returns(v, rs, n, call, u, ts, o, m, generators, parked)
      /\ Spine(u, ts, o, m, generators, parked) /\ n = Len(rs) /\ ts = Front(rs)
      /\ v \in Vms /\ o \in Owners /\ m \in Ids /\ m \in Nat /\ rs \in Seq(Waits) /\ call \in Waits
      /\ rs # <<>> /\ More(o, m, o, m) /\ call = rs[n]
  BY <1>1, <1>2 DEF Returns, Spine, NativeInControl, CallBack
<1>4. PICK x, d, w, p, q :
         /\ x = [v EXCEPT !.floor = Floor] /\ w = vm' /\ p = own' /\ q = made'
         /\ d = [call EXCEPT !.running = TRUE, !.failed = FALSE,
                             !.regs = v.regs, !.floor = v.floor]
  OBVIOUS
<1>5. Raised(u, x) /\ x.regs = v.regs /\ x \in Vms /\ x.stack = v.stack /\ x.handlers = v.handlers
      /\ x.frames = v.frames /\ x.thrown = v.thrown
  <2>1. Raised(u, x) /\ x.regs = v.regs /\ x.thrown = v.thrown
    BY <1>1, <1>2, <1>3, <1>4, FloorRaised
  <2>2. u.stack = v.stack /\ u.handlers = v.handlers /\ u.frames = v.frames
    BY <1>1, <1>3, Zenon DEF Returns
  <2> QED BY <2>1, <2>2 DEF Raised
<1>6. d \in Waits
  <2>1. v.regs \in Registers /\ v.floor \in Floors
    BY <1>3, VmTypes
  <2> QED BY <1>3, <1>4, <2>1 DEF Waits
<1>7. rust' = Append(ts, d)
  <2>1. rust' = [rs EXCEPT ![Len(rs)] = d]
    BY <1>2, <1>3, <1>4 DEF CallBack
  <2>2. [rs EXCEPT ![Len(rs)] = d] = Append(Front(rs), d)
    BY <1>3, <1>6, LastReplaced
  <2> QED BY <1>3, <2>1, <2>2
<1>8. ASSUME NEW kind \in Bodies, NEW realm \in Realms, MayEnter,
             EnterBody(x, FrameFrom(v, NoCode, kind), kind, realm)
      PROVE  \E f : /\ Entering(x, f, w, o, m, p, q) /\ UNCHANGED objects
                    /\ Pushed(x, w, f) /\ Enters(w, p, q, f) /\ PushedLevel(x, w)
                    /\ f \in Frames /\ f.code = NoCode /\ f.regs = x.regs
                    /\ f.generator = Nobody
  <2>1. PICK f : f = FrameFrom(x, NoCode, kind)
    OBVIOUS
  <2>2. EnterBody(x, f, kind, realm)
    BY <1>5, <1>8, <2>1 DEF FrameFrom
  <2>3. f \in Frames /\ f.code = NoCode /\ f.stack_base = Len(x.stack) /\ f.regs = x.regs
        /\ f.generator = Nobody
    BY <1>5, <2>1, FrameIsOne, NoCodeIsCode
  <2>4. Entering(x, f, w, o, m, p, q) /\ UNCHANGED objects
    <3>1. f.stack_base <= Len(x.stack)
      BY <1>5, <2>3, VmTypes
    <3> QED BY <1>2, <1>3, <1>4, <1>5, <1>8, <2>2, <2>3, <3>1, EntersBody
  <2>5. Pushed(x, w, f) /\ Enters(w, p, q, f) /\ PushedLevel(x, w)
    BY <1>5, <2>1, <2>4, EnteringPushes, NoCodeIsCode
  <2> QED BY <2>3, <2>4, <2>5
<1>9. \/ \E f : /\ Entering(x, f, w, o, m, p, q) /\ UNCHANGED objects
                /\ Pushed(x, w, f) /\ Enters(w, p, q, f) /\ PushedLevel(x, w)
                /\ f \in Frames /\ f.code = NoCode /\ f.regs = x.regs
                /\ f.generator = Nobody
      \/ \E g, how : g \in generators /\ Resume(x, NoCode, g, how)
  BY <1>2, <1>4, <1>8 DEF CallBack
<1>10. CallsBack(n, call, u, ts, x, d, w, p, q)
  BY ONLY <1>1, <1>2, <1>3, <1>4, <1>5, <1>6, <1>7, <1>9 DEF CallsBack
<1> QED BY <1>10

LEMMA SpineCallsBack ==
    ASSUME SpineInv, CallBack
    PROVE  SpineInv'
<1>1. PICK n, call, u, ts, x, d, w, p, q : CallsBack(n, call, u, ts, x, d, w, p, q)
  BY CallBackIs
<1>2. /\ Returns(vm, rust, n, call, u, ts, own, made, generators, parked) /\ ~call.running
      /\ Spine(u, ts, own, made, generators, parked) /\ More(own, made, own, made)
      /\ made \in Ids /\ made \in Nat /\ Raised(u, x)
      /\ d = [call EXCEPT !.running = TRUE, !.failed = FALSE,
                          !.regs = vm.regs, !.floor = vm.floor]
      /\ rust' = Append(ts, d) /\ w = vm' /\ p = own' /\ q = made'
  BY <1>1 DEF CallsBack
<1>3. ASSUME NEW f, Entering(x, f, w, own, made, p, q), UNCHANGED objects,
             Pushed(x, w, f), Enters(w, p, q, f), PushedLevel(x, w), f.code = NoCode
      PROVE  SpineInv'
  <2>1. More(own, made, p, q) /\ q \in Nat
    BY <1>3 DEF Entering
  <2>2. Begun(x, w, p, q)
    BY <1>2, <1>3, <2>1, BegunBody
  <2>3. Spine(w, Append(ts, d), p, q, generators, parked)
    BY <1>2, <2>1, <2>2, SpineBegins, Zenon
  <2> QED BY <1>2, <1>3, <2>3 DEF SpineInv, objects
<1>4. ASSUME NEW g \in generators, NEW how, Resume(x, NoCode, g, how)
      PROVE  SpineInv'
  <2>1. /\ Begun(x, w, own, made)
        /\ parked' = parked \/ parked' = [parked EXCEPT ![g] = NotParked]
    BY <1>2, <1>4, BegunResumes
  <2>2. Spine(w, Append(ts, d), own, made, generators, parked)
    BY <1>2, <2>1, SpineBegins, Zenon
  <2>3. Spine(w, Append(ts, d), own, made, generators, parked')
    BY <2>1, <2>2, SpineTakes
  <2>4. own' = own /\ made' = made /\ generators' = generators
    BY <1>4 DEF Resume
  <2> QED BY <1>2, <2>3, <2>4 DEF SpineInv
<1> QED BY <1>1, <1>3, <1>4 DEF CallsBack

-----------------------------------------------------------------------------
(* Every execution is in order, from the first step to the last.           *)

LEMMA SpineStarts ==
    ASSUME Init
    PROVE  SpineInv
<1>1. PICK regs, c, v, env :
         /\ env = [of |-> 1, level |-> 0]
         /\ regs = [NoRegisters EXCEPT !.env.of = 1, !.var = 1, !.this = 1]
         /\ c = [NoCode EXCEPT !.of = 1] /\ v = vm
  OBVIOUS
<1>2. /\ v = [stack |-> <<>>, handlers |-> <<>>, frames |-> <<>>, references |-> <<>>,
              regs |-> regs, escaped |-> FALSE, thrown |-> FALSE, current |-> c,
              floor |-> [handlers |-> 0, frames |-> 0]]
      /\ rust = <<>> /\ own = [a \in Ids |-> [kind |-> "script", regs |-> regs]]
      /\ made = 1 /\ generators = {} /\ parked = [a \in Ids |-> NotParked]
  BY <1>1 DEF Init
<1>3. 1 \in Ids /\ 1 \in 0..MaxActivations
  BY ActivationAssumption DEF Ids
<1>4. regs \in Registers /\ regs.env = env
  <2>1. PICK realm : realm = CHOOSE r \in Realms : TRUE
    OBVIOUS
  <2>2. realm \in Realms
    BY <2>1, ActivationAssumption
  <2>3. regs = [env |-> env, var |-> 1, this |-> 1, target |-> 0, realm |-> realm]
    BY <1>1, <2>1 DEF NoRegisters, Nobody
  <2>4. env \in Environment
    BY <1>1, <1>3 DEF Environment
  <2> QED BY <2>2, <2>3, <2>4 DEF Registers
<1>5. c \in Code /\ c.of = 1 /\ c.open = <<>> /\ ~c.preparing
  <2>1. PICK b \in BOOLEAN : b = FALSE
    OBVIOUS
  <2>2. c = [of |-> 1, open |-> <<>>, preparing |-> b]
    BY <1>1, <2>1 DEF NoCode
  <2> QED BY <1>3, <2>1, <2>2 DEF Code
<1>6. v \in Vms
  <2>1. PICK b \in BOOLEAN, fl \in Floors, e \in BOOLEAN :
           b = FALSE /\ e = FALSE /\ fl = [handlers |-> 0, frames |-> 0]
    BY DEF Floors
  <2>2. v = [stack |-> <<>>, handlers |-> <<>>, frames |-> <<>>, references |-> <<>>,
             regs |-> regs, escaped |-> b, thrown |-> e, current |-> c, floor |-> fl]
    BY <1>2, <2>1
  <2> QED BY <1>4, <1>5, <2>2 DEF Vms
<1>7. /\ v.stack = <<>> /\ v.handlers = <<>> /\ v.frames = <<>> /\ v.current = c
      /\ v.regs = regs /\ v.floor.handlers = 0 /\ v.floor.frames = 0
  BY <1>2
<1>8. own \in Owners /\ own[1].kind = "script"
  <2>1. PICK x : x = [kind |-> "script", regs |-> regs]
    OBVIOUS
  <2>2. x \in [kind : Kinds, regs : Registers] /\ x.kind = "script"
    BY <1>4, <2>1 DEF Kinds
  <2> QED BY <1>2, <1>3, <2>1, <2>2 DEF Owners
<1>9. PICK top \in Nat, chunk \in BOOLEAN : top = 0 /\ chunk = TRUE
  OBVIOUS
<1>10. MarksInOrder(v, top)
  BY <1>7, <1>9 DEF MarksInOrder
<1>11. Fine(v, top, chunk, own, made)
  <2>1. /\ v \in Vms /\ top = Len(v.stack) /\ v.floor.frames = Len(v.frames)
        /\ v.floor.handlers = Len(v.handlers) /\ v.current.of \in 1..made
        /\ v.current.open = <<>> /\ ~v.current.preparing
        /\ own[v.current.of].kind \notin Bodies
        /\ v.regs.env = [of |-> v.current.of, level |-> 0]
    <3>1. made = 1 /\ 1 \in 1..1
      BY <1>2
    <3>2. "script" \notin Bodies
      BY DEF Bodies
    <3>3. Len(<<>>) = 0
      OBVIOUS
    <3>4. v.regs.env = [of |-> v.current.of, level |-> 0]
      BY <1>1, <1>4, <1>5, <1>7
    <3> QED BY <1>5, <1>6, <1>7, <1>8, <1>9, <3>1, <3>2, <3>3, <3>4
  <2> QED BY ONLY <1>9, <1>10, <2>1, ChunkStarts
<1>12. v.current # NoCode
  BY <1>5, <1>7 DEF NoCode, Nobody
<1>13. TopIsFine(v, rust, own, made)
  <2>1. EntryOf(rust, Len(rust)) = top /\ ChunkOf(rust, Len(rust)) = chunk
    BY <1>2, <1>9 DEF EntryOf, ChunkOf
  <2> QED BY <1>11, <1>12, <2>1 DEF TopIsFine
<1>14. Calling(v, rust)
  BY <1>2 DEF Calling, InControl
<1>15. DOMAIN rust = {} /\ \A g \in Ids : parked[g] = NotParked
  BY <1>2
<1>16. parked \in [Ids -> Shelves \cup {NotParked}]
  BY <1>2
<1>17. made \in Ids /\ generators \subseteq 1..made
  BY <1>2, <1>3
<1>18. Spine(v, rust, own, made, generators, parked)
  BY <1>6, <1>8, <1>13, <1>14, <1>15, <1>16, <1>17 DEF Spine
<1> QED BY <1>1, <1>18 DEF SpineInv

LEMMA SpineStays ==
    ASSUME SpineInv, [Next]_vars
    PROVE  SpineInv'
<1>1. CASE Step
  <2>1. UNCHANGED <<rust, own, made, objects>>
    BY <1>1 DEF Step
  <2>2. CASE PushScope \/ PushHandler \/ PushOperand \/ ResolveName
    <3>1. Executing
      BY <2>2 DEF PushScope, PushHandler, PushOperand, ResolveName, MayOpen
    <3> QED BY <2>1, <2>2, <3>1, SpineOpens
  <2>3. CASE Close
    BY <2>1, <2>3, SpineCloses
  <2> QED BY <1>1, <2>2, <2>3 DEF Step
<1>2. CASE UNCHANGED vars
  BY <1>2 DEF SpineInv, vars, objects
<1> QED BY <1>1, <1>2, SpineThrow, SpineCall, SpineTailCall, SpineReturn, SpineChunkEnds,
           SpineStartsGenerator, SpineYields, SpineResumes, SpineConvert, SpineCallNative,
           SpineCallsBack, SpineNativeAnswers, SpineNativeThrows, SpineEval, SpineEnds DEF Next

LEMMA SpineMarks ==
    ASSUME SpineInv
    PROVE  \E E : MarksInOrder(vm, E) /\ vm \in Vms
<1>1. Spine(vm, rust, own, made, generators, parked) /\ vm \in Vms
  BY DEF SpineInv, Spine
<1>2. CASE ~InControl(rust)
  BY <1>1, <1>2, TopMarks
<1>3. CASE InControl(rust)
  <2>1. rust # <<>> /\ ~Last(rust).running
    BY <1>3 DEF InControl
  <2>2. PICK n, call, u, ts : Returns(vm, rust, n, call, u, ts, own, made, generators, parked)
    BY <1>1, <2>1, Returning
  <2>3. /\ u.stack = vm.stack /\ u.frames = vm.frames /\ u.handlers = vm.handlers
        /\ u.floor = vm.floor /\ Spine(u, ts, own, made, generators, parked)
        /\ u.current # NoCode
    BY <2>1, <2>2 DEF Returns
  <2>4. MarksInOrder(u, EntryOf(ts, Len(ts)))
    BY <2>3, TopFine DEF Fine
  <2>5. MarksInOrder(vm, EntryOf(ts, Len(ts)))
    BY <2>3, <2>4 DEF MarksInOrder
  <2> QED BY <1>1, <2>5
<1> QED BY <1>2, <1>3

LEMMA SpineIsOwn ==
    ASSUME SpineInv
    PROVE  StacksAreOwn
<1>1. ASSUME Executing
      PROVE  /\ vm.regs.env = [of |-> Here.of, level |-> Blocks(Here.open)]
             /\ OperandsFit(vm.stack, Here, BaseOf, Len(vm.stack))
             /\ HandlersFit(vm.handlers, Here, Len(vm.frames), HandlersBaseOf,
                            BaseOf, Len(vm.handlers))
  <2>1. PICK v, rs, E, C, o, m : AtWork(v, rs, E, C, o, m)
    BY <1>1, Working
  <2>2. /\ v = vm /\ rs = rust /\ E = EntryOf(rs, Len(rs)) /\ Fine(v, E, C, o, m)
        /\ E \in Nat /\ C \in BOOLEAN /\ m \in Nat /\ v \in Vms
        /\ v.frames \in Seq(Frames)
        /\ rs \in Seq(Waits)
    BY <2>1, VmTypes DEF AtWork, Spine, Calling
  <2>3. PICK D, base, hbase : Runs(v, E, o, m, D, base, hbase)
    BY <2>2, FineTop
  <2>4. /\ D \in Nat /\ D = Len(v.frames) /\ D >= v.floor.frames
        /\ base = BaseAt(v, E, D) /\ hbase = HandlersBaseAt(v, D)
        /\ Level(v.current, v.regs.env, v.stack, v.handlers, D,
                 base, Len(v.stack), hbase, Len(v.handlers))
    BY <2>3 DEF Runs
  <2>5. InBody <=> D > v.floor.frames
    BY <2>1, <2>4, BodyAbove
  <2>6. v.floor.frames \in Nat
    BY <2>2, VmTypes
  <2>7. base = BaseOf
    <3>1. CASE InBody
      <4>1. base = v.frames[D].stack_base
        BY <2>4, <2>5, <2>6, <3>1 DEF BaseAt
      <4> QED BY <2>2, <2>4, <3>1, <4>1 DEF BaseOf, Last
    <3>2. CASE ~InBody
      <4>1. base = E
        BY <2>4, <2>5, <2>6, <3>2 DEF BaseAt
      <4>2. rs = <<>> <=> Len(rs) = 0
        BY <2>2
      <4> QED BY <2>2, <3>2, <4>1, <4>2 DEF BaseOf, EntryOf, Last
    <3> QED BY <3>1, <3>2
  <2>8. hbase = HandlersBaseOf
    <3>1. CASE InBody
      <4>1. hbase = v.frames[D].handlers_base
        BY <2>4, <2>5, <2>6, <3>1 DEF HandlersBaseAt
      <4> QED BY <2>2, <2>4, <3>1, <4>1 DEF HandlersBaseOf, Last
    <3>2. CASE ~InBody
      <4>1. hbase = v.floor.handlers
        BY <2>4, <2>5, <2>6, <3>2 DEF HandlersBaseAt
      <4> QED BY <2>2, <3>2, <4>1 DEF HandlersBaseOf
    <3> QED BY <3>1, <3>2
  <2> QED BY <2>2, <2>4, <2>7, <2>8 DEF Level, EnvOf, Here
<1>2. MarksBelowTops
  <2>1. PICK E : MarksInOrder(vm, E) /\ vm \in Vms
    BY SpineMarks
  <2>2. PICK f, h, n : /\ f = vm.frames /\ h = vm.handlers /\ n = Len(f) /\ n \in Nat
                       /\ DOMAIN f = 1..n
    <3>1. vm.frames \in Seq(Frames)
      BY <2>1, VmTypes
    <3> QED BY <3>1
  <2>3. \A i \in DOMAIN f : f[i].stack_base <= Len(vm.stack) /\ f[i].handlers_base <= Len(h)
    BY <2>1, <2>2 DEF MarksInOrder
  <2>4. \A i \in DOMAIN f : i > 1 => /\ f[i-1].stack_base <= f[i].stack_base
                                     /\ f[i-1].handlers_base <= f[i].handlers_base
    <3>1. \A i \in DOMAIN f : i > 1 => i - 1 \in DOMAIN f /\ i - 1 < i
      BY <2>2
    <3>2. \A i, j \in DOMAIN f : i < j => /\ f[i].stack_base <= f[j].stack_base
                                          /\ f[i].handlers_base <= f[j].handlers_base
      BY <2>1, <2>2 DEF MarksInOrder
    <3> QED BY <3>1, <3>2
  <2>5. \A j \in DOMAIN h : h[j].frames <= Len(f) /\ h[j].depth <= Len(vm.stack)
    BY <2>1, <2>2 DEF MarksInOrder
  <2>6. vm.floor.frames <= Len(f) /\ vm.floor.handlers <= Len(h)
    BY <2>1, <2>2 DEF MarksInOrder
  <2>7. \A i \in DOMAIN rust : /\ rust[i].entry <= Len(vm.stack)
                               /\ rust[i].floor.frames <= vm.floor.frames
                               /\ rust[i].floor.handlers <= vm.floor.handlers
    BY DEF SpineInv, Spine, Calling
  <2> QED BY <2>2, <2>3, <2>4, <2>5, <2>6, <2>7 DEF MarksBelowTops
<1> QED BY <1>1, <1>2 DEF StacksAreOwn, EnvironmentIsOwn, OperandsAreOwn, HandlersAreOwn

(* However the code got to where it stands - a call, a return, a throw, a  *)
(* resumption, a conversion's end - its environment, its operands and its  *)
(* handlers are its own, and no mark is above its stack (vm/call.rs,       *)
(* vm/execute.rs, vm/suspend.rs).                                          *)
THEOREM StacksStayOwn == Spec => []StacksAreOwn
<1>1. Init => SpineInv
  BY SpineStarts
<1>2. SpineInv /\ [Next]_vars => SpineInv'
  BY SpineStays
<1>3. SpineInv => StacksAreOwn
  BY SpineIsOwn
<1> QED BY <1>1, <1>2, <1>3, PTL DEF Spec
=============================================================================
