------------------------- MODULE AsyncGeneratorProofs -------------------------
(***************************************************************************)
(* For every number of requests and awaits: the types of AsyncGenerator,   *)
(* that the queue tells where the body stands, and that its callers get    *)
(* one answer each, in the order they asked, as RequestService has it.     *)
(* The last two as long as no accessor resumes a body that has just        *)
(* yielded (MayIntrude = FALSE): with such an accessor neither holds.      *)
(***************************************************************************)
EXTENDS AsyncGenerator, SequenceTheorems, TLAPS

(* The requests that wait are the ones asked and not answered, in order.   *)
Replies == {"yielded", "returned", "rejected", "undefined", "argument",
            "rejectedWithArgument"}
Asks == [id : Nat, kind : Kinds]
QueueIsRest ==
    /\ queue \in Seq(Asks)
    /\ asked \in Seq(Kinds) /\ Len(asked) <= MaxRequests
    /\ answered \in Seq([to : Nat, with : Replies])
    /\ Len(asked) = Len(answered) + Len(queue)
    /\ \A i \in DOMAIN queue : /\ queue[i].id = Len(answered) + i
                               /\ queue[i].kind = asked[Len(answered) + i]
    /\ \A i \in DOMAIN answered : answered[i].to = i

Has(code) == code \in ToSet(control)
Once(stack, code) ==
    \A i, j \in DOMAIN stack : stack[i] = code /\ stack[j] = code => i = j
IsStack(stack) ==
    stack \in Seq(Codes) /\ Once(stack, "body") /\ Once(stack, "serve")

(* Where the body is, one of six.                                          *)
NotBegun == /\ began = "fresh" /\ asked = <<>> /\ parked = AtStart /\ awaited = {}
            /\ ~Has("body") /\ ~Has("serve") /\ ~Has("drain")
ThrownPast == /\ began = "throw" /\ queue # <<>> /\ parked = NotParked /\ awaited = {}
              /\ ~Has("body") /\ ~Has("serve") /\ ~Has("drain")
Over == /\ began \in {"next", "return"} /\ parked = NotParked /\ awaited = {}
        /\ ~Has("body") /\ ~Has("serve")
        /\ queue # <<>> => Has("drain")
Runs == /\ began = "next" /\ parked = NotParked /\ awaited = {} /\ queue # <<>>
        /\ Executes("body") /\ ~Has("serve") /\ ~Has("drain")
InYield == /\ began = "next" /\ parked = AtYield /\ awaited = {}
           /\ ~Has("body") /\ ~Has("drain")
           /\ queue # <<>> => Has("serve")
InAwait == /\ began = "next" /\ parked = AtAwait(made) /\ awaited = {made}
           /\ made >= 1 /\ queue # <<>>
           /\ ~Has("body") /\ ~Has("serve") /\ ~Has("drain")
Begun == Runs \/ InYield \/ InAwait
Stands == NotBegun \/ ThrownPast \/ Over \/ Begun

GeneratorInv ==
    /\ QueueIsRest
    /\ made \in 0..MaxAwaits
    /\ IsStack(control)
    /\ Stands

-----------------------------------------------------------------------------
(* The Rust stack and what a push and a pop do to it.                      *)
LEMMA Pushed ==
    ASSUME NEW stack \in Seq(Codes), NEW x \in Codes
    PROVE  /\ Append(stack, x) \in Seq(Codes)
           /\ Append(stack, x) # <<>> /\ Last(Append(stack, x)) = x
           /\ \A y : y \in ToSet(Append(stack, x)) <=> y \in ToSet(stack) \/ y = x
           /\ \A y : Once(stack, y) /\ (y = x => x \notin ToSet(stack))
                     => Once(Append(stack, x), y)
<1> DEFINE c == Append(stack, x)
<1>1. /\ c \in Seq(Codes) /\ Len(c) = Len(stack) + 1 /\ c[Len(c)] = x /\ c # <<>>
      /\ DOMAIN c = DOMAIN stack \cup {Len(c)} /\ Len(c) \notin DOMAIN stack
      /\ \A i \in DOMAIN stack : c[i] = stack[i]
  OBVIOUS
<1> HIDE DEF c
<1>2. Last(c) = x
  BY <1>1 DEF Last
<1>3. \A y : y \in ToSet(c) <=> y \in ToSet(stack) \/ y = x
  BY <1>1 DEF ToSet
<1>4. ASSUME NEW y, Once(stack, y), y = x => x \notin ToSet(stack)
      PROVE  Once(c, y)
  BY <1>1, <1>4 DEF Once, ToSet
<1>5. /\ c \in Seq(Codes) /\ c # <<>> /\ Last(c) = x
      /\ \A y : y \in ToSet(c) <=> y \in ToSet(stack) \/ y = x
      /\ \A y : Once(stack, y) /\ (y = x => x \notin ToSet(stack)) => Once(c, y)
  BY <1>1, <1>2, <1>3, <1>4
<1> QED BY <1>5 DEF c

LEMMA Popped ==
    ASSUME NEW stack \in Seq(Codes), stack # <<>>
    PROVE  /\ Front(stack) \in Seq(Codes)
           /\ \A y : y \in ToSet(stack) <=> y \in ToSet(Front(stack)) \/ y = Last(stack)
           /\ \A y : Once(stack, y) => Once(Front(stack), y)
           /\ Once(stack, Last(stack)) => Last(stack) \notin ToSet(Front(stack))
<1> DEFINE c == Front(stack)
<1>1. Len(stack) \in Nat /\ Len(stack) > 0 /\ DOMAIN stack = 1..Len(stack)
  OBVIOUS
<1>2. /\ c \in Seq(Codes) /\ Len(c) = Len(stack) - 1
      /\ \A i \in 1..Len(stack) - 1 : c[i] = stack[i]
  BY <1>1 DEF Front
<1>3. /\ DOMAIN stack = DOMAIN c \cup {Len(stack)} /\ Len(stack) \notin DOMAIN c
      /\ \A i \in DOMAIN c : c[i] = stack[i]
  BY <1>1, <1>2
<1> HIDE DEF c
<1>4. \A y : y \in ToSet(stack) <=> y \in ToSet(c) \/ y = Last(stack)
  BY <1>3, Zenon DEF ToSet, Last
<1>5. \A y : Once(stack, y) => Once(c, y)
  BY <1>3, Zenon DEF Once
<1>6. Once(stack, Last(stack)) => Last(stack) \notin ToSet(c)
  BY <1>3, Zenon DEF Once, ToSet, Last
<1>7. /\ c \in Seq(Codes)
      /\ \A y : y \in ToSet(stack) <=> y \in ToSet(c) \/ y = Last(stack)
      /\ \A y : Once(stack, y) => Once(c, y)
      /\ Once(stack, Last(stack)) => Last(stack) \notin ToSet(c)
  BY <1>2, <1>4, <1>5, <1>6
<1> QED BY <1>7 DEF c

LEMMA StackPushed ==
    ASSUME NEW stack, IsStack(stack), NEW x \in Codes,
           x \in {"body", "serve"} => x \notin ToSet(stack)
    PROVE  /\ IsStack(Append(stack, x))
           /\ Append(stack, x) # <<>> /\ Last(Append(stack, x)) = x
           /\ \A y : y \in ToSet(Append(stack, x)) <=> y \in ToSet(stack) \/ y = x
<1> QED BY Pushed DEF IsStack

LEMMA StackPopped ==
    ASSUME NEW stack, IsStack(stack), stack # <<>>
    PROVE  /\ IsStack(Front(stack))
           /\ \A y : y \in ToSet(stack) <=> y \in ToSet(Front(stack)) \/ y = Last(stack)
           /\ Last(stack) \in {"body", "serve"} => Last(stack) \notin ToSet(Front(stack))
<1> QED BY Popped DEF IsStack

(* A request at the end of the queue, and an answer to the one in front.   *)
LEMMA Enqueued ==
    ASSUME QueueIsRest, NEW kind \in Kinds, Enqueue(kind), answered' = answered,
           Len(asked) < MaxRequests
    PROVE  QueueIsRest' /\ queue' # <<>> /\ asked' # <<>>
<1> DEFINE r == [id |-> Len(asked) + 1, kind |-> kind]
<1>1. queue' = Append(queue, r) /\ asked' = Append(asked, kind) /\ answered' = answered
  BY DEF Enqueue
<1>2. /\ queue \in Seq(Asks) /\ asked \in Seq(Kinds)
      /\ answered \in Seq([to : Nat, with : Replies])
      /\ Len(asked) = Len(answered) + Len(queue)
      /\ Len(asked) \in Nat /\ Len(answered) \in Nat /\ Len(queue) \in Nat
  BY DEF QueueIsRest
<1>3. r \in Asks /\ r.id = Len(asked) + 1 /\ r.kind = kind
  BY <1>2 DEF Asks
<1> HIDE DEF r
<1>4. /\ queue' \in Seq(Asks) /\ queue' # <<>>
      /\ Len(queue') = Len(queue) + 1 /\ queue'[Len(queue) + 1] = r
      /\ \A i \in DOMAIN queue : queue'[i] = queue[i]
      /\ \A i \in DOMAIN queue' : i \in DOMAIN queue \/ i = Len(queue) + 1
  BY <1>1, <1>2, <1>3, SMTT(30)
<1>5. /\ asked' \in Seq(Kinds) /\ asked' # <<>> /\ Len(asked') = Len(asked) + 1
      /\ asked'[Len(asked) + 1] = kind
      /\ \A i \in 1..Len(asked) : asked'[i] = asked[i]
  <2>1. kind \in Kinds /\ asked \in Seq(Kinds) /\ asked' = Append(asked, kind)
    BY <1>1, <1>2
  <2> HIDE DEF Kinds
  <2>2. /\ asked' \in Seq(Kinds) /\ asked' # <<>> /\ Len(asked') = Len(asked) + 1
        /\ asked'[Len(asked) + 1] = kind
        /\ \A i \in 1..Len(asked) : asked'[i] = asked[i]
    BY ONLY <2>1, AppendProperties
  <2> QED BY <2>2
<1>6. \A i \in DOMAIN queue : Len(answered) + i \in 1..Len(asked)
  BY <1>2
<1>7. \A i \in DOMAIN queue' : /\ queue'[i].id = Len(answered) + i
                               /\ queue'[i].kind = asked'[Len(answered) + i]
  BY <1>2, <1>3, <1>4, <1>5, <1>6, SMTT(30) DEF QueueIsRest
<1>8. Len(asked') <= MaxRequests /\ Len(asked') = Len(answered) + Len(queue')
  BY <1>2, <1>4, <1>5, AsyncGeneratorAssumption
<1> QED BY <1>1, <1>2, <1>4, <1>5, <1>7, <1>8 DEF QueueIsRest

LEMMA Settled ==
    ASSUME QueueIsRest, queue # <<>>, NEW answer \in Replies, SettleFront(answer),
           asked' = asked
    PROVE  /\ QueueIsRest'
           /\ \E r : answered' = Append(answered, r) /\ r.with = answer
           /\ Head(queue).kind = asked[Len(answered) + 1]
           /\ Len(answered) < Len(asked)
<1> DEFINE r == [to |-> Head(queue).id, with |-> answer]
<1>1. queue' = Tail(queue) /\ answered' = Append(answered, r) /\ asked' = asked
  BY DEF SettleFront
<1>2. /\ queue \in Seq(Asks) /\ asked \in Seq(Kinds)
      /\ answered \in Seq([to : Nat, with : Replies])
      /\ Len(asked) = Len(answered) + Len(queue)
      /\ Len(asked) \in Nat /\ Len(answered) \in Nat /\ Len(queue) \in Nat
  BY DEF QueueIsRest
<1>3. 1 \in DOMAIN queue /\ Head(queue) = queue[1] /\ Len(queue) >= 1
  BY <1>2
<1>4. /\ Head(queue).id = Len(answered) + 1
      /\ Head(queue).kind = asked[Len(answered) + 1]
  BY <1>3 DEF QueueIsRest
<1>5. r \in [to : Nat, with : Replies] /\ r.to = Len(answered) + 1 /\ r.with = answer
  BY <1>2, <1>4
<1> HIDE DEF r
<1>6. /\ queue' \in Seq(Asks) /\ Len(queue') = Len(queue) - 1
      /\ \A i \in DOMAIN queue' : i + 1 \in DOMAIN queue /\ queue'[i] = queue[i + 1]
  BY <1>1, <1>2, <1>3
<1>7. /\ answered' \in Seq([to : Nat, with : Replies]) /\ Len(answered') = Len(answered) + 1
      /\ answered'[Len(answered) + 1] = r
      /\ \A i \in DOMAIN answered : answered'[i] = answered[i]
      /\ \A i \in DOMAIN answered' : i \in DOMAIN answered \/ i = Len(answered) + 1
  BY <1>1, <1>2, <1>5
<1>8. \A i \in DOMAIN answered' : answered'[i].to = i
  BY <1>5, <1>7 DEF QueueIsRest
<1>9. \A i \in DOMAIN queue' : /\ queue'[i].id = Len(answered') + i
                               /\ queue'[i].kind = asked'[Len(answered') + i]
  <2> SUFFICES ASSUME NEW i \in DOMAIN queue'
               PROVE  /\ queue'[i].id = Len(answered') + i
                      /\ queue'[i].kind = asked'[Len(answered') + i]
    OBVIOUS
  <2>1. /\ queue'[i] = queue[i + 1] /\ i + 1 \in DOMAIN queue
        /\ Len(answered') + i = Len(answered) + (i + 1)
    <3>1. i \in Nat /\ queue'[i] = queue[i + 1] /\ i + 1 \in DOMAIN queue
      BY <1>6
    <3>2. \A a, n \in Nat : (a + 1) + n = a + (n + 1)
      OBVIOUS
    <3> QED BY <1>2, <1>7, <3>1, <3>2
  <2> QED BY <1>1, <2>1 DEF QueueIsRest
<1>10. /\ Len(asked') = Len(answered') + Len(queue')
       /\ Len(asked') <= MaxRequests
       /\ Len(answered) < Len(asked)
  <2>1. Len(asked') <= MaxRequests
    BY <1>1 DEF QueueIsRest
  <2>2. /\ Len(asked') = Len(answered) + Len(queue)
        /\ Len(answered') = Len(answered) + 1
        /\ Len(queue') = Len(queue) - 1
        /\ Len(queue) >= 1
    BY <1>1, <1>2, <1>3, <1>6, <1>7
  <2>3. Len(asked) = Len(answered) + Len(queue)
    BY <1>2
  <2>4. Len(asked') = Len(asked)
    BY <1>1
  <2>5. Len(answered) \in Nat /\ Len(queue) \in Nat
    BY <1>2
  <2>6. Len(asked') = Len(answered') + Len(queue')
    BY ONLY <2>2, <2>5
  <2>7. Len(answered) < Len(asked)
    BY ONLY <2>2, <2>3, <2>5
  <2> QED BY <2>1, <2>6, <2>7
<1>11. QueueIsRest'
  BY <1>1, <1>2, <1>6, <1>7, <1>8, <1>9, <1>10 DEF QueueIsRest
<1> QED BY <1>1, <1>4, <1>5, <1>10, <1>11

-----------------------------------------------------------------------------
(* Types, for every program, accessors that resume a yielded body too.     *)

Places == [at : {"nowhere", "start", "yield", "await"}, await : Nat]
TypesInv ==
    /\ QueueIsRest
    /\ made \in 0..MaxAwaits
    /\ parked \in Places /\ parked.await <= made /\ awaited \subseteq 1..made
    /\ began \in Kinds \cup {"fresh"}
    /\ control \in Seq(Codes) /\ Once(control, "body")
    /\ Has("body") => parked = NotParked

LEMMA PlacesAre ==
    /\ NotParked \in Places /\ AtStart \in Places /\ AtYield \in Places
    /\ NotParked.await = 0 /\ AtStart.await = 0 /\ AtYield.await = 0
    /\ \A n \in Nat : AtAwait(n) \in Places /\ AtAwait(n).await = n
<1> QED BY DEF NotParked, AtStart, AtYield, AtAwait, Places

LEMMA InitTypes == Init => TypesInv
<1> SUFFICES ASSUME Init PROVE TypesInv
  OBVIOUS
<1>1. QueueIsRest
  BY AsyncGeneratorAssumption DEF Init, QueueIsRest
<1>2. control \in Seq(Codes) /\ Once(control, "body") /\ ~Has("body")
  BY DEF Init, Once, Has, ToSet
<1> QED BY <1>1, <1>2, PlacesAre, AsyncGeneratorAssumption DEF Init, TypesInv

(* Where a step leaves the body is all that its types ask of it.           *)
LEMMA Moved ==
    ASSUME TypesInv, QueueIsRest', UNCHANGED made, awaited' \subseteq awaited,
           began' \in Kinds \cup {"fresh"},
           control' \in Seq(Codes), Once(control, "body")',
           \/ parked' = NotParked
           \/ parked' \in {parked, AtYield} /\ ~Has("body")'
           \/ parked' = parked /\ (Has("body")' => Has("body"))
    PROVE  TypesInv'
<1>1. made' \in 0..MaxAwaits /\ awaited' \subseteq 1..made' /\ made \in Nat
  BY AsyncGeneratorAssumption DEF TypesInv
<1>2. parked' \in Places /\ parked'.await <= made'
  BY <1>1, PlacesAre DEF TypesInv
<1>3. Has("body")' => parked' = NotParked
  BY DEF TypesInv
<1> QED BY <1>1, <1>2, <1>3 DEF TypesInv

(* The stack after an answer, whether or not there was somebody to answer. *)
LEMMA DeliveredTypes ==
    ASSUME TypesInv, NEW answer \in Replies, NEW stack \in Seq(Codes), Once(stack, "body"),
           Deliver(answer, stack), asked' = asked
    PROVE  /\ QueueIsRest' /\ control' \in Seq(Codes) /\ Once(control, "body")'
           /\ Has("body")' <=> "body" \in ToSet(stack)
<1>1. QueueIsRest'
  <2>1. CASE queue = <<>>
    BY <2>1 DEF Deliver, SettleFront, TypesInv, QueueIsRest
  <2>2. CASE queue # <<>>
    BY <2>2, Settled DEF Deliver, TypesInv
  <2> QED BY <2>1, <2>2
<1>2. "script" \in Codes /\ "body" # "script"
  BY DEF Codes
<1>3. control' = stack \/ control' = Append(stack, "script")
  BY DEF Deliver
<1> QED BY <1>1, <1>2, <1>3, Pushed, ZenonT(60) DEF Has

(* A completion handed to a body that is parked.                           *)
LEMMA ServedTypes ==
    ASSUME TypesInv, NEW kind, NEW rest \in Seq(Codes), Once(rest, "body"),
           "body" \notin ToSet(rest), Serve(kind, rest)
    PROVE  /\ parked' = NotParked /\ control' \in Seq(Codes) /\ Once(control, "body")'
<1>1. /\ "body" \in Codes /\ "drain" \in Codes /\ "drain" # "body"
  BY DEF Codes
<1>2. /\ parked' = NotParked
      /\ control' \in {rest, Append(rest, "body"), Append(rest, "drain")}
  BY DEF Serve
<1>3. \A x \in {"body", "drain"} :
        Append(rest, x) \in Seq(Codes) /\ Once(Append(rest, x), "body")
  BY <1>1, Pushed
<1> QED BY <1>2, <1>3

LEMMA NextTypes == TypesInv /\ [Next]_vars => TypesInv'
<1> SUFFICES ASSUME TypesInv, [Next]_vars PROVE TypesInv'
  OBVIOUS
<1>1. control \in Seq(Codes) /\ Once(control, "body") /\ QueueIsRest
  BY DEF TypesInv
<1>2. \A code : Executes(code) =>
                  /\ control # <<>> /\ Has(code) /\ Front(control) \in Seq(Codes)
                  /\ Once(Front(control), "body")
                  /\ "body" \in ToSet(Front(control)) => Has("body") /\ code # "body"
  BY <1>1, Popped DEF Executes, Has
<1>3. /\ "script" \in Codes /\ "body" \in Codes /\ "serve" \in Codes /\ "drain" \in Codes
      /\ "script" # "body" /\ "serve" # "body" /\ "drain" # "body"
  BY DEF Codes
<1>4. began \in Kinds \cup {"fresh"}
  BY DEF TypesInv
<1>5. UNCHANGED <<queue, asked, answered>> => QueueIsRest'
  BY <1>1 DEF QueueIsRest
<1>6. CASE BeginScript
  <2>1. control' = Append(control, "script") /\ UNCHANGED <<objects, awaited, made, history>>
    BY <1>6 DEF BeginScript
  <2>2. control' \in Seq(Codes) /\ Once(control, "body")' /\ (Has("body")' => Has("body"))
    BY <1>1, <1>3, <2>1, Pushed DEF Has
  <2> QED BY <1>4, <1>5, <2>1, <2>2, Moved DEF objects, history
<1>7. CASE EndScript
  BY <1>2, <1>4, <1>5, <1>7, Moved DEF EndScript, objects, history, Has
<1>8. CASE \E kind \in Kinds : Ask(kind)
  <2>1. PICK kind \in Kinds : Ask(kind)
    BY <1>8
  <2>2. /\ Len(asked) < MaxRequests /\ Enqueue(kind)
        /\ began' \in Kinds \cup {"fresh"}
        /\ UNCHANGED <<awaited, made, answered>>
    BY <1>4, <2>1 DEF Ask
  <2>3. QueueIsRest'
    BY <1>1, <2>2, Enqueued
  <2>4. CASE UNCHANGED <<parked, control>>
    BY <1>1, <2>2, <2>3, <2>4, Moved DEF Has
  <2>5. CASE ~AnythingAhead /\ Serve(kind, control)
    <3>1. "body" \notin ToSet(control)
      BY <2>5 DEF AnythingAhead, Live
    <3> QED BY <1>1, <2>2, <2>3, <2>5, <3>1, ServedTypes, Moved
  <2>6. CASE control' = Append(control, "drain") /\ UNCHANGED parked
    <3>1. control' \in Seq(Codes) /\ Once(control, "body")' /\ (Has("body")' => Has("body"))
      BY <1>1, <1>3, <2>6, Pushed DEF Has
    <3> QED BY <2>2, <2>3, <2>6, <3>1, Moved
  <2> QED BY <2>1, <2>4, <2>5, <2>6 DEF Ask
<1>9. CASE ServeQueued
  <2> DEFINE rest == Front(control)
  <2>1. /\ rest \in Seq(Codes) /\ Once(rest, "body")
        /\ "body" \in ToSet(rest) => Has("body")
        /\ UNCHANGED <<queue, awaited, made, history>>
    BY <1>2, <1>9 DEF ServeQueued
  <2>2. \/ control' = rest /\ UNCHANGED parked
        \/ control' = Append(rest, "drain") /\ UNCHANGED parked
        \/ parked # NotParked /\ Serve(Head(queue).kind, rest)
    BY <1>9 DEF ServeQueued
  <2> HIDE DEF rest
  <2>3. CASE control' = rest /\ UNCHANGED parked
    BY <1>4, <1>5, <2>1, <2>3, Moved DEF history, Has
  <2>4. CASE control' = Append(rest, "drain") /\ UNCHANGED parked
    <3>1. control' \in Seq(Codes) /\ Once(control, "body")' /\ (Has("body")' => Has("body"))
      BY <1>3, <2>1, <2>4, Pushed DEF Has
    <3> QED BY <1>4, <1>5, <2>1, <2>4, <3>1, Moved DEF history
  <2>5. CASE parked # NotParked /\ Serve(Head(queue).kind, rest)
    <3>1. "body" \notin ToSet(rest)
      BY <2>1, <2>5 DEF TypesInv
    <3> QED BY <1>4, <1>5, <2>1, <2>5, <3>1, ServedTypes, Moved DEF history
  <2> QED BY <2>2, <2>3, <2>4, <2>5
<1>10. CASE Drain
  <2>1. Executes("drain") /\ UNCHANGED <<parked, awaited, made, asked, began>>
    BY <1>10 DEF Drain
  <2>2. CASE queue = <<>>
    BY <1>2, <1>4, <1>5, <1>10, <2>1, <2>2, Moved DEF Drain, Has
  <2>3. CASE queue # <<>>
    <3> DEFINE answer == ByRote(Head(queue).kind)
    <3>1. Deliver(answer, control)
      BY <1>10, <2>3 DEF Drain
    <3>2. queue \in Seq(Asks)
      BY <1>1 DEF QueueIsRest
    <3>3. Head(queue) \in Asks
      BY <2>3, <3>2
    <3>4. answer \in Replies
      BY <3>3 DEF Asks, Kinds, ByRote, Replies
    <3> HIDE DEF answer
    <3> QED BY <1>1, <1>4, <2>1, <3>1, <3>4, DeliveredTypes, Moved DEF Has
  <2> QED BY <2>2, <2>3
<1>11. CASE Yield
  <2> DEFINE stack == Append(Front(control), "serve")
  <2>1. /\ Executes("body") /\ parked' = AtYield /\ Deliver("yielded", stack)
        /\ UNCHANGED <<awaited, made, asked, began>>
    BY <1>11 DEF Yield
  <2>2. stack \in Seq(Codes) /\ Once(stack, "body") /\ "body" \notin ToSet(stack)
    BY <1>2, <1>3, <2>1, Pushed
  <2> HIDE DEF stack
  <2>3. "yielded" \in Replies
    BY DEF Replies
  <2> QED BY <1>4, <2>1, <2>2, <2>3, DeliveredTypes, Moved
<1>12. CASE Return \/ Reject
  <2> DEFINE stack == Append(Front(control), "drain")
  <2>1. PICK answer \in {"returned", "rejected"} : Finish(answer)
    BY <1>12 DEF Return, Reject
  <2>2. /\ Executes("body") /\ Deliver(answer, stack)
        /\ UNCHANGED <<parked, awaited, made, asked, began>>
    BY <2>1 DEF Finish
  <2>3. stack \in Seq(Codes) /\ Once(stack, "body") /\ "body" \notin ToSet(stack)
    BY <1>2, <1>3, <2>2, Pushed
  <2> HIDE DEF stack
  <2>4. answer \in Replies
    BY DEF Replies
  <2> QED BY <1>4, <2>2, <2>3, <2>4, DeliveredTypes, Moved
<1>13. CASE Await
  <2>1. /\ Executes("body") /\ made < MaxAwaits /\ made' = made + 1
        /\ parked' = AtAwait(made') /\ awaited' = awaited \cup {made'}
        /\ control' = Front(control) /\ UNCHANGED <<queue, asked, answered, began>>
    BY <1>13 DEF Await, history
  <2>2. /\ made \in 0..MaxAwaits /\ made' \in 0..MaxAwaits /\ made' \in Nat
        /\ awaited' \subseteq 1..made'
    BY <2>1, AsyncGeneratorAssumption DEF TypesInv
  <2>3. parked' \in Places /\ parked'.await <= made'
    BY <2>1, <2>2, PlacesAre
  <2>4. control' \in Seq(Codes) /\ Once(control, "body")' /\ ~Has("body")'
    BY <1>2, <2>1 DEF Has
  <2> QED BY <1>4, <1>5, <2>1, <2>2, <2>3, <2>4 DEF TypesInv
<1>14. CASE \E n \in awaited : Revive(n)
  <2>1. /\ control = <<>> /\ parked' = NotParked /\ awaited' \subseteq awaited
        /\ control' \in {<<>>, <<"body">>} /\ UNCHANGED <<queue, made, asked, answered, began>>
    BY <1>14 DEF Revive, history
  <2>2. /\ <<>> \in Seq(Codes) /\ Once(<<>>, "body")
        /\ <<"body">> \in Seq(Codes) /\ Once(<<"body">>, "body")
    BY <1>3 DEF Once
  <2>3. control' \in Seq(Codes) /\ Once(control, "body")'
    BY <2>1, <2>2
  <2> QED BY <1>4, <1>5, <2>1, <2>3, Moved
<1>15. CASE UNCHANGED vars
  BY <1>1, <1>4, <1>5, <1>15, Moved DEF vars, objects, history, Has
<1> QED BY <1>6, <1>7, <1>8, <1>9, <1>10, <1>11, <1>12, <1>13, <1>14, <1>15 DEF Next

(* Requests carry the names they were given, an await is one that was made *)
(* and a body is on the stack or parked, never both and never twice, even  *)
(* if accessors resume it behind the queue's back                          *)
(* (vm/async_generator.rs: the suspension is taken out to be run).         *)
THEOREM TypesHold == Spec => []TypeOK
<1>1. TypesInv => TypeOK
  <2> SUFFICES ASSUME TypesInv PROVE TypeOK
    OBVIOUS
  <2>1. queue \in Seq(Requests)
    <3>1. /\ queue \in Seq(Asks) /\ Len(queue) \in Nat
          /\ Len(asked) = Len(answered) + Len(queue)
          /\ Len(asked) \in Nat /\ Len(answered) \in Nat /\ Len(asked) <= MaxRequests
          /\ MaxRequests \in Nat
      BY AsyncGeneratorAssumption DEF TypesInv, QueueIsRest
    <3>2. \A i \in 1..Len(queue) : queue[i] \in Requests
      <4> SUFFICES ASSUME NEW i \in 1..Len(queue) PROVE queue[i] \in Requests
        OBVIOUS
      <4>1. queue[i] \in Asks
        BY <3>1
      <4>2. queue[i].id = Len(answered) + i
        BY <3>1 DEF TypesInv, QueueIsRest
      <4>3. queue[i].id \in Ids
        BY <3>1, <4>2 DEF Ids
      <4> QED BY <4>1, <4>3 DEF Requests, Asks
    <3>3. queue \in [1..Len(queue) -> Requests]
      BY <3>1, <3>2
    <3> QED BY <3>1, <3>3, SeqDef
  <2>2. parked \in [at : {"nowhere", "start", "yield", "await"}, await : 0..MaxAwaits]
    BY AsyncGeneratorAssumption DEF TypesInv, Places
  <2>3. awaited \subseteq 1..made /\ made \in 0..MaxAwaits
    BY DEF TypesInv
  <2>4. Len(asked) <= MaxRequests /\ Len(answered) <= Len(asked)
    <3>1. /\ Len(asked) <= MaxRequests
          /\ Len(asked) = Len(answered) + Len(queue)
          /\ Len(queue) \in Nat /\ Len(answered) \in Nat
      BY DEF TypesInv, QueueIsRest
    <3> QED BY <3>1
  <2>5. began \in Kinds \cup {"fresh"} /\ (Live => parked = NotParked)
    BY DEF TypesInv, Live, Has
  <2>6. /\ control \in Seq(Codes)
        /\ \A i, j \in DOMAIN control : control[i] = "body" /\ control[j] = "body" => i = j
    BY DEF TypesInv, Once
  <2> QED BY <2>1, <2>2, <2>3, <2>4, <2>5, <2>6 DEF TypeOK
<1> QED BY <1>1, InitTypes, NextTypes, PTL DEF Spec

-----------------------------------------------------------------------------
(* Where the body is, when no accessor gets in between.                    *)

(* An answer on its way: the promise is settled, and an accessor may be on *)
(* top of the stack.                                                       *)
LEMMA Delivered ==
    ASSUME QueueIsRest, queue # <<>>, NEW answer \in Replies, NEW stack, IsStack(stack),
           Deliver(answer, stack), asked' = asked
    PROVE  /\ QueueIsRest' /\ IsStack(control')
           /\ \A y : y # "script" => (y \in ToSet(control') <=> y \in ToSet(stack))
           /\ \E r : answered' = Append(answered, r) /\ r.with = answer
           /\ Head(queue).kind = asked[Len(answered) + 1]
           /\ Len(answered) < Len(asked)
<1>1. SettleFront(answer)
      /\ (control' = stack \/ control' = Append(stack, "script"))
  BY DEF Deliver
<1>2. CASE control' = stack
  BY <1>1, <1>2, Settled
<1>3. CASE control' = Append(stack, "script")
  <2>1. "script" \in Codes /\ "script" \notin {"body", "serve"}
    BY DEF Codes
  <2>2. /\ IsStack(control')
        /\ \A y : y \in ToSet(control') <=> y \in ToSet(stack) \/ y = "script"
    BY <1>3, <2>1, StackPushed
  <2> QED BY <1>1, <2>2, Settled
<1> QED BY <1>1, <1>2, <1>3

LEMMA BodyIsOnStack == ASSUME GeneratorInv, NEW code, Executes(code) PROVE Has(code)
<1> QED BY StackPopped DEF Executes, GeneratorInv, Has

LEMMA InitGenerator == Init => GeneratorInv
<1> SUFFICES ASSUME Init PROVE GeneratorInv
  OBVIOUS
<1>1. QueueIsRest
  BY AsyncGeneratorAssumption DEF Init, QueueIsRest
<1>2. IsStack(control) /\ \A code : ~Has(code)
  BY DEF Init, IsStack, Once, Has, ToSet
<1>3. NotBegun
  BY <1>2 DEF Init, NotBegun
<1> QED BY <1>1, <1>2, <1>3, AsyncGeneratorAssumption DEF Init, GeneratorInv, Stands

-----------------------------------------------------------------------------
(* Each step and where it leaves the body. *)

LEMMA BeginScriptKeeps == ASSUME GeneratorInv, BeginScript PROVE GeneratorInv'
<1>1. /\ control = <<>> /\ control' = Append(control, "script")
      /\ UNCHANGED <<queue, parked, awaited, made, asked, answered, began>>
  BY DEF BeginScript, objects, history
<1>2. IsStack(control)
  BY DEF GeneratorInv
<1>3. "script" \in Codes /\ "script" \notin {"body", "serve"}
  BY DEF Codes
<1>4. /\ IsStack(control')
      /\ \A y : y \in ToSet(control') <=> y \in ToSet(control) \/ y = "script"
  BY <1>1, <1>2, <1>3, StackPushed
<1>5. \A y : y # "script" => (Has(y)' <=> Has(y))
  BY <1>4 DEF Has
<1>6. ~Runs
  BY <1>1 DEF Runs, Executes
<1>7. Stands'
  BY <1>1, <1>5, <1>6 DEF GeneratorInv, Stands, NotBegun, ThrownPast, Over,
                       Begun, InYield, InAwait
<1>8. QueueIsRest'
  BY <1>1 DEF GeneratorInv, QueueIsRest
<1> QED BY <1>1, <1>4, <1>7, <1>8 DEF GeneratorInv

LEMMA EndScriptKeeps == ASSUME GeneratorInv, EndScript PROVE GeneratorInv'
<1>1. /\ control # <<>> /\ Last(control) = "script" /\ control' = Front(control)
      /\ UNCHANGED <<queue, parked, awaited, made, asked, answered, began>>
  BY DEF EndScript, Executes, objects, history
<1>2. /\ IsStack(control')
      /\ \A y : y \in ToSet(control) <=> y \in ToSet(control') \/ y = "script"
  BY <1>1, StackPopped DEF GeneratorInv
<1>3. \A y : y # "script" => (Has(y)' <=> Has(y))
  BY <1>2 DEF Has
<1>4. ~Runs
  BY <1>1 DEF Runs, Executes
<1>5. Stands'
  BY <1>1, <1>3, <1>4 DEF GeneratorInv, Stands, NotBegun, ThrownPast, Over,
                       Begun, InYield, InAwait
<1>6. QueueIsRest'
  BY <1>1 DEF GeneratorInv, QueueIsRest
<1> QED BY <1>1, <1>2, <1>5, <1>6 DEF GeneratorInv

(* A request: one that finds the body at rest starts it, or ends it.       *)
LEMMA AskKeeps ==
    ASSUME MayIntrude = FALSE, GeneratorInv, NEW kind \in Kinds, Ask(kind)
    PROVE  /\ GeneratorInv'
           /\ NotBegun => CASE kind = "next" -> Begun'
                            [] kind = "return" -> Over'
                            [] kind = "throw" -> ThrownPast'
           /\ ThrownPast => ThrownPast'
           /\ Over => Over'
           /\ Begun => Begun'
<1>1. /\ Executes("script") \/ Executes("body")
      /\ Len(asked) < MaxRequests /\ ~Intrudes /\ Enqueue(kind)
      /\ answered' = answered /\ awaited' = awaited /\ made' = made
      /\ began' = IF began # "fresh" THEN began ELSE kind
  BY DEF Ask
<1>2. QueueIsRest' /\ queue' # <<>> /\ asked' # <<>>
  BY <1>1, Enqueued DEF GeneratorInv
<1>3. IsStack(control) /\ made' \in 0..MaxAwaits
  BY <1>1 DEF GeneratorInv
<1>4. Executes("body") => Has("body")
  BY BodyIsOnStack
<1>5. /\ "body" \in Codes /\ "drain" \in Codes
      /\ "drain" \notin {"body", "serve"} /\ "body" # "drain" /\ "body" # "serve"
      /\ "serve" # "drain"
  BY DEF Codes
<1>6. ~Has("body") => \/ control' = control
                      \/ control' = Append(control, "body")
                      \/ control' = Append(control, "drain")
  BY <1>1 DEF Ask, Serve, Kinds
<1>7. CASE NotBegun
  <2>1. queue = <<>> /\ ~AnythingAhead
    BY <1>7 DEF NotBegun, GeneratorInv, QueueIsRest, AnythingAhead, Live, Has
  <2>2. Serve(kind, control)
    BY <1>7, <2>1 DEF Ask, NotBegun, AtStart, NotParked
  <2>3. began' = kind /\ parked' = NotParked /\ awaited' = {}
    BY <1>1, <1>7, <2>2 DEF NotBegun, Serve
  <2>4. CASE kind = "next"
    <3>1. control' = Append(control, "body")
      BY <2>2, <2>4 DEF Serve
    <3>2. "body" \notin ToSet(control)
      BY <1>7 DEF NotBegun, Has
    <3>3. IsStack(control') /\ Executes("body")'
          /\ \A y : y \in ToSet(control') <=> y \in ToSet(control) \/ y = "body"
      BY <1>3, <1>5, <3>1, <3>2, StackPushed DEF Executes
    <3>4. Runs'
      BY <1>2, <1>5, <1>7, <2>3, <2>4, <3>3 DEF NotBegun, Runs, Has
    <3> QED BY <1>2, <1>3, <1>7, <2>4, <3>3, <3>4
            DEF GeneratorInv, Stands, Begun, NotBegun, ThrownPast, Over, Runs, InYield, InAwait
  <2>5. CASE kind = "return"
    <3>1. control' = Append(control, "drain")
      BY <1>7, <2>2, <2>5 DEF Serve, NotBegun, AtStart
    <3>2. IsStack(control')
          /\ \A y : y \in ToSet(control') <=> y \in ToSet(control) \/ y = "drain"
      BY <1>3, <1>5, <3>1, StackPushed
    <3>3. Over'
      BY <1>2, <1>5, <1>7, <2>3, <2>5, <3>2 DEF NotBegun, Over, Has
    <3> QED BY <1>2, <1>3, <1>7, <2>5, <3>2, <3>3
            DEF GeneratorInv, Stands, Begun, NotBegun, ThrownPast, Over, Runs, InYield, InAwait
  <2>6. CASE kind = "throw"
    <3>1. control' = control
      BY <1>7, <2>2, <2>6 DEF Serve, NotBegun, AtStart
    <3>2. ThrownPast'
      BY <1>2, <1>7, <2>3, <2>6, <3>1 DEF NotBegun, ThrownPast, Has
    <3> QED BY <1>2, <1>3, <1>7, <2>6, <3>1, <3>2
            DEF GeneratorInv, Stands, Begun, NotBegun, ThrownPast, Over, Runs, InYield, InAwait
  <2> QED BY <2>4, <2>5, <2>6, Zenon DEF Kinds
<1>8. CASE ~NotBegun /\ AnythingAhead
  <2>1. parked' = parked /\ control' = control
    BY <1>8 DEF Ask
  <2>2. Stands'
        /\ (ThrownPast => ThrownPast') /\ (Over => Over') /\ (Begun => Begun')
    <3>1. ThrownPast => ThrownPast'
      BY <1>1, <1>2, <2>1 DEF ThrownPast, Has
    <3>2. Runs => Runs'
      BY <1>1, <1>2, <2>1 DEF Runs, Has, Executes
    <3>3. InAwait => InAwait'
      BY <1>1, <1>2, <2>1 DEF InAwait, Has
    <3>4. Over => Over'
      <4>1. Over => queue # <<>>
        BY <1>8 DEF Over, AnythingAhead, Live, Has
      <4> QED BY <1>1, <1>2, <2>1, <4>1 DEF Over, Has
    <3>5. InYield => InYield'
      <4>1. InYield => queue # <<>>
        BY <1>8 DEF InYield, AnythingAhead, Live, Has
      <4> QED BY <1>1, <1>2, <2>1, <4>1 DEF InYield, Has
    <3> QED BY <1>8, <3>1, <3>2, <3>3, <3>4, <3>5 DEF GeneratorInv, Stands, Begun
  <2> QED BY <1>2, <1>3, <1>8, <2>1, <2>2 DEF GeneratorInv
<1>9. CASE ~NotBegun /\ ~AnythingAhead
  <2>1. queue = <<>> /\ ~Has("body") /\ ~Has("serve")
    BY <1>1, <1>9 DEF AnythingAhead, Intrudes, Live, Has
  <2>2. ~ThrownPast /\ ~Runs /\ ~InAwait
    BY <2>1 DEF ThrownPast, Runs, InAwait
  <2>3. CASE Over
    <3>1. control' = Append(control, "drain") /\ parked' = parked
      BY <1>9, <2>3 DEF Ask, Over
    <3>2. IsStack(control')
          /\ \A y : y \in ToSet(control') <=> y \in ToSet(control) \/ y = "drain"
      BY <1>3, <1>5, <3>1, StackPushed
    <3>3. Over'
      BY <1>1, <1>2, <1>5, <2>3, <3>1, <3>2 DEF Over, Has
    <3>4. ~Begun
      BY <2>2, <2>3 DEF Begun, Over, InYield, AtYield, NotParked
    <3> QED BY <1>2, <1>3, <1>9, <2>2, <2>3, <3>2, <3>3, <3>4 DEF GeneratorInv, Stands
  <2>4. CASE InYield
    <3>1. parked.at = "yield" /\ parked # NotParked
      BY <2>4 DEF InYield, AtYield, NotParked
    <3>2. control' = Append(control, "body") /\ parked' = NotParked
      BY <1>9, <3>1 DEF Ask, Serve
    <3>3. IsStack(control') /\ Executes("body")'
          /\ \A y : y \in ToSet(control') <=> y \in ToSet(control) \/ y = "body"
      BY <1>3, <1>5, <2>1, <3>2, StackPushed DEF Executes, Has
    <3>4. Runs'
      BY <1>1, <1>2, <1>5, <2>1, <2>4, <3>2, <3>3 DEF InYield, Runs, Has
    <3>5. ~Over
      BY <2>4 DEF InYield, Over, AtYield, NotParked
    <3> QED BY <1>2, <1>3, <1>9, <2>2, <2>4, <3>3, <3>4, <3>5 DEF GeneratorInv, Stands, Begun
  <2> QED BY <1>9, <2>2, <2>3, <2>4 DEF GeneratorInv, Stands, Begun
<1> QED BY <1>7, <1>8, <1>9

LEMMA ServeQueuedKeeps ==
    ASSUME GeneratorInv, ServeQueued
    PROVE  GeneratorInv' /\ InYield /\ Begun'
<1>1. /\ control # <<>> /\ Last(control) = "serve"
      /\ UNCHANGED <<queue, awaited, made, asked, answered, began>>
  BY DEF ServeQueued, Executes, history
<1> DEFINE rest == Front(control)
<1>2. /\ IsStack(rest) /\ Has("serve") /\ "serve" \notin ToSet(rest)
      /\ \A y : y \in ToSet(control) <=> y \in ToSet(rest) \/ y = "serve"
  BY <1>1, StackPopped DEF GeneratorInv, Has
<1>3. \/ queue = <<>> /\ control' = rest /\ UNCHANGED parked
      \/ /\ queue # <<>> /\ parked = NotParked
         /\ control' = Append(rest, "drain")
         /\ UNCHANGED parked
      \/ queue # <<>> /\ parked # NotParked /\ Serve(Head(queue).kind, rest)
  BY DEF ServeQueued
<1> HIDE DEF rest
<1>4. InYield
  BY <1>2 DEF GeneratorInv, Stands, Begun, NotBegun, ThrownPast, Over, Runs, InAwait
<1>5. QueueIsRest' /\ made' \in 0..MaxAwaits
  BY <1>1 DEF GeneratorInv, QueueIsRest
<1>6. parked # NotParked /\ parked.at = "yield"
  BY <1>4 DEF InYield, AtYield, NotParked
<1>7. CASE queue = <<>>
  <2>1. control' = rest /\ parked' = parked
    BY <1>3, <1>7
  <2>2. InYield'
    BY <1>1, <1>2, <1>4, <1>7, <2>1 DEF InYield, Has
  <2> QED BY <1>2, <1>4, <1>5, <2>1, <2>2 DEF GeneratorInv, Stands, Begun
<1>8. CASE queue # <<>>
  <2>1. control' = Append(rest, "body") /\ parked' = NotParked
    BY <1>3, <1>6, <1>8 DEF Serve
  <2>2. "body" \in Codes /\ "body" \notin ToSet(rest)
    BY <1>2, <1>4 DEF Codes, InYield, Has
  <2>3. IsStack(control') /\ Executes("body")'
        /\ \A y : y \in ToSet(control') <=> y \in ToSet(rest) \/ y = "body"
    BY <1>2, <2>1, <2>2, StackPushed DEF Executes
  <2>4. Runs'
    BY <1>1, <1>2, <1>4, <1>8, <2>1, <2>3 DEF InYield, Runs, Has
  <2> QED BY <1>4, <1>5, <2>3, <2>4 DEF GeneratorInv, Stands, Begun
<1> QED BY <1>7, <1>8

(* An answer by rote comes when the body is over, and leaves it so.        *)
LEMMA DrainKeeps ==
    ASSUME GeneratorInv, Drain
    PROVE  /\ GeneratorInv' /\ Over /\ Over'
           /\ \/ queue = <<>> /\ answered' = answered
              \/ /\ \E r : /\ answered' = Append(answered, r)
                           /\ r.with = ByRote(asked[Len(answered) + 1])
                 /\ Len(answered) < Len(asked)
<1>1. /\ control # <<>> /\ Last(control) = "drain" /\ Has("drain")
      /\ UNCHANGED <<parked, awaited, made, asked, began>>
  BY BodyIsOnStack DEF Drain, Executes
<1>2. Over
  BY <1>1 DEF GeneratorInv, Stands, Begun, NotBegun, ThrownPast, Runs, InYield, InAwait
<1>3. /\ QueueIsRest /\ IsStack(control) /\ made' \in 0..MaxAwaits
  BY <1>1 DEF GeneratorInv
<1>4. CASE queue = <<>>
  <2>1. control' = Front(control) /\ queue' = <<>> /\ answered' = answered
    BY <1>4 DEF Drain
  <2>2. /\ IsStack(control')
        /\ \A y : y \in ToSet(control) <=> y \in ToSet(control') \/ y = "drain"
    BY <1>1, <1>3, <2>1, StackPopped
  <2>3. Over'
    BY <1>1, <1>2, <2>1, <2>2 DEF Over, Has
  <2>4. QueueIsRest'
    BY <1>1, <1>3, <1>4, <2>1 DEF QueueIsRest
  <2> QED BY <1>2, <1>3, <1>4, <2>1, <2>2, <2>3, <2>4 DEF GeneratorInv, Stands
<1>5. CASE queue # <<>>
  <2> DEFINE answer == ByRote(Head(queue).kind)
  <2>1. Deliver(answer, control)
    BY <1>5 DEF Drain
  <2>2. Head(queue).kind \in Kinds
    <3>1. queue \in Seq(Asks)
      BY <1>3 DEF QueueIsRest
    <3>2. Head(queue) \in Asks
      BY <1>5, <3>1
    <3> QED BY <3>2 DEF Asks
  <2>3. answer \in Replies
    BY <2>2 DEF ByRote, Replies, Kinds
  <2> HIDE DEF answer
  <2>4. /\ QueueIsRest' /\ IsStack(control')
        /\ \A y : y # "script" => (y \in ToSet(control') <=> y \in ToSet(control))
        /\ \E r : answered' = Append(answered, r) /\ r.with = answer
        /\ Head(queue).kind = asked[Len(answered) + 1]
        /\ Len(answered) < Len(asked)
    BY <1>1, <1>3, <1>5, <2>1, <2>3, Delivered
  <2>5. Over'
    BY <1>1, <1>2, <2>4 DEF Over, Has
  <2>6. answer = ByRote(asked[Len(answered) + 1])
    BY <2>4 DEF answer
  <2> QED BY <1>2, <1>3, <2>4, <2>5, <2>6 DEF GeneratorInv, Stands
<1> QED BY <1>4, <1>5

(* What only a body on top of the stack does.                              *)
LEMMA OnlyRunning ==
    ASSUME GeneratorInv, Executes("body")
    PROVE  /\ Runs /\ queue # <<>> /\ control # <<>> /\ IsStack(Front(control))
           /\ \A y \in {"body", "serve", "drain"} : y \notin ToSet(Front(control))
<1>1. Has("body")
  BY BodyIsOnStack
<1>2. Runs
  BY <1>1 DEF GeneratorInv, Stands, Begun, NotBegun, ThrownPast, Over, InYield, InAwait
<1> QED BY <1>2, StackPopped DEF GeneratorInv, Runs, Executes, Has

LEMMA YieldKeeps ==
    ASSUME GeneratorInv, Yield
    PROVE  /\ GeneratorInv' /\ Begun /\ Begun'
           /\ \E r : answered' = Append(answered, r) /\ r.with = "yielded"
           /\ Len(answered) < Len(asked)
<1> DEFINE stack == Append(Front(control), "serve")
<1>1. /\ Executes("body") /\ parked' = AtYield /\ Deliver("yielded", stack)
      /\ UNCHANGED <<awaited, made, asked, began>>
  BY DEF Yield
<1>2. /\ Runs /\ queue # <<>> /\ IsStack(Front(control))
      /\ \A y \in {"body", "serve", "drain"} : y \notin ToSet(Front(control))
  BY <1>1, OnlyRunning
<1>3. "serve" \in Codes /\ "yielded" \in Replies
  BY DEF Codes, Replies
<1>4. /\ IsStack(stack)
      /\ \A y : y \in ToSet(stack) <=> y \in ToSet(Front(control)) \/ y = "serve"
  BY <1>2, <1>3, StackPushed
<1> HIDE DEF stack
<1>5. QueueIsRest
  BY DEF GeneratorInv
<1>6. /\ QueueIsRest' /\ IsStack(control')
      /\ \A y : y # "script" => (y \in ToSet(control') <=> y \in ToSet(stack))
      /\ \E r : answered' = Append(answered, r) /\ r.with = "yielded"
      /\ Len(answered) < Len(asked)
  BY <1>1, <1>2, <1>3, <1>4, <1>5, Delivered
<1>7. InYield'
  BY <1>1, <1>2, <1>4, <1>6 DEF Runs, InYield, Has
<1>8. made' \in 0..MaxAwaits
  BY <1>1 DEF GeneratorInv
<1> QED BY <1>2, <1>6, <1>7, <1>8 DEF GeneratorInv, Stands, Begun

LEMMA FinishKeeps ==
    ASSUME GeneratorInv, NEW answer \in {"returned", "rejected"}, Finish(answer)
    PROVE  /\ GeneratorInv' /\ Begun /\ Over'
           /\ \E r : answered' = Append(answered, r) /\ r.with = answer
           /\ Len(answered) < Len(asked)
<1> DEFINE stack == Append(Front(control), "drain")
<1>1. /\ Executes("body") /\ Deliver(answer, stack)
      /\ UNCHANGED <<parked, awaited, made, asked, began>>
  BY DEF Finish
<1>2. /\ Runs /\ queue # <<>> /\ IsStack(Front(control))
      /\ \A y \in {"body", "serve", "drain"} : y \notin ToSet(Front(control))
  BY <1>1, OnlyRunning
<1>3. "drain" \in Codes /\ "drain" \notin {"body", "serve"} /\ answer \in Replies
  BY DEF Codes, Replies
<1>4. /\ IsStack(stack)
      /\ \A y : y \in ToSet(stack) <=> y \in ToSet(Front(control)) \/ y = "drain"
  BY <1>2, <1>3, StackPushed
<1> HIDE DEF stack
<1>5. QueueIsRest
  BY DEF GeneratorInv
<1>6. /\ QueueIsRest' /\ IsStack(control')
      /\ \A y : y # "script" => (y \in ToSet(control') <=> y \in ToSet(stack))
      /\ \E r : answered' = Append(answered, r) /\ r.with = answer
      /\ Len(answered) < Len(asked)
  BY <1>1, <1>2, <1>3, <1>4, <1>5, Delivered
<1>7. Over'
  BY <1>1, <1>2, <1>4, <1>6 DEF Runs, Over, Has
<1>8. made' \in 0..MaxAwaits
  BY <1>1 DEF GeneratorInv
<1> QED BY <1>2, <1>6, <1>7, <1>8 DEF GeneratorInv, Stands, Begun

LEMMA AwaitKeeps ==
    ASSUME GeneratorInv, Await PROVE GeneratorInv' /\ Begun /\ Begun'
<1>1. /\ Executes("body") /\ made < MaxAwaits /\ made' = made + 1
      /\ parked' = AtAwait(made') /\ awaited' = awaited \cup {made'}
      /\ control' = Front(control)
      /\ UNCHANGED <<queue, asked, answered, began>>
  BY DEF Await, history
<1>2. /\ Runs /\ IsStack(control')
      /\ \A y \in {"body", "serve", "drain"} : y \notin ToSet(control')
  BY <1>1, OnlyRunning
<1>3. made' \in 0..MaxAwaits /\ made' >= 1
  BY <1>1, AsyncGeneratorAssumption DEF GeneratorInv
<1>4. InAwait'
  BY <1>1, <1>2, <1>3 DEF Runs, InAwait, Has
<1>5. QueueIsRest'
  BY <1>1 DEF GeneratorInv, QueueIsRest
<1> QED BY <1>2, <1>3, <1>4, <1>5 DEF GeneratorInv, Stands, Begun

LEMMA ReviveKeeps ==
    ASSUME GeneratorInv, NEW n \in awaited, Revive(n)
    PROVE  GeneratorInv' /\ Begun /\ Begun'
<1>1. /\ control = <<>> /\ awaited' = awaited \ {n} /\ parked' = NotParked
      /\ control' = IF parked = NotParked THEN control ELSE <<"body">>
      /\ UNCHANGED <<queue, made, asked, answered, began>>
  BY DEF Revive, history
<1>2. InAwait
  BY DEF GeneratorInv, Stands, Begun, NotBegun, ThrownPast, Over, Runs, InYield
<1>3. awaited' = {} /\ control' = <<"body">>
  BY <1>1, <1>2 DEF InAwait, AtAwait, NotParked
<1>4. /\ IsStack(control') /\ Executes("body")'
      /\ \A y : y \in ToSet(control') <=> y = "body"
  <2>1. control' = Append(control, "body") /\ IsStack(control)
    BY <1>1, <1>3 DEF GeneratorInv
  <2>2. "body" \in Codes /\ \A y : y \notin ToSet(control)
    BY <1>1 DEF Codes, ToSet
  <2> QED BY <2>1, <2>2, StackPushed DEF Executes
<1>5. Runs'
  BY <1>1, <1>2, <1>3, <1>4 DEF InAwait, Runs, Has
<1>6. QueueIsRest' /\ made' \in 0..MaxAwaits
  BY <1>1 DEF GeneratorInv, QueueIsRest
<1> QED BY <1>2, <1>4, <1>5, <1>6 DEF GeneratorInv, Stands, Begun

LEMMA NextKeeps ==
    ASSUME MayIntrude = FALSE, GeneratorInv, [Next]_vars PROVE GeneratorInv'
<1>1. CASE BeginScript
  BY <1>1, BeginScriptKeeps
<1>2. CASE EndScript
  BY <1>2, EndScriptKeeps
<1>3. CASE \E kind \in Kinds : Ask(kind)
  BY <1>3, AskKeeps
<1>4. CASE ServeQueued
  BY <1>4, ServeQueuedKeeps
<1>5. CASE Drain
  BY <1>5, DrainKeeps
<1>6. CASE Yield
  BY <1>6, YieldKeeps
<1>7. CASE Return \/ Reject
  BY <1>7, FinishKeeps DEF Return, Reject
<1>8. CASE Await
  BY <1>8, AwaitKeeps
<1>9. CASE \E n \in awaited : Revive(n)
  BY <1>9, ReviveKeeps
<1>10. CASE UNCHANGED vars
  BY <1>10 DEF vars, objects, history, GeneratorInv, QueueIsRest, Stands, Begun, NotBegun,
               ThrownPast, Over, Runs, InYield, InAwait, Has, Executes
<1> QED BY <1>1, <1>2, <1>3, <1>4, <1>5, <1>6, <1>7, <1>8, <1>9, <1>10 DEF Next

LEMMA Invariant == ASSUME MayIntrude = FALSE PROVE Spec => []GeneratorInv
<1>1. GeneratorInv /\ [Next]_vars => GeneratorInv'
  BY NextKeeps, Zenon
<1> QED BY <1>1, InitGenerator, PTL DEF Spec

-----------------------------------------------------------------------------
(* What the invariant says to a reader of the module. *)

(* The queue stands in for the state the code does not keep: whether a     *)
(* parked body may be resumed, whether somebody waits for a running one,   *)
(* and whether those who wait without a body will hear                     *)
(* (vm/async_generator.rs, the module comment).                            *)
THEOREM QueueTells == ASSUME MayIntrude = FALSE PROVE Spec => []QueueTellsState
<1>1. GeneratorInv => QueueTellsState
  <2> SUFFICES ASSUME GeneratorInv, ~Abandoned PROVE QueueTellsState
    BY DEF QueueTellsState
  <2>1. (NotBegun /\ queue = <<>>) \/ Over \/ Runs \/ InYield \/ InAwait
    BY DEF GeneratorInv, QueueIsRest, Stands, Begun, NotBegun, ThrownPast, Abandoned
  <2>2. CASE NotBegun /\ queue = <<>>
    BY <2>2 DEF NotBegun, QueueTellsState, Live, Has, AtStart, NotParked
  <2>3. CASE Over
    BY <2>3 DEF Over, QueueTellsState, Live, Has, NotParked
  <2>4. CASE Runs
    <3>1. Has("body")
      BY <2>4, BodyIsOnStack DEF Runs
    <3> QED BY <2>4, <3>1 DEF Runs, QueueTellsState, Live, Has, NotParked
  <2>5. CASE InYield
    BY <2>5 DEF InYield, QueueTellsState, Live, Has, AtYield, NotParked
  <2>6. CASE InAwait
    BY <2>6 DEF InAwait, QueueTellsState, Live, Has, AtAwait, NotParked
  <2> QED BY <2>1, <2>2, <2>3, <2>4, <2>5, <2>6
<1> QED BY <1>1, Invariant, PTL

-----------------------------------------------------------------------------
(* The refinement: what the callers see of a step is a step of             *)
(* RequestService, or nothing.                                             *)

Told == [i \in DOMAIN answered |-> answered[i].with]
Body == CASE began = "fresh" -> "fresh"
          [] Abandoned -> "abandoned"
          [] OTHER -> IF Live \/ parked # NotParked THEN "begun" ELSE "gone"

LEMMA BodyOf ==
    GeneratorInv => /\ NotBegun => Body = "fresh"
                    /\ ThrownPast => Body = "abandoned"
                    /\ Over => Body = "gone"
                    /\ Begun => Body = "begun"
<1> SUFFICES ASSUME GeneratorInv
             PROVE  /\ NotBegun => Body = "fresh"
                    /\ ThrownPast => Body = "abandoned"
                    /\ Over => Body = "gone"
                    /\ Begun => Body = "begun"
  OBVIOUS
<1>1. (NotBegun => Body = "fresh") /\ (ThrownPast => Body = "abandoned")
  BY DEF NotBegun, ThrownPast, Body, Abandoned
<1>2. Over => Body = "gone"
  BY DEF Over, Body, Abandoned, Live, Has
<1>3. Runs => Live
  BY BodyIsOnStack DEF Runs, Live, Has
<1>4. InYield \/ InAwait => parked # NotParked
  BY DEF InYield, InAwait, AtYield, AtAwait, NotParked
<1>5. Begun => Body = "begun"
  BY <1>3, <1>4 DEF Begun, Runs, InYield, InAwait, Body, Abandoned
<1> QED BY <1>1, <1>2, <1>5

LEMMA BodyOfNext ==
    GeneratorInv' => /\ ThrownPast' => Body' = "abandoned"
                     /\ Over' => Body' = "gone"
                     /\ Begun' => Body' = "begun"
<1>1. (GeneratorInv => /\ ThrownPast => Body = "abandoned"
                       /\ Over => Body = "gone"
                       /\ Begun => Body = "begun")'
  <2>1. GeneratorInv => /\ ThrownPast => Body = "abandoned"
                        /\ Over => Body = "gone"
                        /\ Begun => Body = "begun"
    BY BodyOf
  <2> QED BY <2>1, PTL
<1> QED BY <1>1

LEMMA ToldMore ==
    ASSUME GeneratorInv, NEW r, answered' = Append(answered, r)
    PROVE  Told' = Append(Told, r.with) /\ Len(Told) = Len(answered)
<1>1. answered \in Seq([to : Nat, with : Replies])
  BY DEF GeneratorInv, QueueIsRest
<1>2. /\ Len(answered) \in Nat /\ DOMAIN answered = 1..Len(answered)
      /\ DOMAIN answered' = 1..Len(answered) + 1
      /\ answered'[Len(answered) + 1] = r
      /\ \A i \in 1..Len(answered) : answered'[i] = answered[i]
  BY <1>1
<1>3. /\ Told = [i \in 1..Len(answered) |-> answered[i].with]
      /\ Told' = [i \in 1..Len(answered) + 1 |-> answered'[i].with]
  BY <1>2 DEF Told
<1>4. Len(Told) = Len(answered)
  BY <1>2, <1>3
<1>5. Append(Told, r.with) = [i \in 1..Len(answered) + 1 |->
                                IF i \in 1..Len(answered) THEN Told[i] ELSE r.with]
  BY <1>2, <1>3, <1>4
<1>6. \A i \in 1..Len(answered) + 1 :
        Told'[i] = IF i \in 1..Len(answered) THEN Told[i] ELSE r.with
  BY <1>2, <1>3
<1> QED BY <1>3, <1>4, <1>5, <1>6

LEMMA InitServes == Init => Service!Init
<1> SUFFICES ASSUME Init PROVE Service!Init
  OBVIOUS
<1>1. asked = <<>> /\ DOMAIN answered = 1..0 /\ began = "fresh"
  BY DEF Init
<1>2. Told \in [1..0 -> Replies]
  BY <1>1 DEF Told
<1>3. Told = <<>>
  BY <1>2, EmptySeq, SeqDef
<1>4. asked = <<>> /\ Body = "fresh"
  BY <1>1 DEF Body, Abandoned
<1> QED BY ONLY <1>3, <1>4 DEF Service!Init, Told, Body

LEMMA AskServes ==
    ASSUME MayIntrude = FALSE, GeneratorInv, NEW kind \in Kinds, Ask(kind)
    PROVE  asked' = Append(asked, kind) /\ Told' = Told /\ Body' = Service!After(kind)
<1>1. asked' = Append(asked, kind) /\ Told' = Told
  BY DEF Ask, Enqueue, Told
<1>2. /\ (NotBegun => Body = "fresh") /\ (ThrownPast => Body = "abandoned")
      /\ (Over => Body = "gone") /\ (Begun => Body = "begun")
  BY BodyOf
<1>3. GeneratorInv'
  BY AskKeeps
<1>4. /\ (ThrownPast' => Body' = "abandoned")
      /\ (Over' => Body' = "gone") /\ (Begun' => Body' = "begun")
  BY <1>3, BodyOfNext
<1>5. NotBegun \/ ThrownPast \/ Over \/ Begun
  BY DEF GeneratorInv, Stands
<1>6. /\ NotBegun => CASE kind = "next" -> Begun'
                       [] kind = "return" -> Over'
                       [] kind = "throw" -> ThrownPast'
      /\ (ThrownPast => ThrownPast') /\ (Over => Over') /\ (Begun => Begun')
  BY AskKeeps
<1>7. Service!After(kind) = IF Body # "fresh" THEN Body
                           ELSE CASE kind = "next" -> "begun"
                                  [] kind = "return" -> "gone"
                                  [] kind = "throw" -> "abandoned"
  BY DEF Service!After, Body
<1> QED BY <1>1, <1>2, <1>4, <1>5, <1>6, <1>7 DEF Kinds

LEMMA StepServes ==
    ASSUME MayIntrude = FALSE, GeneratorInv, [Next]_vars
    PROVE  [Service!Next]_Service!vars
<1>0. SUFFICES [Service!Next]_<<asked, Told, Body>>
  BY DEF Service!vars, Told, Body
<1>1. GeneratorInv'
  BY NextKeeps, Zenon
<1>2. /\ NotBegun => Body = "fresh"
      /\ Over => Body = "gone"
      /\ Begun => Body = "begun"
  BY BodyOf
<1>3. (Over' => Body' = "gone") /\ (Begun' => Body' = "begun")
  BY <1>1, BodyOfNext
<1>4. CASE \E kind \in Kinds : Ask(kind)
  <2>1. PICK kind \in Kinds : Ask(kind)
    BY <1>4
  <2>2. asked' = Append(asked, kind) /\ Told' = Told /\ Body' = Service!After(kind)
    BY <2>1, AskServes
  <2>3. Service!Ask(kind)
    BY <2>2 DEF Service!Ask, Told, Body
  <2> QED BY <2>3 DEF Service!Next, Kinds
<1>5. CASE Drain
  <2>1. Body = "gone" /\ Body' = "gone" /\ asked' = asked
    BY <1>2, <1>3, <1>5, DrainKeeps DEF Drain
  <2>2. CASE answered' = answered
    BY <2>1, <2>2 DEF Told
  <2>3. ASSUME NEW r, answered' = Append(answered, r), Len(answered) < Len(asked),
               r.with = ByRote(asked[Len(answered) + 1])
        PROVE  Service!Answer
    <3>1. Told' = Append(Told, r.with) /\ Len(Told) = Len(answered)
      BY <2>3, ToldMore
    <3>2. /\ Len(Told) < Len(asked)
          /\ Told' = Append(Told, Service!ByRote(asked[Len(Told) + 1]))
      BY <2>3, <3>1 DEF ByRote, Service!ByRote
    <3> QED BY <2>1, <3>2 DEF Service!Answer, Told, Body
  <2> QED BY <1>5, <2>2, <2>3, DrainKeeps DEF Service!Next
<1>6. CASE Yield
  <2>1. Body = "begun" /\ Body' = "begun" /\ asked' = asked
    BY <1>2, <1>3, <1>6, YieldKeeps DEF Yield
  <2>2. PICK r : answered' = Append(answered, r) /\ r.with = "yielded"
    BY <1>6, YieldKeeps
  <2>3. Told' = Append(Told, "yielded") /\ Len(Told) < Len(asked)
    BY <1>6, <2>2, ToldMore, YieldKeeps
  <2>4. Service!Answer
    BY <2>1, <2>3 DEF Service!Answer, Told, Body
  <2> QED BY <2>4 DEF Service!Next
<1>7. CASE Return \/ Reject
  <2>1. PICK answer \in {"returned", "rejected"} : Finish(answer)
    BY <1>7 DEF Return, Reject
  <2>2. Body = "begun" /\ Body' = "gone" /\ asked' = asked
    BY <1>2, <1>3, <2>1, FinishKeeps DEF Finish
  <2>3. PICK r : answered' = Append(answered, r) /\ r.with = answer
    BY <2>1, FinishKeeps
  <2>4. Told' = Append(Told, answer) /\ Len(Told) < Len(asked)
    BY <2>1, <2>3, ToldMore, FinishKeeps
  <2>5. Service!Answer
    BY <2>2, <2>4 DEF Service!Answer, Told, Body
  <2> QED BY <2>5 DEF Service!Next
<1>8. CASE BeginScript \/ EndScript \/ UNCHANGED vars
  <2>1. /\ UNCHANGED <<queue, parked, asked, answered, began>>
    BY <1>8 DEF BeginScript, EndScript, objects, history, vars
  <2>2. Live' <=> Live
    <3>1. CASE BeginScript
      <4>1. control' = Append(control, "script") /\ IsStack(control)
        BY <3>1 DEF BeginScript, GeneratorInv
      <4> QED BY <4>1, StackPushed DEF Live, Codes
    <3>2. CASE EndScript
      <4>1. /\ control # <<>> /\ Last(control) = "script" /\ control' = Front(control)
            /\ IsStack(control)
        BY <3>2 DEF EndScript, Executes, GeneratorInv
      <4> QED BY <4>1, StackPopped DEF Live
    <3> QED BY <1>8, <3>1, <3>2 DEF Live, vars
  <2> QED BY <2>1, <2>2 DEF Told, Body, Abandoned
<1>9. CASE ServeQueued
  <2>1. Body' = Body
    BY <1>2, <1>3, <1>9, ServeQueuedKeeps DEF Begun
  <2> QED BY <1>9, <2>1 DEF ServeQueued, history, Told
<1>10. CASE Await
  <2>1. Body' = Body
    BY <1>2, <1>3, <1>10, AwaitKeeps
  <2> QED BY <1>10, <2>1 DEF Await, history, Told
<1>11. CASE \E n \in awaited : Revive(n)
  <2>1. Body' = Body
    BY <1>2, <1>3, <1>11, ReviveKeeps
  <2> QED BY <1>11, <2>1 DEF Revive, history, Told
<1> QED BY <1>4, <1>5, <1>6, <1>7, <1>8, <1>9, <1>10, <1>11 DEF Next

(* Whoever asks is answered in turn, once, by the body as long as there is *)
(* one and by rote afterwards, whatever yields, awaits and accessors come  *)
(* in between (drain and settle_front in vm/async_generator.rs).           *)
THEOREM ServedInOrder == ASSUME MayIntrude = FALSE PROVE Spec => ServesInOrder
<1>1. GeneratorInv => \A i \in DOMAIN answered : answered[i].to = i
  BY DEF GeneratorInv, QueueIsRest
<1>2. GeneratorInv /\ [Next]_vars => [Service!Next]_Service!vars
  BY StepServes, Zenon
<1>3. Spec => Service!Spec
  BY <1>2, InitServes, Invariant, PTL DEF Spec, Service!Spec
<1>4. Spec => [](\A i \in DOMAIN answered : answered[i].to = i)
  BY <1>1, Invariant, PTL
<1> QED BY <1>3, <1>4, PTL DEF ServesInOrder
=============================================================================
