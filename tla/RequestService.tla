--------------------------- MODULE RequestService ---------------------------
(***************************************************************************)
(* What an async generator promises whoever resumes it, with no queue,     *)
(* frame or job: requests are answered one each, in the order they were    *)
(* made, by the body as long as there is one and by rote afterwards.       *)
(***************************************************************************)
EXTENDS Sequences, Naturals

VARIABLES asked,     \* the kinds of the requests made so far
          answered,  \* the answers given so far
          body       \* whether there is a body to answer

vars == <<asked, answered, body>>

Init == asked = <<>> /\ answered = <<>> /\ body = "fresh"

(* The first request decides what becomes of the body: `next` begins it,   *)
(* `return` does away with it, and a `throw` goes past it (the request     *)
(* stays unanswered: vm/async_generator.rs:205).                           *)
After(kind) == IF body # "fresh" THEN body
               ELSE CASE kind = "next" -> "begun"
                      [] kind = "return" -> "gone"
                      [] kind = "throw" -> "abandoned"

Ask(kind) == /\ asked' = Append(asked, kind)
             /\ body' = After(kind)
             /\ UNCHANGED answered

(* The answer of a completed generator, which only depends on the request. *)
ByRote(kind) == CASE kind = "next" -> "undefined"
                  [] kind = "return" -> "argument"
                  [] kind = "throw" -> "rejectedWithArgument"

Answer ==
    /\ Len(answered) < Len(asked)
    /\ \/ /\ body = "begun"
          /\ \/ answered' = Append(answered, "yielded") /\ UNCHANGED body
             \/ \E end \in {"returned", "rejected"} :
                   answered' = Append(answered, end) /\ body' = "gone"
       \/ /\ body = "gone"
          /\ answered' = Append(answered, ByRote(asked[Len(answered) + 1]))
          /\ UNCHANGED body
    /\ UNCHANGED asked

Next == Answer \/ \E kind \in {"next", "return", "throw"} : Ask(kind)

Spec == Init /\ [][Next]_vars
=============================================================================
