----------------------------- MODULE ModuleWalk -----------------------------
(***************************************************************************)
(* The walk that orders a graph of modules (visit, vm/module.rs).  The     *)
(* recursion of the code is a list of visits in progress here, outermost   *)
(* first, and one turn of the innermost visit's loop is one step.          *)
(*                                                                         *)
(* A definition with the comment "mutation" is the one after it with a bug *)
(* put in.                                                                 *)
(***************************************************************************)
EXTENDS Naturals, Sequences, FiniteSets

CONSTANTS Modules,     \* the modules a host may supply
          Graphs,      \* the request lists to choose from: module -> sequence
          MaxRequests  \* the longest request list

ASSUME WalkAssumption ==
    /\ IsFiniteSet(Modules)
    /\ MaxRequests \in Nat
    /\ Graphs \subseteq [Modules -> Seq(Modules)]
    /\ \A graph \in Graphs, m \in Modules : Len(graph[m]) <= MaxRequests

(* A visit to m with these of its requests still to follow.                *)
Visit(m, left) == [module |-> m, left |-> left]

(* What a walk has seen, the modules it has placed, the visits it is in.   *)
Setout == [seen |-> {}, order |-> <<>>, visits |-> <<>>]

(* mutation: the visit waits until the one that asked for it is over.      *)
EnterLater(walk, graph, m) ==
    IF m \in walk.seen
    THEN walk
    ELSE [walk EXCEPT !.seen = @ \cup {m},
                      !.visits = <<Visit(m, graph[m])>> \o @]

(* A module the walk has been to is placed or is still being visited.      *)
Enter(walk, graph, m) ==
    IF m \in walk.seen
    THEN walk
    ELSE [walk EXCEPT !.seen = @ \cup {m},
                      !.visits = Append(@, Visit(m, graph[m]))]

Innermost(walk) == walk.visits[Len(walk.visits)]

(* The walk with its innermost visit over, and with one request fewer.     *)
Return(walk) == [walk EXCEPT !.visits = SubSeq(@, 1, Len(@) - 1)]
Follow(walk) ==
    [walk EXCEPT !.visits[Len(walk.visits)] = Visit(@.module, Tail(@.left))]

(* One turn: the next request is followed, or there is none and the module *)
(* is placed behind everything it requests.                                *)
Turn(walk, graph) ==
    CASE walk.visits = <<>> -> walk
      [] walk.visits # <<>> /\ Innermost(walk).left = <<>> ->
           [Return(walk) EXCEPT !.order = Append(@, Innermost(walk).module)]
      [] OTHER ->
           Enter(Follow(walk), graph, Head(Innermost(walk).left))

(* The walk from `entry` after so many turns, and how many are enough: a   *)
(* turn follows one request of one module or places it.                    *)
Walk(graph, entry) ==
    LET after[n \in Nat] == IF n = 0 THEN Enter(Setout, graph, entry)
                                     ELSE Turn(after[n - 1], graph)
    IN  after
Turns == Cardinality(Modules) * (MaxRequests + 1)

Orders == [graph \in Graphs |->
              [entry \in Modules |-> Walk(graph, entry)[Turns].order]]
=============================================================================
