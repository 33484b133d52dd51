--------------------------- MODULE MCModuleGraph ---------------------------
(* Small instances of ModuleGraph: three modules in the shapes a walk may  *)
(* meet, and a module nothing can be linked with.                          *)
EXTENDS ModuleGraph

CONSTANTS a, b, c, d

Shape(fa, fb, fc) ==
    [m \in Modules |->
        CASE m = a -> fa [] m = b -> fb [] m = c -> fc [] OTHER -> <<>>]

Diamond == Shape(<<b, c>>, <<c>>, <<>>)
Cycle == Shape(<<b>>, <<a, c>>, <<>>)

AllShapes == {Diamond, Cycle}
OneShape == {Diamond}
=============================================================================
