----------------------------- MODULE MCGridCopy ----------------------------
(* Small volumes whose last block is cut on every axis, windows that cut the *)
(* blocks at either end and between two positions of a strided grid.         *)
EXTENDS GridCopy

MCBlocks ==
    {<<<<5, 4, 1>>, <<4, 3, 1>>>>, <<<<6, 3, 1>>, <<4, 4, 1>>>>, <<<<3, 3, 3>>, <<2, 3, 2>>>>}

MCWindows(n) ==
    {Extent(from, Each(LAMBDA i : to[i] - from[i])) :
        <<from, to>> \in {w \in ((0 .. 2) \X (0 .. 1) \X {0})
                               \X ({n[1] - 2, n[1]} \X {n[2] - 1, n[2]} \X {n[3]}) :
                            \A i \in Axes : w[1][i] < w[2][i]}}

MCCases ==
    UNION {{[n |-> b[1], block |-> b[2], strd |-> s, window |-> w] :
              s \in {Vec(1), <<2, 2, 1>>, <<3, 1, 1>>}, w \in MCWindows(b[1])} : b \in MCBlocks}
=============================================================================
