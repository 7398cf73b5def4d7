------------------------------ MODULE MCFrame ------------------------------
(* Instances of Frame for TLC.                                             *)
EXTENDS Frame, TLC

CONSTANTS x, y, h1, h2

Choices == {{c, d} : c, d \in Components}

\* A chain for each component
Apart == (x :> h1) @@ (y :> h2)
=============================================================================
