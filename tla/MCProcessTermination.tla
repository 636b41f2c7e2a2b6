------------------------ MODULE MCProcessTermination ------------------------
EXTENDS ProcessTermination, TLC

CONSTANTS x1, x2, x3, p1, img, other

\* One id that three processes have in turn; two of them look alike.
MCPidOf   == (x1 :> p1) @@ (x2 :> p1) @@ (x3 :> p1)
MCImageOf == (x1 :> img) @@ (x2 :> img) @@ (x3 :> other)

==============================================================================
