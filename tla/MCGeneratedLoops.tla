--------------------------- MODULE MCGeneratedLoops ---------------------------
(***************************************************************************)
(* Words of five bits: numbers from -16 to 15. The size of an array of     *)
(* three wraps around to no byte, as that of 2^61 - 1 does in 64 bits.     *)
(***************************************************************************)
EXTENDS GeneratedLoops

Range(start, end, step, element) ==
    [kind |-> "range", start |-> start, end |-> end, step |-> step, element |-> element, elements |-> 2]
Iterate(elements, element) == [kind |-> "iterator", element |-> element, elements |-> elements]
Of(count, elements) == [kind |-> "ofArray", count |-> count, elements |-> elements]

\* Steps that wrap around, that are zero and that are negative among them.
SomeLoops ==
    {Range(start, end, step, element) :
        start \in {-3, 0, 13}, end \in {-2, 2, 15}, step \in {-5, 0, 1, 2}, element \in {-1, 0, 2}}
    \cup {Iterate(n, element) : n \in 0 .. 3, element \in {-1, 0}}
    \cup {Of(count, 2) : count \in -2 .. 3} \cup {Of(2, 10)}

SomeValues == {-1, 0, 1}
=============================================================================
