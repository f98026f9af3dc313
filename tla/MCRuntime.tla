------------------------------ MODULE MCRuntime ------------------------------
(***************************************************************************)
(* Programs that read, print and fail at every depth of a call, with main  *)
(* first, last and missing, and with the names of the C library.           *)
(***************************************************************************)
EXTENDS Runtime

Do(op) == [op |-> op, i |-> 0, name |-> ""]
FormalOf(k) == [op |-> "formal", i |-> k, name |-> ""]
CallOf(f) == [op |-> "call", i |-> 0, name |-> f]
Function(name, formals, body) == [name |-> name, formals |-> formals, body |-> body]

\* down(n) counts down, reading and printing as it returns.
Down == Function("down", 1, <<FormalOf(1), Do("unless"), Do("decrement"), CallOf("down"), Do("input"), Do("output")>>)
Ask == Function("ask", 0, <<Do("input"), Do("unless"), Do("error")>>)

Word == [numeral |-> FALSE, n |-> 0]
Number(n) == [numeral |-> TRUE, n |-> n]
Words == {Word, Number(0), Number(2), Number(9)}
Lines == UNION {[1 .. k -> Words] : k \in 0 .. 2}

Mains == {Function("main", formals, <<FormalOf(formals)>> \o body) :
             formals \in 1 .. 2,
             body \in {<<Do("output")>>, <<CallOf("down")>>, <<CallOf("down"), CallOf("ask")>>,
                       <<Do("input"), CallOf("down"), Do("output")>>}}
         \cup {Function("main", 0, <<CallOf("ask"), Do("output")>>)}

SomePrograms ==
    {<<Down, Ask>>} \cup UNION {{<<m, Down, Ask>>, <<Down, m, Ask>>} : m \in Mains}

\* A function with a name of the C library, never called.
Named == {<<Function(c, 1, <<FormalOf(1)>>), m, Down, Ask>> :
             c \in {"printf", "scanf", "exit", "strtoll"}, m \in Mains}

AllPrograms == SomePrograms \cup Named

Anything == {0, 2}
=============================================================================
