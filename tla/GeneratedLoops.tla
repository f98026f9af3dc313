---------------------------- MODULE GeneratedLoops ----------------------------
(***************************************************************************)
(* The code that is generated for the loops of the language when it runs:  *)
(* for (x : a) S, for (x : start .. end by step) S and [count of E], over  *)
(* a memory of words of a fixed width.  S and E are any code over the same *)
(* memory: it assigns to the variables, stores into elements and makes new *)
(* arrays.  A register keeps what was loaded into it whatever that code    *)
(* does.                                                                   *)
(***************************************************************************)
EXTENDS Integers, Sequences

CONSTANTS
    Limit,       \* the first number too large for a word; 2^63 in the code
    MemoryWords, \* bound: the size of the memory
    Loops,       \* the loops to run
    Values,      \* what the body stores
    MaxEffects   \* bound: stores and arrays made by the bodies of a run

ASSUME LimitAssumption == Limit \in Nat /\ Limit >= 16
ASSUME MemoryAssumption == MemoryWords \in 4 .. Limit - 1
ASSUME ValuesAssumption == Values \subseteq Int
ASSUME LoopsAssumption ==
    \A l \in Loops :
        /\ l.kind \in {"range", "iterator", "ofArray"}
        /\ l.elements \in Nat /\ l.elements + 3 <= MemoryWords
        /\ l.kind = "range" => l.start \in Int /\ l.end \in Int /\ l.step \in Int
        /\ IF l.kind = "ofArray" THEN l.count \in Int ELSE l.element \in Int

VARIABLES
    loop,     \* the statement
    pc,       \* the block that is next
    memory,   \* the words, by address
    blocks,   \* what was allocated: base and number of words, in order
    reg,      \* the values kept across the body
    index,    \* the slot of the hidden counter
    turns,    \* how many times the body was entered, modulo 2 * Limit
    effects,  \* how much of MaxEffects is used
    last      \* the address stored to last

vars == <<loop, pc, memory, blocks, reg, index, turns, effects, last>>

-----------------------------------------------------------------------------
(* Words and memory. Address 0 is null, then come the variables x and a.    *)

Wrap(n) == ((n + Limit) % (2 * Limit)) - Limit
Unsigned(n) == n % (2 * Limit)

null == 0
x == 1
a == 2

Used == IF blocks = << >> THEN 3 ELSE blocks[Len(blocks)].base + blocks[Len(blocks)].words
Inside(p) == p \in {x, a} \/ \E i \in DOMAIN blocks : p \in blocks[i].base .. blocks[i].base + blocks[i].words - 1

Load(p) == memory[p]

\* A store outside of the memory of the process ends it.
Store(p, v, next) ==
    /\ last' = p
    /\ IF p \in 1 .. MemoryWords
       THEN memory' = [memory EXCEPT ![p] = Wrap(v)] /\ pc' = next
       ELSE UNCHANGED memory /\ pc' = "crash"

arraySize(count) == Unsigned((count + 1) * 8)

\* calloc(1, size): null when there is no room, and it may be when there are no bytes.
Words(size) == (size + 7) \div 8
Fits(size) == Used + Words(size) <= MemoryWords + 1
Calloc(size) == (IF Fits(size) THEN {Used} ELSE {null}) \cup (IF size = 0 THEN {null} ELSE {})
Allocated(size) == IF Fits(size) THEN Append(blocks, [base |-> Used, words |-> Words(size)]) ELSE blocks

-----------------------------------------------------------------------------
(* An access a[i]: the branch to _tip_error, or the address.                *)

outOfBounds_NotNegative(array, i) == i >= Load(array)  \* mutated form: only the upper bound is tested

outOfBounds(array, i) == i >= Load(array) \/ i < 0

Element(array, i) == array + i + 1

error ==
    /\ pc' = "error"
    /\ UNCHANGED <<loop, memory, blocks, reg, index, turns, effects, last>>

-----------------------------------------------------------------------------
(* for (x : start .. end by step)                                           *)

\* The iterator is x, or an element of the array a.
Iterator == IF loop.element = -1 THEN x ELSE Element(Load(a), loop.element)
IteratorFails == loop.element # -1 /\ outOfBounds(Load(a), loop.element)

startRange ==
    /\ pc = "start" /\ loop.kind = "range"
    /\ IF IteratorFails THEN error
       ELSE /\ reg' = [at |-> Iterator, limit |-> loop.end, step |-> loop.step, cur |-> 0]
            /\ Store(Iterator, loop.start, "header")
            /\ UNCHANGED <<loop, blocks, index, turns, effects>>

headerRange ==
    /\ pc = "header" /\ loop.kind = "range"
    /\ pc' = IF Load(reg.at) < reg.limit THEN "enter" ELSE "exit"
    /\ UNCHANGED <<loop, memory, blocks, reg, index, turns, effects, last>>

enterRange ==
    /\ pc = "enter" /\ loop.kind = "range"
    /\ reg' = [reg EXCEPT !.cur = Load(reg.at)]
    /\ turns' = (turns + 1) % (2 * Limit)
    /\ pc' = "body"
    /\ UNCHANGED <<loop, memory, blocks, index, effects, last>>

nextRange_Reloads ==  \* mutated form: the step is added to what the body left
    /\ pc = "body" /\ loop.kind = "range"
    /\ Store(reg.at, Load(reg.at) + reg.step, "header")
    /\ UNCHANGED <<loop, blocks, reg, index, turns, effects>>

nextRange ==
    /\ pc = "body" /\ loop.kind = "range"
    /\ Store(reg.at, reg.cur + reg.step, "header")
    /\ UNCHANGED <<loop, blocks, reg, index, turns, effects>>

-----------------------------------------------------------------------------
(* for (x : a)                                                              *)

startIterator ==
    /\ pc = "start" /\ loop.kind = "iterator"
    /\ IF IteratorFails THEN error
       ELSE /\ reg' = [at |-> Iterator, array |-> Load(a), length |-> Load(Load(a)), cur |-> 0]
            /\ index' = 1
            /\ pc' = "header"
            /\ UNCHANGED <<loop, memory, blocks, turns, effects, last>>

headerIterator ==
    /\ pc = "header" /\ loop.kind = "iterator"
    /\ pc' = IF index <= reg.length THEN "enter" ELSE "exit"
    /\ UNCHANGED <<loop, memory, blocks, reg, index, turns, effects, last>>

enterIterator ==
    /\ pc = "enter" /\ loop.kind = "iterator"
    /\ reg' = [reg EXCEPT !.cur = index]
    /\ Store(reg.at, Load(reg.array + index), "body")
    /\ turns' = (turns + 1) % (2 * Limit)
    /\ UNCHANGED <<loop, blocks, index, effects>>

nextIterator_Stays ==  \* mutated form: the counter is not stored back
    /\ pc = "body" /\ loop.kind = "iterator"
    /\ pc' = "header"
    /\ UNCHANGED <<loop, memory, blocks, reg, index, turns, effects, last>>

nextIterator ==
    /\ pc = "body" /\ loop.kind = "iterator"
    /\ index' = Wrap(reg.cur + 1)
    /\ pc' = "header"
    /\ UNCHANGED <<loop, memory, blocks, reg, turns, effects, last>>

-----------------------------------------------------------------------------
(* a = [count of E]                                                         *)

startOfArray ==
    /\ pc = "start" /\ loop.kind = "ofArray"
    /\ LET size == arraySize(loop.count)
       IN /\ blocks' = Allocated(size)
          /\ \E p \in Calloc(size) :
                /\ reg' = [array |-> p, length |-> loop.count, cur |-> 0]
                /\ Store(p, loop.count, "header")
    /\ index' = 1
    /\ UNCHANGED <<loop, turns, effects>>

headerOfArray ==
    /\ pc = "header" /\ loop.kind = "ofArray"
    /\ pc' = IF index <= reg.length THEN "enter" ELSE "assign"
    /\ UNCHANGED <<loop, memory, blocks, reg, index, turns, effects, last>>

enterOfArray ==
    /\ pc = "enter" /\ loop.kind = "ofArray"
    /\ reg' = [reg EXCEPT !.cur = index]
    /\ turns' = (turns + 1) % (2 * Limit)
    /\ pc' = "body"
    /\ UNCHANGED <<loop, memory, blocks, index, effects, last>>

nextOfArray ==
    /\ pc = "body" /\ loop.kind = "ofArray"
    /\ \E v \in Values : Store(reg.array + reg.cur, v, "header")
    /\ index' = Wrap(reg.cur + 1)
    /\ UNCHANGED <<loop, blocks, reg, turns, effects>>

assignArray ==
    /\ pc = "assign"
    /\ Store(a, reg.array, "exit")
    /\ UNCHANGED <<loop, blocks, reg, index, turns, effects>>

-----------------------------------------------------------------------------
(* What the body does, or the element expression.                           *)

Effect == pc = "body" /\ effects < MaxEffects /\ effects' = effects + 1

assign ==
    /\ Effect
    /\ \E v \in Values : Store(x, v, "body")
    /\ UNCHANGED <<loop, blocks, reg, index, turns>>

assignElement ==
    /\ Effect
    /\ \E i, v \in Values :
          IF outOfBounds(Load(a), i) THEN pc' = "error" /\ UNCHANGED <<memory, last>>
          ELSE Store(Element(Load(a), i), v, "body")
    /\ UNCHANGED <<loop, blocks, reg, index, turns>>

\* a = [v], in the memory that the array is stored to before a is.
newArray ==
    /\ Effect
    /\ Fits(arraySize(1))
    /\ blocks' = Allocated(arraySize(1))
    /\ \E v \in Values : memory' = [memory EXCEPT ![Used] = 1, ![Used + 1] = v, ![a] = Used]
    /\ last' = a
    /\ UNCHANGED <<loop, pc, reg, index, turns>>

-----------------------------------------------------------------------------

\* a is an array of the length the loop asks for, all zero.
Init ==
    /\ loop \in Loops
    /\ pc = "start"
    /\ blocks = <<[base |-> 3, words |-> loop.elements + 1]>>
    /\ memory = [p \in 1 .. MemoryWords |-> IF p = a THEN 3 ELSE IF p = 3 THEN loop.elements ELSE 0]
    /\ reg = << >> /\ index = 0 /\ turns = 0 /\ effects = 0 /\ last = a

Next ==
    \/ startRange \/ headerRange \/ enterRange \/ nextRange
    \/ startIterator \/ headerIterator \/ enterIterator \/ nextIterator
    \/ startOfArray \/ headerOfArray \/ enterOfArray \/ nextOfArray \/ assignArray
    \/ assign \/ assignElement \/ newArray

Spec == Init /\ [][Next]_vars /\ WF_vars(Next)

-----------------------------------------------------------------------------
(* Properties.                                                              *)

\* [n of E] stores to whatever calloc returns. The bytes asked for are too few when n is
\* negative and when the size does not fit a word, and there may be no room for them.
NoRoom ==
    /\ loop.kind = "ofArray"
    /\ \/ arraySize(loop.count) # (loop.count + 1) * 8
       \/ loop.count < 0
       \/ loop.elements + loop.count + 4 > MemoryWords

(* However the body assigns to what the loop uses, a range loop enters it   *)
(* for start, start + step, start + 2 * step and so on, and leaves the      *)
(* first of them that is not below the end in the iterator; an iteration    *)
(* enters it once for each element, those the array had when it began; and  *)
(* [n of E] evaluates E n times.                                            *)
EveryElementHasItsTurn ==
    /\ loop.kind = "range" =>
          /\ pc \in {"enter", "exit"} => Load(reg.at) = Wrap(loop.start + turns * loop.step)
          /\ pc = "body" => reg.cur < loop.end
    /\ pc = "exit" /\ loop.kind = "iterator" => turns = loop.elements
    /\ pc = "exit" /\ loop.kind = "ofArray" => turns = (IF loop.count < 0 THEN 0 ELSE loop.count)

(* A store goes to a variable or into an array and never to the length of   *)
(* one: the word at the base of a block keeps the number of words after it. *)
(* An array that calloc was not asked enough for is excepted.               *)
StoresStayInside ==
    ~NoRoom =>
        /\ pc # "crash" /\ Inside(last)
        /\ \A i \in DOMAIN blocks : Load(blocks[i].base) = blocks[i].words - 1

(* A loop ends whenever it can: a range loop when some term of its sequence *)
(* is not below the end, or by an error; the other loops always, but for    *)
(* an array without room, which may end the process.                        *)
CanEnd ==
    loop.kind = "range" =>
        \E k \in 0 .. 2 * Limit - 1 : Wrap(loop.start + k * loop.step) >= loop.end
EveryLoopEndsIfItCan == CanEnd ~> (pc \in {"exit", "error"} \/ (NoRoom /\ pc = "crash"))
=============================================================================
