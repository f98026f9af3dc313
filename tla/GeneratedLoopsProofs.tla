------------------------- MODULE GeneratedLoopsProofs -------------------------
(***************************************************************************)
(* Proofs about the memory that generated loops work on, and about the     *)
(* turns they take, for words of any width, memories of any size, bodies   *)
(* with any number of effects and loops of any bounds.                     *)
(***************************************************************************)
EXTENDS GeneratedLoops, SequenceTheorems, TLAPS

LEMMA WrapsNothing == \A n \in 0 .. Limit - 1 : Wrap(n) = n
<1> SUFFICES ASSUME NEW n \in 0 .. Limit - 1 PROVE Wrap(n) = n
  OBVIOUS
<1>1. n + Limit \in 0 .. 2 * Limit - 1
  BY LimitAssumption
<1>2. (n + Limit) % (2 * Limit) = n + Limit
  BY <1>1, LimitAssumption
<1> QED
  BY <1>2, LimitAssumption DEF Wrap

LEMMA SizeOfOne == arraySize(1) = 16 /\ Words(arraySize(1)) = 2
<1>1. 16 % (2 * Limit) = 16
  BY LimitAssumption
<1> QED
  BY <1>1 DEF arraySize, Unsigned, Words

LEMMA SizeOfArray ==
    ASSUME NEW n \in Nat PROVE Words((n + 1) * 8) = n + 1
BY DEF Words
-----------------------------------------------------------------------------
Block == [base : Nat, words : Nat]

(* Every block starts with the number of words that follow, and the blocks  *)
(* lie one after the other above the variables.                             *)
Layout ==
    /\ blocks \in Seq(Block) /\ blocks # << >>
    /\ DOMAIN memory = 1 .. MemoryWords
    /\ memory = [p \in 1 .. MemoryWords |-> memory[p]]
    /\ \A i \in DOMAIN blocks :
          /\ blocks[i].base >= 3 /\ blocks[i].words >= 1
          /\ blocks[i].base + blocks[i].words <= MemoryWords + 1
          /\ memory[blocks[i].base] = blocks[i].words - 1
    /\ \A i, j \in DOMAIN blocks : i < j => blocks[i].base + blocks[i].words <= blocks[j].base

IsArray(p) == \E i \in DOMAIN blocks : p = blocks[i].base
IsArrayOf(p, n) == \E i \in DOMAIN blocks : p = blocks[i].base /\ blocks[i].words = n + 1
IsElement(p) ==
    \E i \in DOMAIN blocks : p \in blocks[i].base + 1 .. blocks[i].base + blocks[i].words - 1

(* What the registers hold while the loop runs.                             *)
Registers ==
    /\ pc = "start" => blocks = <<[base |-> 3, words |-> loop.elements + 1]>>
    /\ pc \in {"header", "enter", "body"} /\ loop.kind \in {"range", "iterator"} =>
          reg.at = x \/ IsElement(reg.at)
    /\ pc \in {"header", "enter", "body", "assign"} /\ loop.kind = "ofArray" =>
          /\ IsArrayOf(reg.array, loop.count) /\ reg.length = loop.count
          /\ index \in Int /\ index >= 1
          /\ pc = "enter" => index <= reg.length
          /\ pc = "body" => reg.cur \in 1 .. reg.length
    /\ pc = "assign" => loop.kind = "ofArray"

Arranged ==
    /\ loop \in Loops
    /\ ~NoRoom =>
          /\ Layout /\ IsArray(memory[a]) /\ Registers
          /\ pc # "crash" /\ Inside(last)

LEMMA ArrangedIsInside == Arranged => StoresStayInside
BY DEF Arranged, Layout, StoresStayInside, Load
-----------------------------------------------------------------------------
LEMMA BlockTyping ==
    ASSUME Layout
    PROVE  /\ \A i \in DOMAIN blocks :
                 /\ blocks[i].base \in Nat /\ blocks[i].words \in Nat
                 /\ blocks[i].base \in 1 .. MemoryWords
           /\ Len(blocks) \in Nat /\ Len(blocks) >= 1 /\ DOMAIN blocks = 1 .. Len(blocks)
<1>1. \A i \in DOMAIN blocks : blocks[i] \in Block
  BY DEF Layout
<1>2. Len(blocks) \in Nat /\ Len(blocks) >= 1 /\ DOMAIN blocks = 1 .. Len(blocks)
  BY EmptySeq DEF Layout
<1>3. \A i \in DOMAIN blocks : blocks[i].base \in Nat /\ blocks[i].words \in Nat
  BY <1>1 DEF Block
<1>4. ASSUME NEW i \in DOMAIN blocks PROVE blocks[i].base \in 1 .. MemoryWords
  <2>1. /\ blocks[i].base >= 3 /\ blocks[i].words >= 1
        /\ blocks[i].base + blocks[i].words <= MemoryWords + 1
    BY DEF Layout
  <2> QED
    BY <1>3, <2>1, MemoryAssumption, LimitAssumption
<1> QED
  BY <1>2, <1>3, <1>4

LEMMA ElementIsNoLength ==
    ASSUME Layout, NEW p, p = x \/ IsElement(p)
    PROVE  /\ p \in 1 .. MemoryWords /\ p # a /\ Inside(p)
           /\ \A i \in DOMAIN blocks : p # blocks[i].base
<1>1. CASE p = x
  BY <1>1, MemoryAssumption, LimitAssumption DEF x, a, Inside, Layout
<1>2. CASE IsElement(p)
  <2>1. PICK j \in DOMAIN blocks : p \in blocks[j].base + 1 .. blocks[j].base + blocks[j].words - 1
    BY <1>2 DEF IsElement
  <2>2. \A i \in DOMAIN blocks : blocks[i].base \in Nat /\ blocks[i].words \in Nat
    BY BlockTyping
  <2>3. DOMAIN blocks \subseteq Nat
    BY BlockTyping
  <2>4. blocks[j].base >= 3 /\ blocks[j].base + blocks[j].words <= MemoryWords + 1
    BY DEF Layout
  <2>5. p \in Int /\ p >= blocks[j].base + 1 /\ p <= blocks[j].base + blocks[j].words - 1
    BY <2>1, <2>2
  <2>6. p \in 1 .. MemoryWords /\ p # a
    BY <2>2, <2>4, <2>5, MemoryAssumption, LimitAssumption DEF a
  <2>7. p \in blocks[j].base .. blocks[j].base + blocks[j].words - 1
    BY <2>2, <2>5
  <2>8. p \in 1 .. MemoryWords /\ p # a /\ Inside(p)
    BY <2>6, <2>7 DEF Inside
  <2>9. ASSUME NEW i \in DOMAIN blocks PROVE p # blocks[i].base
    <3>1. i < j \/ i = j \/ j < i
      BY <2>3
    <3>2. i < j => blocks[i].base + blocks[i].words <= blocks[j].base
      BY DEF Layout
    <3>3. j < i => blocks[j].base + blocks[j].words <= blocks[i].base
      BY DEF Layout
    <3> QED
      BY <2>2, <2>5, <3>1, <3>2, <3>3
  <2> QED
    BY <2>8, <2>9
<1> QED
  BY <1>1, <1>2

(* A store to a variable or an element moves no array and no length.        *)
LEMMA StoreKeepsLayout ==
    ASSUME Layout, IsArray(memory[a]), NEW p, NEW v, NEW next,
           p = x \/ IsElement(p), Store(p, v, next), blocks' = blocks
    PROVE  Layout' /\ IsArray(memory[a])' /\ Inside(last)' /\ pc' = next
<1>1. /\ p \in 1 .. MemoryWords /\ p # a /\ Inside(p)
      /\ \A i \in DOMAIN blocks : p # blocks[i].base
  BY ElementIsNoLength
<1>2. memory' = [memory EXCEPT ![p] = Wrap(v)] /\ pc' = next /\ last' = p
  BY <1>1 DEF Store
<1>3. \A q \in 1 .. MemoryWords : q # p => memory'[q] = memory[q]
  BY <1>2 DEF Layout
<1>4. a \in 1 .. MemoryWords
  BY MemoryAssumption, LimitAssumption DEF a
<1>5. memory'[a] = memory[a]
  BY <1>1, <1>3, <1>4
<1>6. \A i \in DOMAIN blocks : memory'[blocks[i].base] = memory[blocks[i].base]
  BY <1>1, <1>3, BlockTyping
<1>7. DOMAIN memory' = 1 .. MemoryWords /\ memory' = [q \in 1 .. MemoryWords |-> memory'[q]]
  BY <1>2 DEF Layout
<1>8. Layout'
  BY <1>6, <1>7 DEF Layout
<1>9. IsArray(memory[a])'
  BY <1>5 DEF IsArray
<1>10. Inside(last)'
  BY <1>1, <1>2 DEF Inside
<1> QED
  BY <1>2, <1>8, <1>9, <1>10

(* The next free word is above every block.                                 *)
LEMMA UsedIsAbove ==
    ASSUME Layout
    PROVE  /\ Used \in Nat /\ Used >= 4
           /\ \A i \in DOMAIN blocks : blocks[i].base + blocks[i].words <= Used
<1> DEFINE n == Len(blocks)
<1>1. n \in DOMAIN blocks /\ n \in Nat /\ DOMAIN blocks = 1 .. n
  BY BlockTyping
<1>2. \A i \in DOMAIN blocks : blocks[i].base \in Nat /\ blocks[i].words \in Nat
  BY BlockTyping
<1>3. Used = blocks[n].base + blocks[n].words
  BY DEF Used, Layout
<1>4. ASSUME NEW i \in DOMAIN blocks PROVE blocks[i].base + blocks[i].words <= Used
  <2>1. CASE i = n
    BY <1>1, <1>2, <1>3, <2>1
  <2>2. CASE i < n
    <3>1. blocks[i].base + blocks[i].words <= blocks[n].base
      BY <1>1, <2>2 DEF Layout
    <3> QED
      BY <1>1, <1>2, <1>3, <3>1
  <2> QED
    BY <1>1, <2>1, <2>2
<1> QED
  BY <1>1, <1>2, <1>3, <1>4 DEF Layout

(* A new array is laid out behind the others.                               *)
LEMMA AppendKeepsLayout ==
    ASSUME Layout, NEW n \in Nat, Used + n + 1 <= MemoryWords + 1,
           blocks' = Append(blocks, [base |-> Used, words |-> n + 1]),
           DOMAIN memory' = 1 .. MemoryWords, memory' = [p \in 1 .. MemoryWords |-> memory'[p]],
           memory'[Used] = n,
           \A i \in DOMAIN blocks : memory'[blocks[i].base] = memory[blocks[i].base]
    PROVE  /\ Layout'
           /\ \A p : p = Used => IsArrayOf(p, n)'
           /\ \A p : IsElement(p) => IsElement(p)'
           /\ \A p, k : IsArrayOf(p, k) => IsArrayOf(p, k)'
           /\ \A p : IsArray(p) => IsArray(p)'
<1> DEFINE b == [base |-> Used, words |-> n + 1]
           l == Len(blocks)
<1>1. /\ Used \in Nat /\ Used >= 4
      /\ \A i \in DOMAIN blocks : blocks[i].base + blocks[i].words <= Used
  BY UsedIsAbove
<1>2. b \in Block /\ b.base = Used /\ b.words = n + 1
  BY <1>1 DEF Block
<1>3. /\ blocks' \in Seq(Block) /\ Len(blocks') = l + 1
      /\ \A i \in 1 .. l : blocks'[i] = blocks[i]
      /\ blocks'[l + 1] = b
  BY <1>2, AppendProperties DEF Layout
<1>4. l \in Nat /\ DOMAIN blocks = 1 .. l /\ DOMAIN blocks' = 1 .. l + 1
  BY <1>3 DEF Layout
<1> HIDE DEF b, l
<1>5. \A i \in DOMAIN blocks' :
          /\ blocks'[i].base >= 3 /\ blocks'[i].words >= 1
          /\ blocks'[i].base + blocks'[i].words <= MemoryWords + 1
          /\ memory'[blocks'[i].base] = blocks'[i].words - 1
  <2> TAKE i \in DOMAIN blocks'
  <2>1. CASE i = l + 1
    <3>1. blocks'[i].base = Used /\ blocks'[i].words = n + 1
      BY <1>2, <1>3, <2>1
    <3> QED
      BY <1>1, <3>1
  <2>2. CASE i \in DOMAIN blocks
    BY <1>3, <1>4, <2>2 DEF Layout
  <2> QED
    BY <1>4, <2>1, <2>2
<1>6. \A i, j \in DOMAIN blocks' : i < j => blocks'[i].base + blocks'[i].words <= blocks'[j].base
  <2> SUFFICES ASSUME NEW i \in DOMAIN blocks', NEW j \in DOMAIN blocks', i < j
               PROVE  blocks'[i].base + blocks'[i].words <= blocks'[j].base
    OBVIOUS
  <2>1. i \in DOMAIN blocks /\ blocks'[i] = blocks[i]
    BY <1>3, <1>4
  <2>2. CASE j = l + 1
    BY <1>1, <1>2, <1>3, <2>1, <2>2
  <2>3. CASE j \in DOMAIN blocks
    BY <1>3, <1>4, <2>1, <2>3 DEF Layout
  <2> QED
    BY <1>4, <2>2, <2>3
<1>7. Layout'
  <2>1. blocks' \in Seq(Block) /\ blocks' # << >>
    BY <1>3, <1>4
  <2> QED
    BY <1>5, <1>6, <2>1 DEF Layout
<1>8. ASSUME NEW p, p = Used PROVE IsArrayOf(p, n)'
  <2>1. l + 1 \in DOMAIN blocks'
    BY <1>4
  <2>2. p = blocks'[l + 1].base /\ blocks'[l + 1].words = n + 1
    BY <1>2, <1>3, <1>8
  <2> QED
    BY <2>1, <2>2 DEF IsArrayOf
<1> QED
  BY <1>3, <1>4, <1>7, <1>8 DEF IsElement, IsArray, IsArrayOf

(* An access that passes its test is to an element.                         *)
LEMMA AccessIsElement ==
    ASSUME Layout, IsArray(memory[a]), NEW i \in Int, ~outOfBounds(Load(a), i)
    PROVE  IsElement(Element(Load(a), i))
<1>1. PICK k \in DOMAIN blocks : memory[a] = blocks[k].base
  BY DEF IsArray
<1>2. blocks[k].base \in Nat /\ blocks[k].words \in Nat
  BY BlockTyping
<1>3. memory[blocks[k].base] = blocks[k].words - 1
  BY DEF Layout
<1>4. 0 <= i /\ i < blocks[k].words - 1
  BY <1>1, <1>2, <1>3 DEF outOfBounds, Load
<1>5. Element(Load(a), i) \in blocks[k].base + 1 .. blocks[k].base + blocks[k].words - 1
  BY <1>1, <1>2, <1>4 DEF Element, Load
<1> QED
  BY <1>5 DEF IsElement

LEMMA IteratorIsSafe ==
    ASSUME Layout, IsArray(memory[a]), loop \in Loops, loop.kind # "ofArray", ~IteratorFails
    PROVE  Iterator = x \/ IsElement(Iterator)
<1>1. loop.element \in Int
  BY LoopsAssumption
<1>2. CASE loop.element = -1
  BY <1>2 DEF Iterator
<1>3. CASE loop.element # -1
  BY <1>1, <1>3, AccessIsElement DEF IteratorFails, Iterator
<1> QED
  BY <1>2, <1>3

-----------------------------------------------------------------------------
LEMMA InitArranged == Init => Arranged
<1> SUFFICES ASSUME Init PROVE Arranged
  OBVIOUS
<1>1. loop \in Loops /\ loop.elements \in Nat /\ loop.elements + 3 <= MemoryWords
  BY LoopsAssumption DEF Init
<1>2. /\ pc = "start" /\ last = a
      /\ blocks = <<[base |-> 3, words |-> loop.elements + 1]>>
      /\ memory = [p \in 1 .. MemoryWords |-> IF p = a THEN 3 ELSE IF p = 3 THEN loop.elements ELSE 0]
  BY DEF Init
<1>3. /\ [base |-> 3, words |-> loop.elements + 1] \in Block
      /\ blocks \in Seq(Block) /\ blocks # << >> /\ DOMAIN blocks = {1}
      /\ blocks[1].base = 3 /\ blocks[1].words = loop.elements + 1
  BY <1>1, <1>2 DEF Block
<1>4. memory[3] = loop.elements /\ memory[a] = 3
  BY <1>2, MemoryAssumption, LimitAssumption DEF a
<1>5. DOMAIN memory = 1 .. MemoryWords /\ memory = [p \in 1 .. MemoryWords |-> memory[p]]
  BY <1>2
<1>6. Layout
  <2>1. \A i \in DOMAIN blocks :
           /\ i = 1 /\ blocks[i].base = 3 /\ blocks[i].words = loop.elements + 1
           /\ memory[blocks[i].base] = loop.elements
    BY <1>3, <1>4
  <2>2. loop.elements + 1 >= 1 /\ 3 + (loop.elements + 1) <= MemoryWords + 1
    BY <1>1, MemoryAssumption
  <2>3. loop.elements = (loop.elements + 1) - 1
    BY <1>1
  <2>4. \A i \in DOMAIN blocks : memory[blocks[i].base] = blocks[i].words - 1
    BY <2>1, <2>3, Zenon
  <2>5. \A i, j \in DOMAIN blocks : ~(i < j)
    BY <2>1
  <2> QED
    BY <1>3, <1>5, <2>1, <2>2, <2>4, <2>5 DEF Layout
<1>7. IsArray(memory[a]) /\ Inside(last)
  BY <1>2, <1>3, <1>4 DEF IsArray, Inside
<1>8. Registers
  BY <1>2 DEF Registers
<1> QED
  BY <1>1, <1>2, <1>6, <1>7, <1>8 DEF Arranged

LEMMA SameMemory ==
    ASSUME blocks' = blocks, memory' = memory, Layout, IsArray(memory[a])
    PROVE  Layout' /\ IsArray(memory[a])'
BY DEF Layout, IsArray

LEMMA LoopIsKept == [Next]_vars => loop' = loop
BY DEF Next, vars, startRange, headerRange, enterRange, nextRange, startIterator, headerIterator,
   enterIterator, nextIterator, startOfArray, headerOfArray, enterOfArray, nextOfArray, assignArray,
   assign, assignElement, newArray, Effect, error

(* What is to be shown of a step, and what it may be shown from.            *)
Safe == Layout /\ IsArray(memory[a]) /\ Registers /\ pc # "crash" /\ Inside(last)
Before == Safe /\ loop \in Loops /\ loop' = loop /\ ~NoRoom

LEMMA SafeError == Before /\ error => Safe'
BY SameMemory DEF Before, Safe, error, Registers, Inside

LEMMA SafeRange ==
    Before /\ (startRange \/ headerRange \/ enterRange \/ nextRange) => Safe'
<1> SUFFICES ASSUME Before, startRange \/ headerRange \/ enterRange \/ nextRange PROVE Safe'
  OBVIOUS
<1>1. loop.kind = "range" /\ loop' = loop /\ loop \in Loops /\ Safe
  BY DEF Before, startRange, headerRange, enterRange, nextRange
<1>2. CASE startRange /\ IteratorFails
  BY <1>2, SafeError DEF startRange
<1>3. CASE startRange /\ ~IteratorFails
  <2>1. Iterator = x \/ IsElement(Iterator)
    BY <1>1, <1>3, IteratorIsSafe DEF Safe
  <2>2. /\ Store(Iterator, loop.start, "header") /\ blocks' = blocks
        /\ reg' = [at |-> Iterator, limit |-> loop.end, step |-> loop.step, cur |-> 0]
    BY <1>3 DEF startRange
  <2>3. Layout' /\ IsArray(memory[a])' /\ Inside(last)' /\ pc' = "header"
    BY <1>1, <2>1, <2>2, StoreKeepsLayout DEF Safe
  <2>4. reg'.at = x \/ IsElement(reg.at)'
    BY <2>1, <2>2 DEF IsElement
  <2> QED
    BY <1>1, <2>3, <2>4 DEF Safe, Registers
<1>4. CASE headerRange
  BY <1>1, <1>4, SameMemory DEF headerRange, Safe, Registers, Inside, IsElement
<1>5. CASE enterRange
  BY <1>1, <1>5, SameMemory DEF enterRange, Safe, Registers, Inside, IsElement
<1>6. CASE nextRange
  <2>1. reg.at = x \/ IsElement(reg.at)
    BY <1>1, <1>6 DEF nextRange, Safe, Registers
  <2>2. Store(reg.at, reg.cur + reg.step, "header") /\ blocks' = blocks /\ reg' = reg
    BY <1>6 DEF nextRange
  <2>3. Layout' /\ IsArray(memory[a])' /\ Inside(last)' /\ pc' = "header"
    BY <1>1, <2>1, <2>2, StoreKeepsLayout DEF Safe
  <2> QED
    BY <1>1, <2>1, <2>2, <2>3 DEF Safe, Registers, IsElement
<1> QED
  BY <1>2, <1>3, <1>4, <1>5, <1>6

LEMMA SafeIterator ==
    Before /\ (startIterator \/ headerIterator \/ enterIterator \/ nextIterator) => Safe'
<1> SUFFICES ASSUME Before, startIterator \/ headerIterator \/ enterIterator \/ nextIterator
             PROVE  Safe'
  OBVIOUS
<1>1. loop.kind = "iterator" /\ loop' = loop /\ loop \in Loops /\ Safe
  BY DEF Before, startIterator, headerIterator, enterIterator, nextIterator
<1>2. CASE startIterator /\ IteratorFails
  BY <1>2, SafeError DEF startIterator
<1>3. CASE startIterator /\ ~IteratorFails
  <2>1. Iterator = x \/ IsElement(Iterator)
    BY <1>1, <1>3, IteratorIsSafe DEF Safe
  <2>2. /\ blocks' = blocks /\ memory' = memory /\ last' = last /\ pc' = "header"
        /\ reg' = [at |-> Iterator, array |-> Load(a), length |-> Load(Load(a)), cur |-> 0]
    BY <1>3 DEF startIterator
  <2>3. reg'.at = x \/ IsElement(reg.at)'
    BY <2>1, <2>2 DEF IsElement
  <2> QED
    BY <1>1, <2>2, <2>3, SameMemory DEF Safe, Registers, Inside
<1>4. CASE headerIterator
  BY <1>1, <1>4, SameMemory DEF headerIterator, Safe, Registers, Inside, IsElement
<1>5. CASE enterIterator
  <2>1. reg.at = x \/ IsElement(reg.at)
    BY <1>1, <1>5 DEF enterIterator, Safe, Registers
  <2>2. /\ Store(reg.at, Load(reg.array + index), "body") /\ blocks' = blocks
        /\ reg' = [reg EXCEPT !.cur = index]
    BY <1>5 DEF enterIterator
  <2>3. Layout' /\ IsArray(memory[a])' /\ Inside(last)' /\ pc' = "body"
    BY <1>1, <2>1, <2>2, StoreKeepsLayout DEF Safe
  <2> QED
    BY <1>1, <2>1, <2>2, <2>3 DEF Safe, Registers, IsElement
<1>6. CASE nextIterator
  BY <1>1, <1>6, SameMemory DEF nextIterator, Safe, Registers, Inside, IsElement
<1> QED
  BY <1>2, <1>3, <1>4, <1>5, <1>6

(* calloc has room for the array, so its length lands in its own block.     *)
LEMMA SafeStartOfArray == Before /\ startOfArray => Safe'
<1> SUFFICES ASSUME Before, startOfArray PROVE Safe'
  OBVIOUS
<1>1. loop.kind = "ofArray" /\ loop' = loop /\ loop \in Loops /\ Safe /\ ~NoRoom /\ pc = "start"
  BY DEF Before, startOfArray
<1>2. PICK n \in Nat :
        /\ n = loop.count /\ arraySize(n) = (n + 1) * 8
        /\ loop.elements + n + 4 <= MemoryWords
  BY <1>1, LoopsAssumption, MemoryAssumption DEF NoRoom
<1>3. /\ blocks = <<[base |-> 3, words |-> loop.elements + 1]>>
      /\ loop.elements \in Nat
  BY <1>1, LoopsAssumption DEF Safe, Registers
<1>4. PICK u \in Nat : u = Used /\ u = loop.elements + 4
  BY <1>3 DEF Used
<1>5. Words(arraySize(n)) = n + 1
  BY <1>2, SizeOfArray
<1>6. Fits(arraySize(n)) /\ arraySize(n) # 0
  BY <1>2, <1>3, <1>4, <1>5, MemoryAssumption DEF Fits
<1>7. /\ blocks' = Append(blocks, [base |-> u, words |-> n + 1])
      /\ reg' = [array |-> u, length |-> n, cur |-> 0]
      /\ Store(u, n, "header") /\ index' = 1
  BY <1>2, <1>4, <1>5, <1>6 DEF startOfArray, Allocated, Calloc
<1>8. u \in 1 .. MemoryWords /\ u # a /\ a \in 1 .. MemoryWords /\ n \in 0 .. Limit - 1
  BY <1>2, <1>3, <1>4, MemoryAssumption, LimitAssumption DEF a
<1>9. memory' = [memory EXCEPT ![u] = n] /\ pc' = "header" /\ last' = u
  BY <1>7, <1>8, WrapsNothing DEF Store
<1>10. /\ DOMAIN memory' = 1 .. MemoryWords /\ memory' = [p \in 1 .. MemoryWords |-> memory'[p]]
       /\ memory'[u] = n /\ memory'[a] = memory[a]
  BY <1>1, <1>8, <1>9 DEF Safe, Layout
<1>11. \A i \in DOMAIN blocks : memory'[blocks[i].base] = memory[blocks[i].base]
  <2>1. \A i \in DOMAIN blocks : blocks[i].base \in 1 .. MemoryWords /\ blocks[i].base # u
    BY <1>1, <1>3, <1>4, BlockTyping DEF Safe
  <2> QED
    BY <1>1, <1>9, <2>1 DEF Safe, Layout
<1>12. /\ Layout'
       /\ IsArrayOf(u, n)'
       /\ \A p : IsArray(p) => IsArray(p)'
  <2>1. Used + n + 1 <= MemoryWords + 1
    BY <1>2, <1>3, <1>4, MemoryAssumption
  <2> QED
    BY <1>1, <1>4, <1>7, <1>10, <1>11, <2>1, AppendKeepsLayout DEF Safe
<1>13. IsArray(memory[a])'
  BY <1>1, <1>10, <1>12 DEF Safe, IsArray
<1>14. IsArrayOf(reg.array, loop.count)' /\ reg'.length = loop'.count
  BY <1>1, <1>2, <1>7, <1>12 DEF IsArrayOf
<1>15. Inside(last)'
  <2>1. PICK i \in DOMAIN blocks' : u = blocks'[i].base /\ blocks'[i].words = n + 1
    BY <1>12 DEF IsArrayOf
  <2>2. u \in blocks'[i].base .. blocks'[i].base + blocks'[i].words - 1
    BY <2>1
  <2> QED
    BY <1>9, <2>2 DEF Inside
<1> QED
  BY <1>1, <1>7, <1>9, <1>12, <1>13, <1>14, <1>15 DEF Safe, Registers

LEMMA SafeOfArray ==
    Before /\ (headerOfArray \/ enterOfArray \/ nextOfArray \/ assignArray) => Safe'
<1> SUFFICES ASSUME Before, headerOfArray \/ enterOfArray \/ nextOfArray \/ assignArray
             PROVE  Safe'
  OBVIOUS
<1>1. loop' = loop /\ loop \in Loops /\ Safe /\ ~NoRoom /\ loop.kind = "ofArray"
  BY DEF Before, headerOfArray, enterOfArray, nextOfArray, assignArray, Safe, Registers
<1>2. PICK n \in Nat : n = loop.count /\ n < MemoryWords
  BY <1>1, LoopsAssumption, MemoryAssumption DEF NoRoom
<1>3. pc \in {"header", "enter", "body", "assign"}
  BY DEF headerOfArray, enterOfArray, nextOfArray, assignArray
<1>4. PICK i \in DOMAIN blocks : reg.array = blocks[i].base /\ blocks[i].words = n + 1
  BY <1>1, <1>2, <1>3 DEF Safe, Registers, IsArrayOf
<1>5. reg.length = n /\ index \in Int /\ index >= 1
  BY <1>1, <1>2, <1>3 DEF Safe, Registers
<1>6. blocks[i].base \in Nat /\ blocks[i].base >= 3 /\ blocks[i].base \in 1 .. MemoryWords
  BY <1>1, BlockTyping DEF Safe, Layout
<1>7. CASE headerOfArray
  BY <1>1, <1>5, <1>7, SameMemory DEF headerOfArray, Safe, Registers, Inside, IsArrayOf
<1>8. CASE enterOfArray
  <2>1. index \in 1 .. n
    BY <1>1, <1>2, <1>5, <1>8 DEF enterOfArray, Safe, Registers
  <2>2. reg'.cur = index /\ reg'.array = reg.array /\ reg'.length = reg.length
    BY <1>8 DEF enterOfArray
  <2> QED
    BY <1>1, <1>5, <1>8, <2>1, <2>2, SameMemory DEF enterOfArray, Safe, Registers, Inside, IsArrayOf
<1>9. CASE nextOfArray
  <2>1. PICK c \in 1 .. n : c = reg.cur
    BY <1>1, <1>5, <1>9 DEF nextOfArray, Safe, Registers
  <2>2. PICK v \in Values : Store(reg.array + reg.cur, v, "header")
    BY <1>9 DEF nextOfArray
  <2>3. reg.array + reg.cur \in blocks[i].base + 1 .. blocks[i].base + blocks[i].words - 1
    BY <1>4, <1>6, <2>1
  <2>4. IsElement(reg.array + reg.cur)
    BY <2>3 DEF IsElement
  <2>5. Layout' /\ IsArray(memory[a])' /\ Inside(last)' /\ pc' = "header"
    BY <1>1, <1>9, <2>2, <2>4, StoreKeepsLayout DEF nextOfArray, Safe
  <2>6. index' = c + 1
    BY <1>2, <1>9, <2>1, WrapsNothing, MemoryAssumption, LimitAssumption DEF nextOfArray
  <2> QED
    BY <1>1, <1>3, <1>9, <2>1, <2>5, <2>6 DEF nextOfArray, Safe, Registers, IsArrayOf
<1>10. CASE assignArray
  <2>1. a \in 1 .. MemoryWords /\ reg.array \in 0 .. Limit - 1
    BY <1>4, <1>6, MemoryAssumption, LimitAssumption DEF a
  <2>2. memory' = [memory EXCEPT ![a] = reg.array] /\ last' = a /\ pc' = "exit" /\ blocks' = blocks
    BY <1>10, <2>1, WrapsNothing DEF assignArray, Store
  <2>3. /\ DOMAIN memory' = 1 .. MemoryWords /\ memory' = [p \in 1 .. MemoryWords |-> memory'[p]]
        /\ memory'[a] = reg.array
    BY <1>1, <2>1, <2>2 DEF Safe, Layout
  <2>4. \A k \in DOMAIN blocks : memory'[blocks[k].base] = memory[blocks[k].base]
    <3>1. \A k \in DOMAIN blocks : blocks[k].base \in 1 .. MemoryWords /\ blocks[k].base # a
      BY <1>1, BlockTyping DEF Safe, Layout, a
    <3> QED
      BY <1>1, <2>2, <3>1 DEF Safe, Layout
  <2>5. Layout'
    BY <1>1, <2>2, <2>3, <2>4 DEF Safe, Layout
  <2>6. IsArray(memory[a])' /\ Inside(last)'
    BY <1>4, <2>2, <2>3 DEF IsArray, Inside
  <2> QED
    BY <2>2, <2>5, <2>6 DEF Safe, Registers
<1> QED
  BY <1>7, <1>8, <1>9, <1>10

(* The body may do what it likes with the variables and their elements.     *)
LEMMA SafeEffect == Before /\ (assign \/ assignElement) => Safe'
<1> SUFFICES ASSUME Before, assign \/ assignElement PROVE Safe'
  OBVIOUS
<1>1. loop' = loop /\ Safe
  BY DEF Before
<1>2. pc = "body" /\ blocks' = blocks /\ reg' = reg /\ index' = index
  BY DEF assign, assignElement, Effect
<1>3. ASSUME Layout', IsArray(memory[a])', Inside(last)', pc' \in {"body", "error"}
      PROVE  Safe'
  BY <1>1, <1>2, <1>3 DEF Safe, Registers, IsElement, IsArrayOf
<1>4. CASE assign
  <2>1. PICK v \in Values : Store(x, v, "body")
    BY <1>4 DEF assign
  <2> QED
    BY <1>1, <1>2, <1>3, <2>1, StoreKeepsLayout DEF Safe
<1>5. CASE assignElement
  <2>1. PICK i \in Values, v \in Values :
           IF outOfBounds(Load(a), i) THEN pc' = "error" /\ UNCHANGED <<memory, last>>
           ELSE Store(Element(Load(a), i), v, "body")
    BY <1>5 DEF assignElement
  <2>2. i \in Int
    BY ValuesAssumption
  <2>3. CASE outOfBounds(Load(a), i)
    BY <1>1, <1>2, <1>3, <2>1, <2>3, SameMemory DEF Safe, Inside
  <2>4. CASE ~outOfBounds(Load(a), i)
    <3>1. IsElement(Element(Load(a), i))
      BY <1>1, <2>2, <2>4, AccessIsElement DEF Safe
    <3> QED
      BY <1>1, <1>2, <1>3, <2>1, <2>4, <3>1, StoreKeepsLayout DEF Safe
  <2> QED
    BY <2>3, <2>4
<1> QED
  BY <1>4, <1>5

LEMMA SafeNewArray == Before /\ newArray => Safe'
<1> SUFFICES ASSUME Before, newArray PROVE Safe'
  OBVIOUS
<1>1. loop' = loop /\ Safe
  BY DEF Before
<1>2. PICK u \in Nat : u = Used /\ u >= 4 /\ \A i \in DOMAIN blocks : blocks[i].base + blocks[i].words <= u
  BY <1>1, UsedIsAbove DEF Safe
<1>3. u + 2 <= MemoryWords + 1
  BY <1>2, SizeOfOne DEF newArray, Fits
<1>4. PICK v \in Values : memory' = [memory EXCEPT ![u] = 1, ![u + 1] = v, ![a] = u]
  BY <1>2 DEF newArray
<1>5. /\ blocks' = Append(blocks, [base |-> u, words |-> 2]) /\ pc = "body" /\ pc' = "body"
      /\ reg' = reg /\ index' = index /\ last' = a
  BY <1>2, <1>3, SizeOfOne DEF newArray, Fits, Allocated, Effect
<1>6. u \in 1 .. MemoryWords /\ u + 1 \in 1 .. MemoryWords /\ a \in 1 .. MemoryWords /\ u > a
  BY <1>2, <1>3, MemoryAssumption, LimitAssumption DEF a
<1>7. /\ DOMAIN memory' = 1 .. MemoryWords /\ memory' = [p \in 1 .. MemoryWords |-> memory'[p]]
      /\ memory'[u] = 1 /\ memory'[a] = u
      /\ \A p \in 1 .. MemoryWords : p < u /\ p # a => memory'[p] = memory[p]
  <2>1. DOMAIN memory = 1 .. MemoryWords
    BY <1>1 DEF Safe, Layout
  <2>2. memory' = [p \in 1 .. MemoryWords |->
                     IF p = a THEN u ELSE IF p = u + 1 THEN v ELSE IF p = u THEN 1 ELSE memory[p]]
    BY <1>4, <1>6, <2>1
  <2>3. u # u + 1 /\ u # a /\ \A p \in 1 .. MemoryWords : p < u => p # u /\ p # u + 1
    BY <1>6
  <2> QED
    BY <1>6, <2>2, <2>3
<1>8. \A i \in DOMAIN blocks : memory'[blocks[i].base] = memory[blocks[i].base]
  <2>1. \A i \in DOMAIN blocks :
           blocks[i].base \in 1 .. MemoryWords /\ blocks[i].base < u /\ blocks[i].base # a
    BY <1>1, <1>2, BlockTyping DEF Safe, Layout, a
  <2> QED
    BY <1>7, <2>1
<1>9. /\ Layout'
      /\ IsArrayOf(u, 1)'
      /\ \A p : IsElement(p) => IsElement(p)'
      /\ \A p, k : IsArrayOf(p, k) => IsArrayOf(p, k)'
  <2>1. Used + 1 + 1 <= MemoryWords + 1 /\ 1 + 1 = 2 /\ 1 \in Nat
    BY <1>2, <1>3
  <2> QED
    BY <1>1, <1>2, <1>5, <1>7, <1>8, <2>1, AppendKeepsLayout DEF Safe
<1>10. IsArray(memory[a])' /\ Inside(last)'
  BY <1>5, <1>7, <1>9 DEF IsArray, IsArrayOf, Inside
<1>11. IsElement(reg.at) => IsElement(reg.at)'
  BY <1>5, <1>9 DEF IsElement
<1>12. IsArrayOf(reg.array, loop.count) => IsArrayOf(reg.array, loop.count)'
  BY <1>1, <1>5, <1>9 DEF IsArrayOf
<1> QED
  BY <1>1, <1>5, <1>9, <1>10, <1>11, <1>12 DEF Safe, Registers

LEMMA NextArranged == Arranged /\ [Next]_vars => Arranged'
<1> SUFFICES ASSUME Arranged, [Next]_vars PROVE Arranged'
  OBVIOUS
<1>1. loop' = loop /\ loop' \in Loops
  BY LoopIsKept DEF Arranged
<1>2. NoRoom' <=> NoRoom
  BY <1>1 DEF NoRoom
<1>3. CASE NoRoom
  BY <1>1, <1>2, <1>3 DEF Arranged
<1>4. CASE ~NoRoom
  <2>1. Before
    BY <1>1, <1>4 DEF Before, Safe, Arranged
  <2>2. UNCHANGED vars => Safe'
    BY <2>1, SameMemory DEF vars, Before, Safe, Registers, Inside, IsElement, IsArrayOf
  <2>3. Next => Safe'
    BY <2>1, SafeRange, SafeIterator, SafeStartOfArray, SafeOfArray, SafeEffect, SafeNewArray
       DEF Next
  <2> QED
    BY <1>1, <1>2, <2>2, <2>3 DEF Safe, Arranged
<1> QED
  BY <1>3, <1>4

(* For words of any width, memories of any size, loops of any bounds and    *)
(* bodies that make any number of assignments: as long as calloc has been   *)
(* asked for enough, generated loops and accesses store to variables and    *)
(* elements only, and the length every later access is tested against is    *)
(* the length of its array.                                                 *)
THEOREM LoopsStoreInside == Spec => []StoresStayInside
<1>1. Init => Arranged
  BY InitArranged
<1>2. Arranged /\ [Next]_vars => Arranged'
  BY NextArranged
<1>3. Arranged => StoresStayInside
  BY ArrangedIsInside
<1> QED
  BY <1>1, <1>2, <1>3, PTL DEF Spec
-----------------------------------------------------------------------------
(* Arithmetic of words: only the remainder by 2 * Limit is kept.            *)
LEMMA Division ==
    ASSUME NEW n \in Int, NEW m \in Nat, m > 0
    PROVE  n \div m \in Int /\ n % m \in 0 .. m - 1 /\ n = m * (n \div m) + (n % m)
OBVIOUS

(* A multiple of m between -m and m is zero.                               *)
LEMMA SmallMultiple ==
    ASSUME NEW m \in Nat, m > 0, NEW q \in Int, m * q < m, m * q > -m
    PROVE  q = 0
<1>1. CASE q >= 1
  <2>1. PICK k \in Nat : q = k + 1
    <3>1. q - 1 \in Nat /\ q = (q - 1) + 1
      BY <1>1
    <3> QED
      BY <3>1
  <2>2. m * q = m * k + m
    BY <2>1
  <2>3. m * k >= 0
    OBVIOUS
  <2> QED
    BY <2>2, <2>3
<1>2. CASE q <= -1
  <2>1. PICK k \in Nat : q = -k - 1
    <3>1. -q - 1 \in Nat /\ q = -(-q - 1) - 1
      BY <1>2
    <3> QED
      BY <3>1
  <2>2. m * q = -(m * k) - m
    BY <2>1
  <2>3. m * k >= 0
    OBVIOUS
  <2> QED
    BY <2>2, <2>3
<1> QED
  BY <1>1, <1>2

(* Adding a multiple of m leaves the remainder by m.                        *)
LEMMA SameRemainder ==
    ASSUME NEW m \in Nat, m > 0, NEW n \in Int, NEW k \in Int
    PROVE  (n + m * k) % m = n % m
<1>1. PICK q \in Int, r \in 0 .. m - 1 : n = m * q + r /\ r = n % m
  BY Division
<1>2. PICK p \in Int, s \in 0 .. m - 1 : n + m * k = m * p + s /\ s = (n + m * k) % m
  <2>1. n + m * k \in Int
    OBVIOUS
  <2> QED
    BY <2>1, Division
<1>3. m * (q + k - p) = s - r
  BY <1>1, <1>2
<1>4. q + k - p = 0
  <2>1. s - r < m /\ s - r > -m
    OBVIOUS
  <2>2. q + k - p \in Int
    OBVIOUS
  <2> QED
    BY <1>3, <2>1, <2>2, SmallMultiple
<1>5. s - r = 0
  <2>1. m * 0 = 0
    OBVIOUS
  <2> QED
    BY <1>3, <1>4, <2>1
<1> QED
  BY <1>1, <1>2, <1>5

LEMMA WordSize == 2 * Limit \in Nat /\ 2 * Limit > 0 /\ Limit \in Nat /\ Limit >= 16
BY LimitAssumption

LEMMA WrapIsWord ==
    ASSUME NEW n \in Int
    PROVE  /\ Wrap(n) \in -Limit .. Limit - 1
           /\ \E q \in Int : Wrap(n) = n + (2 * Limit) * q
<1>1. PICK m \in Nat : m = 2 * Limit /\ m > 0
  BY WordSize
<1>2. PICK k \in Int : k = n + Limit
  BY WordSize
<1>3. k % m \in 0 .. m - 1 /\ k = m * (k \div m) + (k % m) /\ k \div m \in Int
  BY <1>1, Division
<1>4. Wrap(n) = (k % m) - Limit
  BY <1>1, <1>2 DEF Wrap
<1>5. PICK q \in Int : q = -(k \div m)
  BY <1>3
<1>6. Wrap(n) = n + m * q
  BY <1>2, <1>3, <1>4, <1>5, WordSize
<1> QED
  BY <1>1, <1>3, <1>4, <1>6, WordSize

LEMMA WrapKeepsRemainder ==
    ASSUME NEW n \in Int, NEW q \in Int
    PROVE  Wrap(n + (2 * Limit) * q) = Wrap(n)
<1>1. PICK m \in Nat, k \in Int : m = 2 * Limit /\ m > 0 /\ k = n + Limit
  BY WordSize
<1>2. PICK e \in Int : e = m * q
  BY <1>1
<1>3. (k + e) % m = k % m
  BY <1>1, <1>2, SameRemainder
<1>4. n + e + Limit = k + e
  BY <1>1, WordSize
<1> QED
  BY <1>1, <1>2, <1>3, <1>4 DEF Wrap

(* Adding to a word is adding to the number that it stands for.            *)
LEMMA WrapAdds ==
    ASSUME NEW n \in Int, NEW d \in Int
    PROVE  Wrap(Wrap(n) + d) = Wrap(n + d)
<1>1. PICK w \in Int, q \in Int : w = Wrap(n) /\ w = n + (2 * Limit) * q
  BY WrapIsWord
<1>2. w + d = (n + d) + (2 * Limit) * q
  BY <1>1, WordSize
<1>3. Wrap((n + d) + (2 * Limit) * q) = Wrap(n + d)
  BY WrapKeepsRemainder
<1> QED
  BY <1>1, <1>2, <1>3

(* And so is one more turn, though turns are counted modulo 2 * Limit.      *)
LEMMA WrapCounts ==
    ASSUME NEW start \in Int, NEW step \in Int, NEW t \in Nat
    PROVE  Wrap(start + ((t + 1) % (2 * Limit)) * step) = Wrap((start + t * step) + step)
<1>1. PICK m \in Nat, k \in Int : m = 2 * Limit /\ m > 0 /\ k = t + 1
  BY WordSize
<1>2. PICK r \in 0 .. m - 1, q \in Int : k = m * q + r /\ r = k % m
  BY <1>1, Division
<1>3. PICK n \in Int : n = start + r * step
  OBVIOUS
<1>4. PICK p \in Int : p = q * step
  OBVIOUS
<1>5. (start + t * step) + step = n + m * p
  <2>1. PICK e \in Int : e = m * q
    OBVIOUS
  <2>2. (start + t * step) + step = start + k * step
    BY <1>1
  <2>3. k = e + r
    BY <1>2, <2>1
  <2>4. k * step = e * step + r * step
    BY <2>3
  <2>5. e * step = m * p
    BY <1>4, <2>1
  <2>6. k * step \in Int /\ e * step \in Int /\ r * step \in Int /\ m * p \in Int
    OBVIOUS
  <2> QED
    BY <1>3, <2>2, <2>4, <2>5, <2>6
<1>6. Wrap(n + (2 * Limit) * p) = Wrap(n)
  BY WrapKeepsRemainder
<1>7. (t + 1) % (2 * Limit) = r
  BY <1>1, <1>2
<1>8. Wrap(start + ((t + 1) % (2 * Limit)) * step) = Wrap(n)
  BY <1>3, <1>7
<1>9. Wrap((start + t * step) + step) = Wrap(n + m * p)
  BY <1>5
<1> QED
  BY <1>1, <1>6, <1>8, <1>9
-----------------------------------------------------------------------------
(* The word that the iterator has to hold before the body is entered again, *)
(* after so many turns, and how many turns the other loops take.            *)
Term(t) == Wrap(loop.start + t * loop.step)
Count == IF loop.kind = "iterator" THEN loop.elements ELSE loop.count
Turns == IF Count < 0 THEN 0 ELSE Count

(* A range loop: the registers keep the bounds, the iterator holds its term *)
(* outside of the body, and in it the register is one step before the next. *)
RangeTurns ==
    /\ turns \in Nat
    /\ pc = "start" => turns = 0
    /\ pc \in {"header", "enter", "body", "exit"} =>
          reg = [at |-> reg.at, limit |-> loop.end, step |-> loop.step, cur |-> reg.cur]
    /\ pc \in {"header", "enter", "exit"} => memory[reg.at] = Term(turns)
    /\ pc = "enter" => Term(turns) < loop.end
    /\ pc = "body" =>
          reg.cur \in Int /\ reg.cur < loop.end /\ Wrap(reg.cur + loop.step) = Term(turns)

(* The other loops: the hidden counter is one more than the turns that are  *)
(* done. A count that no word is above is never passed.                     *)
CounterTurns ==
    /\ turns \in Nat /\ index \in Int /\ index <= Limit - 1
    /\ pc = "start" => turns = 0
    /\ pc = "start" /\ loop.kind = "iterator" => memory[a] = 3 /\ memory[3] = loop.elements
    /\ pc \in {"header", "enter", "body", "assign"} => reg.length = Count
    /\ pc = "body" => reg.cur = index
    /\ pc = "enter" => index <= Count
    /\ pc \in {"assign", "exit"} => Count < Limit - 1 /\ turns = Turns
    /\ Count < Limit - 1 =>
          /\ pc = "header" => index = turns + 1 /\ index <= Turns + 1
          /\ pc = "enter" => index = turns + 1
          /\ pc = "body" => index = turns /\ index <= Count

Counted ==
    /\ Arranged
    /\ loop.kind = "range" => RangeTurns
    /\ loop.kind # "range" => CounterTurns

LEMMA CountedHasItsTurn == Counted => EveryElementHasItsTurn
<1> SUFFICES ASSUME Counted PROVE EveryElementHasItsTurn
  OBVIOUS
<1>1. CASE loop.kind = "range"
  BY <1>1 DEF Counted, RangeTurns, Term, EveryElementHasItsTurn, Load
<1>2. CASE loop.kind = "iterator"
  <2>1. loop.elements \in Nat
    BY LoopsAssumption DEF Counted, Arranged
  <2> QED
    BY <1>2, <2>1 DEF Counted, CounterTurns, Turns, Count, EveryElementHasItsTurn
<1>3. CASE loop.kind = "ofArray"
  BY <1>3 DEF Counted, CounterTurns, Turns, Count, EveryElementHasItsTurn
<1>4. loop.kind \in {"range", "iterator", "ofArray"}
  BY LoopsAssumption DEF Counted, Arranged
<1> QED
  BY <1>1, <1>2, <1>3, <1>4

LEMMA InitCounted == Init => Counted
<1> SUFFICES ASSUME Init PROVE Counted
  OBVIOUS
<1>1. Arranged
  BY InitArranged
<1>2. a = 2 /\ memory[a] = 3 /\ memory[3] = loop.elements
  <2>1. 2 \in 1 .. MemoryWords /\ 3 \in 1 .. MemoryWords /\ a = 2
    BY MemoryAssumption, LimitAssumption DEF a
  <2> QED
    BY <2>1 DEF Init
<1>3. turns = 0 /\ index = 0 /\ pc = "start" /\ Limit >= 16 /\ Limit \in Nat
  BY LimitAssumption DEF Init
<1> QED
  BY <1>1, <1>2, <1>3 DEF Counted, RangeTurns, CounterTurns

(* The body may write the iterator: the next term comes from the register.  *)
LEMMA CountedRange ==
    ASSUME Counted, loop.kind = "range", Next, Arranged'
    PROVE  RangeTurns'
<1>1. /\ loop' = loop /\ loop \in Loops /\ Layout /\ IsArray(memory[a]) /\ RangeTurns
      /\ Registers
  BY LoopIsKept DEF Counted, Arranged, NoRoom
<1>2. PICK s \in Int, d \in Int, e \in Int : s = loop.start /\ d = loop.step /\ e = loop.end
  BY <1>1, LoopsAssumption
<1>3. PICK t \in Nat : t = turns
  BY <1>1 DEF RangeTurns
<1>4. \A k : Term(k) = Wrap(s + k * d) /\ Term(k)' = Wrap(s + k * d)
  BY <1>1, <1>2 DEF Term
<1>5. CASE error
  BY <1>1, <1>5 DEF error, RangeTurns
<1>6. CASE startRange /\ ~IteratorFails
  <2>1. PICK p : p = Iterator
    OBVIOUS
  <2>2. p \in 1 .. MemoryWords
    BY <1>1, <2>1, <1>6, IteratorIsSafe, ElementIsNoLength
  <2>3. /\ memory' = [memory EXCEPT ![p] = Wrap(s)] /\ pc' = "header" /\ turns' = turns
        /\ reg' = [at |-> p, limit |-> e, step |-> d, cur |-> 0]
    BY <1>2, <1>6, <2>1, <2>2 DEF startRange, Store
  <2>4. memory'[p] = Wrap(s)
    BY <1>1, <2>2, <2>3 DEF Layout
  <2>5. turns = 0
    BY <1>1, <1>6 DEF startRange, RangeTurns
  <2>6. Wrap(s + 0 * d) = Wrap(s)
    <3>1. s + 0 * d = s
      OBVIOUS
    <3> QED
      BY <3>1
  <2>7. Term(0)' = Wrap(s)
    BY <1>4, <2>6
  <2> QED
    BY <1>1, <1>2, <2>3, <2>4, <2>5, <2>7 DEF RangeTurns
<1>7. CASE headerRange
  <2>1. /\ pc = "header" /\ UNCHANGED <<memory, reg, turns>>
        /\ pc' = IF memory[reg.at] < reg.limit THEN "enter" ELSE "exit"
    BY <1>7 DEF headerRange, Load
  <2>2. /\ reg = [at |-> reg.at, limit |-> e, step |-> d, cur |-> reg.cur]
        /\ memory[reg.at] = Term(t)
    BY <1>1, <1>2, <1>3, <2>1 DEF RangeTurns
  <2>3. Term(t)' = Term(t)
    BY <1>4
  <2> QED
    BY <1>1, <1>2, <1>3, <2>1, <2>2, <2>3 DEF RangeTurns
<1>8. CASE enterRange
  <2>1. PICK w \in Int : w = Wrap(s + t * d) /\ w < e
    <3>1. Wrap(s + t * d) < e
      BY <1>1, <1>2, <1>3, <1>4, <1>8 DEF enterRange, RangeTurns
    <3>2. s + t * d \in Int
      OBVIOUS
    <3>3. Wrap(s + t * d) \in Int
      BY <3>2, WrapIsWord, WordSize
    <3> QED
      BY <3>1, <3>3
  <2>2. memory[reg.at] = w /\ reg = [at |-> reg.at, limit |-> e, step |-> d, cur |-> reg.cur]
    BY <1>1, <1>2, <1>3, <1>4, <1>8, <2>1 DEF enterRange, RangeTurns
  <2>3. /\ reg' = [reg EXCEPT !.cur = w] /\ turns' = (t + 1) % (2 * Limit)
        /\ pc' = "body"
    BY <1>3, <1>8, <2>2 DEF enterRange, Load
  <2>4. reg' = [at |-> reg'.at, limit |-> e, step |-> d, cur |-> w]
    BY <2>2, <2>3
  <2>5. turns' \in Nat
    BY <2>3, WordSize
  <2>6. Wrap(w + d) = Wrap((s + t * d) + d)
    <3>1. s + t * d \in Int
      OBVIOUS
    <3> QED
      BY <2>1, <3>1, WrapAdds
  <2>7. Wrap(s + turns' * d) = Wrap((s + t * d) + d)
    <3>1. Wrap(s + ((t + 1) % (2 * Limit)) * d) = Wrap((s + t * d) + d)
      BY WrapCounts
    <3> QED
      BY <2>3, <3>1
  <2>8. Wrap(w + d) = Term(turns)'
    BY <1>1, <1>2, <2>6, <2>7 DEF Term
  <2> QED
    BY <1>1, <1>2, <2>1, <2>3, <2>4, <2>5, <2>8 DEF RangeTurns
<1>9. CASE nextRange
  <2>1. PICK c \in Int : c = reg.cur /\ Wrap(c + d) = Wrap(s + t * d)
    <3>1. reg.cur \in Int /\ Wrap(reg.cur + d) = Wrap(s + t * d)
      BY <1>1, <1>2, <1>3, <1>4, <1>9 DEF nextRange, RangeTurns
    <3> QED
      BY <3>1
  <2>2. PICK p : p = reg.at
    OBVIOUS
  <2>3. reg = [at |-> p, limit |-> e, step |-> d, cur |-> c]
    BY <1>1, <1>2, <1>9, <2>1, <2>2 DEF nextRange, RangeTurns
  <2>4. p \in 1 .. MemoryWords
    BY <1>1, <1>9, <2>2, ElementIsNoLength DEF nextRange, Registers
  <2>5. memory' = [memory EXCEPT ![p] = Wrap(c + d)] /\ pc' = "header" /\ reg' = reg /\ turns' = t
    BY <1>3, <1>9, <2>1, <2>3, <2>4 DEF nextRange, Store
  <2>6. memory'[p] = Wrap(c + d)
    BY <1>1, <2>4, <2>5 DEF Layout
  <2>7. memory'[p] = Term(t)'
    BY <1>4, <2>1, <2>6
  <2> QED
    BY <1>1, <1>2, <2>3, <2>5, <2>7 DEF RangeTurns
<1>10. CASE assign \/ assignElement \/ newArray
  <2>1. pc = "body" /\ reg' = reg /\ turns' = turns
    BY <1>10 DEF assign, assignElement, newArray, Effect
  <2>2. pc' \in {"body", "error", "crash"}
    BY <1>10, <2>1 DEF assign, assignElement, newArray, Store
  <2>3. Term(t)' = Term(t)
    BY <1>4
  <2> QED
    BY <1>1, <1>3, <2>1, <2>2, <2>3 DEF RangeTurns
<1>11. error \/ (startRange /\ ~IteratorFails) \/ headerRange \/ enterRange \/ nextRange
       \/ assign \/ assignElement \/ newArray
  <2>1. loop.kind = "range"
    OBVIOUS
  <2>2. pc = "assign" => loop.kind = "ofArray"
    BY <1>1 DEF Registers
  <2> QED
    BY <2>1, <2>2 DEF Next, startRange, startIterator, headerIterator, enterIterator, nextIterator,
       startOfArray, headerOfArray, enterOfArray, nextOfArray, assignArray
<1> QED
  BY <1>5, <1>6, <1>7, <1>8, <1>9, <1>10, <1>11

(* The hidden counter is out of reach of the body.                          *)
LEMMA CountedOthers ==
    ASSUME Counted, loop.kind # "range", Next
    PROVE  CounterTurns'
<1>1. /\ loop' = loop /\ loop \in Loops /\ CounterTurns
      /\ loop.kind \in {"iterator", "ofArray"} /\ Count' = Count /\ Turns' = Turns
  <2>1. loop' = loop /\ loop \in Loops /\ CounterTurns
    BY LoopIsKept DEF Counted, Arranged
  <2> QED
    BY <2>1, LoopsAssumption DEF Count, Turns
<1>2. PICK n \in Int : n = Count
  BY <1>1, LoopsAssumption DEF Count
<1>3. PICK l \in Nat : l = Limit /\ l >= 16
  BY LimitAssumption
<1>4. PICK t \in Nat, i \in Int : t = turns /\ i = index /\ i <= l - 1
  BY <1>1, <1>3 DEF CounterTurns
<1>5. CASE error
  BY <1>1, <1>5 DEF error, CounterTurns
<1>6. CASE startIterator /\ ~IteratorFails
  <2>1. loop.elements + 3 <= MemoryWords /\ loop.elements \in Nat /\ loop.kind = "iterator"
        /\ MemoryWords \in 4 .. Limit - 1
    BY <1>1, <1>6, LoopsAssumption, MemoryAssumption DEF startIterator
  <2>2. n = loop.elements /\ n < l - 1 /\ n >= 0 /\ Turns = n
    BY <1>2, <1>3, <2>1 DEF Count, Turns
  <2>3. /\ reg'.length = n /\ index' = 1 /\ pc' = "header" /\ turns' = 0
    BY <1>1, <1>6, <2>2 DEF startIterator, CounterTurns, Load
  <2> QED
    BY <1>1, <1>2, <1>3, <2>2, <2>3 DEF CounterTurns
<1>7. CASE startOfArray
  <2>1. n = loop.count
    BY <1>2, <1>7 DEF startOfArray, Count
  <2>2. /\ reg'.length = n /\ index' = 1 /\ pc' \in {"header", "crash"} /\ turns' = 0
    BY <1>1, <1>7, <2>1 DEF startOfArray, CounterTurns, Store
  <2>3. Turns \in Nat
    BY <1>2 DEF Turns
  <2> QED
    BY <1>1, <1>2, <1>3, <2>2, <2>3 DEF CounterTurns
<1>8. CASE headerIterator \/ headerOfArray
  <2>1. /\ pc = "header" /\ reg.length = n /\ UNCHANGED <<reg, index, turns>>
        /\ IF i <= n THEN pc' = "enter" ELSE pc' \in {"exit", "assign"}
    BY <1>1, <1>2, <1>4, <1>8 DEF headerIterator, headerOfArray, CounterTurns
  <2>2. CASE i <= n
    BY <1>1, <1>2, <1>4, <2>1, <2>2 DEF CounterTurns
  <2>3. CASE ~(i <= n)
    <3>1. n < l - 1
      BY <1>4, <2>3
    <3>2. i = t + 1 /\ i <= Turns + 1
      BY <1>1, <1>2, <1>3, <1>4, <2>1, <3>1 DEF CounterTurns
    <3>3. Turns = t
      BY <1>2, <2>3, <3>2 DEF Turns
    <3> QED
      BY <1>1, <1>2, <1>3, <1>4, <2>1, <2>3, <3>1, <3>3 DEF CounterTurns
  <2> QED
    BY <2>2, <2>3
<1>9. CASE enterIterator \/ enterOfArray
  <2>1. /\ pc = "enter" /\ reg.length = n /\ i <= n /\ index' = i
        /\ reg' = [reg EXCEPT !.cur = i] /\ turns' = (t + 1) % (2 * l)
        /\ pc' \in {"body", "crash"}
    BY <1>1, <1>2, <1>3, <1>4, <1>9 DEF enterIterator, enterOfArray, Store, CounterTurns
  <2>2. reg'.cur = i /\ reg'.length = n
    BY <2>1
  <2>3. turns' \in Nat
    BY <1>3, <2>1
  <2>4. n < l - 1 => i = t + 1 /\ turns' = i
    <3>1. n < l - 1 => i = t + 1
      BY <1>1, <1>2, <1>3, <1>4, <2>1 DEF CounterTurns
    <3>2. t + 1 < 2 * l => (t + 1) % (2 * l) = t + 1
      BY <1>3
    <3> QED
      BY <1>3, <1>4, <2>1, <3>1, <3>2
  <2> QED
    BY <1>1, <1>2, <1>3, <1>4, <2>1, <2>2, <2>3, <2>4 DEF CounterTurns
<1>10. CASE nextIterator \/ nextOfArray
  <2>1. /\ pc = "body" /\ reg.length = n /\ reg.cur = i /\ index' = Wrap(i + 1)
        /\ UNCHANGED <<reg, turns>> /\ pc' \in {"header", "crash"}
    BY <1>1, <1>2, <1>4, <1>10 DEF nextIterator, nextOfArray, Store, CounterTurns
  <2>2. index' \in Int /\ index' <= l - 1
    <3>1. i + 1 \in Int
      OBVIOUS
    <3>2. Wrap(i + 1) \in -l .. l - 1
      BY <1>3, <3>1, WrapIsWord
    <3> QED
      BY <2>1, <3>2
  <2>3. n < l - 1 => i = t /\ i <= n /\ index' = i + 1 /\ n = Turns
    <3>1. n < l - 1 => i = t /\ i <= n
      BY <1>1, <1>2, <1>3, <1>4, <2>1 DEF CounterTurns
    <3>2. n < l - 1 => i + 1 \in 0 .. Limit - 1
      BY <1>3, <3>1
    <3>3. n < l - 1 => Wrap(i + 1) = i + 1
      BY <3>2, WrapsNothing
    <3> QED
      BY <1>2, <2>1, <3>1, <3>3 DEF Turns
  <2> QED
    BY <1>1, <1>2, <1>3, <1>4, <2>1, <2>2, <2>3 DEF CounterTurns
<1>11. CASE assignArray
  <2>1. pc = "assign" /\ UNCHANGED <<reg, index, turns>> /\ pc' \in {"exit", "crash"}
    BY <1>11 DEF assignArray, Store
  <2> QED
    BY <1>1, <2>1 DEF CounterTurns
<1>12. CASE assign \/ assignElement \/ newArray
  <2>1. pc = "body" /\ UNCHANGED <<reg, index, turns>>
    BY <1>12 DEF assign, assignElement, newArray, Effect
  <2>2. pc' \in {"body", "error", "crash"}
    BY <1>12, <2>1 DEF assign, assignElement, newArray, Store
  <2> QED
    BY <1>1, <2>1, <2>2 DEF CounterTurns
<1> QED
  BY <1>1, <1>5, <1>6, <1>7, <1>8, <1>9, <1>10, <1>11, <1>12
     DEF Next, startRange, startIterator, headerRange, enterRange, nextRange

LEMMA NextCounted == Counted /\ [Next]_vars => Counted'
<1> SUFFICES ASSUME Counted, [Next]_vars PROVE Counted'
  OBVIOUS
<1>1. Arranged' /\ loop' = loop
  BY NextArranged, LoopIsKept DEF Counted
<1>2. CASE Next
  BY <1>1, <1>2, CountedRange, CountedOthers DEF Counted
<1>3. CASE UNCHANGED vars
  BY <1>1, <1>3 DEF Counted, vars, RangeTurns, CounterTurns, Term, Count, Turns
<1> QED
  BY <1>2, <1>3

(* For words of any width and loops of any bounds, steps and counts, those  *)
(* that wrap around among them, and whatever the body does to the iterator, *)
(* the array and the elements: a range loop enters its body for start,      *)
(* start + step and so on, each below the end, and leaves in the iterator   *)
(* the first that is not; an iteration enters it once for every element the *)
(* array had when it began; and [n of E] evaluates E n times.               *)
THEOREM LoopsTakeTheirTurns == Spec => []EveryElementHasItsTurn
<1>1. Init => Counted
  BY InitCounted
<1>2. Counted /\ [Next]_vars => Counted'
  BY NextCounted
<1>3. Counted => EveryElementHasItsTurn
  BY CountedHasItsTurn
<1> QED
  BY <1>1, <1>2, <1>3, PTL DEF Spec
=============================================================================
