------------------------- MODULE CodeGenBlocksProofs -------------------------
(***************************************************************************)
(* The control-flow graph that code generation makes is well formed,       *)
(* whatever program is compiled.  The steps of a codegen() name the blocks *)
(* it makes; Laid says of the steps that are left where each of them is    *)
(* made, placed, branched to and entered, and Flows where the current      *)
(* block is open and where it is ended.  Well joins this for the frames of *)
(* a stack with what it makes of the blocks: which are still to be placed  *)
(* and entered, which are reached, and which way out there is.             *)
(***************************************************************************)
EXTENDS CodeGenTypingProofs, FiniteSetTheorems, WellFoundedInduction

(* The blocks by their names in the lists; the entries of functions are      *)
(* named otherwise.                                                          *)
Labels == {"header", "body", "exit", "then", "else", "ifmerge"}

OwnBlock(fn, l, x) == [fn |-> fn, label |-> l, name |-> x]

IsAt(s, x) == s.do = "at" /\ s.block = x
IsPlace(s, x) == s.do = "place" /\ s.block = x
Creates(s, x) == s.do = "blocks" /\ (x = s.first \/ x \in s.others)
BranchesTo(s, x) == s.do = "terminate" /\ x \in s.to

-----------------------------------------------------------------------------
(* What a step needs of the current block, open or ended, and what it makes  *)
(* of it.                                                                    *)
OfFunction(n, s) == s.do = "codegen" /\ n.kids[s.child].cls = "ASTFunction"
OfReturn(n, s) == s.do = "codegen" /\ n.kids[s.child].cls = "ASTReturnStmt"

NeedsOpen(n, s) ==
    \/ s.do \in {"emit", "store", "terminate", "blocks"}
    \/ s.do = "codegen" /\ ~OfFunction(n, s)
Opens(s) == s.do \in {"at", "enter"}
Ends(n, s) == s.do = "terminate" \/ OfFunction(n, s) \/ OfReturn(n, s)

EndedAfter == {"ASTProgram", "ASTFunction", "ASTReturnStmt"}

(* The steps t fit together when the current block is ended before the steps *)
(* of "dead" and open before the others.                                     *)
Flows(n, t, dead) ==
    /\ \A k \in DOMAIN t :
          /\ NeedsOpen(n, t[k]) => k \notin dead
          /\ Opens(t[k]) \/ OfFunction(n, t[k]) => k \in dead
          /\ Opens(t[k]) => k + 1 \notin dead
          /\ Ends(n, t[k]) => k + 1 \in dead
          /\ ~Opens(t[k]) /\ ~Ends(n, t[k]) => (k \in dead <=> k + 1 \in dead)
    /\ Len(t) + 1 \in dead <=> n.cls \in EndedAfter

(* Where a list t names blocks: those of "made" exist already, those of      *)
(* "placed" are in the function, those of "linked" can be reached, those of   *)
(* "tied" can be reached from the header of the loop.                        *)
LaidNames(t, made) ==
    \A k \in DOMAIN t : \A x :
        IsAt(t[k], x) \/ IsPlace(t[k], x) \/ BranchesTo(t[k], x) =>
            x \in Labels /\ (x \in made \/ \E j \in 1 .. k - 1 : Creates(t[j], x))

LaidBlocks(t) ==
    \A k \in DOMAIN t : t[k].do = "blocks" =>
        /\ \A x : Creates(t[k], x) => x \in Labels /\ \E j \in k + 1 .. Len(t) : IsAt(t[j], x)
        /\ \A x \in t[k].others : \E j \in k + 1 .. Len(t) : IsPlace(t[j], x)
        /\ \A j \in DOMAIN t : t[j].do = "blocks" => j = k

LaidAts(t, placed, linked) ==
    \A k \in DOMAIN t : t[k].do = "at" =>
        /\ \/ t[k].block \in placed
           \/ \E j \in 1 .. k - 1 :
                 IsPlace(t[j], t[k].block) \/ (t[j].do = "blocks" /\ t[j].first = t[k].block)
        /\ t[k].block \in linked \/ \E j \in 1 .. k - 1 : BranchesTo(t[j], t[k].block)
        /\ \A j \in DOMAIN t : IsAt(t[j], t[k].block) => j = k

LaidBranches(t, tied) ==
    \A k \in DOMAIN t : t[k].do = "terminate" /\ t[k].to # {} =>
        \/ \E x \in t[k].to : \E j \in k + 1 .. Len(t) : IsAt(t[j], x)
        \/ /\ "header" \in t[k].to
           /\ \E j \in k + 1 .. Len(t) : IsAt(t[j], "exit")
           /\ "exit" \in tied \/ \E j \in 1 .. k - 1 : BranchesTo(t[j], "exit")

LaidLoops(t, made) ==
    \A k \in DOMAIN t : BranchesTo(t[k], "exit") =>
        \/ "header" \in made /\ \A j \in 1 .. k - 1 : t[j].do # "at"
        \/ \E j \in 1 .. k - 1 :
              IsAt(t[j], "header") /\ \A i \in j + 1 .. k - 1 : t[i].do # "at"

Laid(t, made, placed, linked, tied) ==
    /\ LaidNames(t, made) /\ LaidBlocks(t) /\ LaidAts(t, placed, linked)
    /\ LaidBranches(t, tied) /\ LaidLoops(t, made)

(* The header of a loop has been entered, and its exit not yet branched to.  *)
InHeader(t) == \E k \in DOMAIN t : BranchesTo(t[k], "exit") /\ \A j \in 1 .. k - 1 : t[j].do # "at"

(* The list of a frame of a declaration or outside of a function.            *)
Calm(t) == \A k \in DOMAIN t : t[k].do \notin {"blocks", "place", "at", "terminate"}

-----------------------------------------------------------------------------
(* Reachability by closed sets: b can be reached from a if it is in every    *)
(* set that a is in and no branch leaves.                                    *)
ClosedIn(bl, S) == S \subseteq DOMAIN bl /\ \A c \in S : bl[c].next \subseteq S

LeadsTo(bl, a, b) == \A S \in SUBSET DOMAIN bl : ClosedIn(bl, S) /\ a \in S => b \in S

MadeOf(bl, fn, l) == {x \in Labels : OwnBlock(fn, l, x) \in DOMAIN bl}
PlacedOf(bl, fn, l) == {x \in MadeOf(bl, fn, l) : bl[OwnBlock(fn, l, x)].placed}
LinkedOf(bl, fn, l) ==
    {x \in MadeOf(bl, fn, l) : LeadsTo(bl, OwnBlock(fn, 0, "entry"), OwnBlock(fn, l, x))}
TiedOf(bl, fn, l) ==
    {x \in MadeOf(bl, fn, l) : /\ "header" \in MadeOf(bl, fn, l)
                               /\ LeadsTo(bl, OwnBlock(fn, l, "header"), OwnBlock(fn, l, x))}

FrameLaid(bl, fn, f) ==
    /\ Laid(f.todo, MadeOf(bl, fn, f.label), PlacedOf(bl, fn, f.label),
            LinkedOf(bl, fn, f.label), TiedOf(bl, fn, f.label))
    /\ f.label # 0 => \A k \in DOMAIN f.todo : f.todo[k].do # "blocks"

(* What the frames of the stack c are still to enter and to place.           *)
ToEnter(fn, f, b) == \E k \in DOMAIN f.todo : f.todo[k].do = "at" /\ b = OwnBlock(fn, f.label, f.todo[k].block)
ToPlace(fn, f, b) == \E k \in DOMAIN f.todo : f.todo[k].do = "place" /\ b = OwnBlock(fn, f.label, f.todo[k].block)

Pending(c, fn, b) == \E i \in DOMAIN c : ToEnter(fn, c[i], b)
Unplaced(c, fn, b) == \E i \in DOMAIN c : ToPlace(fn, c[i], b)

Live(bl, ia) == ia \in DOMAIN bl /\ bl[ia].ends = 0

-----------------------------------------------------------------------------
(* The invariant, of a stack c, blocks bl, a current block ia and the last    *)
(* label ln.                                                                 *)
Block3(b) == [placed |-> b.placed, ends |-> b.ends, next |-> b.next]

BlocksTyped(bl, ia, ln) ==
    /\ IsFiniteSet(DOMAIN bl) /\ ln \in Nat
    /\ ia \in DOMAIN bl \/ (DOMAIN bl = {} /\ ia = NoBlock)
    /\ \A b \in DOMAIN bl :
          /\ b = OwnBlock(b.fn, b.label, b.name) /\ b.label \in 0 .. ln
          /\ b.label = 0 => b.name = "entry"
          /\ b.label # 0 => b.name \in Labels
          /\ OwnBlock(b.fn, 0, "entry") \in DOMAIN bl
          /\ bl[b] = Block3(bl[b]) /\ bl[b].ends \in {0, 1}
          /\ \A c \in bl[b].next : c \in DOMAIN bl /\ c.fn = b.fn

LabelsApart(c, ln) ==
    /\ \A i \in DOMAIN c : c[i].label \in 0 .. ln
    /\ \A i, j \in DOMAIN c : c[i].label = c[j].label /\ c[i].label # 0 => i = j

FramesLaid(c, bl, ia) == \A i \in DOMAIN c : FrameLaid(bl, ia.fn, c[i])

FramesFlow(c, bl, ia) ==
    /\ c = << >> => ~Live(bl, ia)
    /\ \A i \in DOMAIN c : \E dead :
          /\ Flows(c[i].node, c[i].todo, dead)
          /\ i = Len(c) => (1 \in dead <=> ~Live(bl, ia))

PlacedInTime(c, bl, ia) ==
    /\ \A b \in DOMAIN bl : ~bl[b].placed => Unplaced(c, ia.fn, b)
    /\ ia \in DOMAIN bl => bl[ia].placed

EndedInTime(c, bl, ia) ==
    \A b \in DOMAIN bl :
        /\ bl[b].ends = 0 => bl[b].next = {} /\ (b = ia \/ Pending(c, ia.fn, b))
        /\ Pending(c, ia.fn, b) => bl[b].ends = 0 /\ b # ia

Reached(c, bl, ia) ==
    \A b \in DOMAIN bl : Pending(c, ia.fn, b) \/ LeadsTo(bl, OwnBlock(b.fn, 0, "entry"), b)

(* From a header the current block and those to come can be reached.         *)
LeadsOn(c, ia, S, i) ==
    /\ ia \in S
    /\ \A j \in DOMAIN c : j > i => \A k \in DOMAIN c[j].todo : c[j].todo[k].do = "at" =>
          \/ OwnBlock(ia.fn, c[j].label, c[j].todo[k].block) \in S
          \/ \E l \in 1 .. k - 1 : BranchesTo(c[j].todo[l], c[j].todo[k].block)

HeadersLead(c, bl, ia) ==
    \A i \in DOMAIN c : InHeader(c[i].todo) =>
        \A S \in SUBSET DOMAIN bl :
            ClosedIn(bl, S) /\ OwnBlock(ia.fn, c[i].label, "header") \in S => LeadsOn(c, ia, S, i)

Leaving(bl) == \A S \in SUBSET DOMAIN bl : ClosedIn(bl, S) /\ S # {} => \E c \in S : bl[c].next = {}

Fresh(bl, x) == \A b \in DOMAIN bl : b.fn # x

FunctionsApart(c, bl) ==
    /\ \A i \in DOMAIN c : c[i].node.cls = "ASTProgram" <=> i = 1
    /\ \A i \in DOMAIN c : \A k \in DOMAIN c[i].todo : c[i].todo[k].do = "enter" =>
          /\ k = 1 /\ c[i].node.cls = "ASTFunction"
          /\ c[i].todo[k].name = c[i].node.names[1] /\ Fresh(bl, c[i].node.names[1])
    /\ \A i \in DOMAIN c : c[i].node.cls \in OuterClasses => Calm(c[i].todo)

FreshStays(bl, bl2, s) == \A x : Fresh(bl, x) /\ (s.do = "enter" => x # s.name) => Fresh(bl2, x)

(* The functions whose codegen() is still to be called are apart from those   *)
(* that have been compiled.                                                  *)
ToCompile(c, bl) ==
    c # << >> => \A k \in DOMAIN c[1].todo : c[1].todo[k].do = "codegen" =>
        /\ c[1].todo[k].child \in DOMAIN c[1].node.kids
        /\ (k = 1 /\ Len(c) > 1) \/ Fresh(bl, c[1].node.kids[c[1].todo[k].child].names[1])
        /\ \A j \in DOMAIN c[1].todo :
              c[1].todo[j].do = "codegen" /\ c[1].todo[j].child = c[1].todo[k].child => j = k

Well(c, bl, ia, ln) ==
    /\ BlocksTyped(bl, ia, ln) /\ LabelsApart(c, ln) /\ FramesLaid(c, bl, ia) /\ FramesFlow(c, bl, ia)
    /\ PlacedInTime(c, bl, ia) /\ EndedInTime(c, bl, ia) /\ Reached(c, bl, ia)
    /\ HeadersLead(c, bl, ia) /\ Leaving(bl) /\ FunctionsApart(c, bl) /\ ToCompile(c, bl)

-----------------------------------------------------------------------------
(* What is left of the stack c after the step of its frame m: a step of the   *)
(* frame on top, or one whose codegen() has returned.                        *)
Frames(c) ==
    /\ IsList(c)
    /\ \A i \in DOMAIN c : c[i].node \in Nodes /\ IsList(c[i].todo)
    /\ \A i \in 1 .. Len(c) - 1 :
          /\ c[i].todo # << >> /\ c[i].todo[1].do = "codegen"
          /\ c[i].todo[1].child \in 1 .. Len(c[i].node.kids)
          /\ c[i + 1].node = c[i].node.kids[c[i].todo[1].child]
    /\ \A i \in DOMAIN c : c[i].node.cls \in OuterClasses =>
          \A j \in 1 .. i - 1 : c[j].node.cls \in {"ASTProgram", "ASTFunction"}

Onward(c, c2, m, s, b, l) ==
    /\ s = c[m].todo[1] /\ b = c[m].label
    /\ m \in Nat /\ m >= 1 /\ IsList(c2) /\ DOMAIN c2 = 1 .. m /\ Len(c2) = m
    /\ \/ Len(c) = m /\ c[m].todo # << >> /\ c[m].todo[1].do # "codegen"
       \/ Len(c) = m + 1 /\ c[m + 1].todo = << >>
    /\ \A i \in 1 .. m - 1 : c2[i] = c[i]
    /\ c[m].todo # << >> /\ c2[m].todo = Tail(c[m].todo) /\ c2[m].node = c[m].node /\ c2[m].label = l
-----------------------------------------------------------------------------
(* Lists of steps that lose their first step.                                *)
LEMMA TailNames ==
    ASSUME NEW t, IsList(t), t # << >>, NEW made, NEW made2, LaidNames(t, made), made \subseteq made2,
           \A x : Creates(t[1], x) => x \in made2
    PROVE  LaidNames(Tail(t), made2)
<1>1. PICK u : u = Tail(t)
  OBVIOUS
<1>2. \A k \in DOMAIN u : k \in Nat /\ k >= 1 /\ k + 1 \in DOMAIN t /\ u[k] = t[k + 1]
  BY <1>1, TailList, ListFacts
<1>3. SUFFICES ASSUME NEW k \in DOMAIN u, NEW x, IsAt(u[k], x) \/ IsPlace(u[k], x) \/ BranchesTo(u[k], x)
               PROVE  x \in Labels /\ (x \in made2 \/ \E j \in 1 .. k - 1 : Creates(u[j], x))
  BY <1>1 DEF LaidNames
<1>4. x \in Labels /\ (x \in made \/ \E j \in 1 .. k : Creates(t[j], x))
  <2>1. (k + 1) - 1 = k
    BY <1>2
  <2> QED
    BY <1>2, <1>3, <2>1 DEF LaidNames
<1>5. ASSUME NEW j \in 1 .. k, Creates(t[j], x), j # 1 PROVE \E i \in 1 .. k - 1 : Creates(u[i], x)
  <2>1. j - 1 \in 1 .. k - 1 /\ j - 1 \in DOMAIN u /\ (j - 1) + 1 = j
    BY <1>1, <1>2, <1>5, TailList, ListFacts
  <2>2. u[j - 1] = t[j]
    BY <1>2, <2>1
  <2> QED
    BY <1>5, <2>1, <2>2
<1> QED
  BY <1>4, <1>5

LEMMA TailBlocks == ASSUME NEW t, IsList(t), t # << >>, LaidBlocks(t) PROVE LaidBlocks(Tail(t))
<1>1. PICK u : u = Tail(t)
  OBVIOUS
<1>2. /\ \A k \in DOMAIN u : k \in Nat /\ k >= 1 /\ k + 1 \in DOMAIN t /\ u[k] = t[k + 1]
      /\ Len(t) \in Nat /\ Len(u) = Len(t) - 1 /\ DOMAIN u = 1 .. Len(u)
  BY <1>1, TailList, ListFacts
<1>3. SUFFICES ASSUME NEW k \in DOMAIN u, u[k].do = "blocks"
               PROVE  /\ \A x : Creates(u[k], x) => x \in Labels /\ \E j \in k + 1 .. Len(u) : IsAt(u[j], x)
                      /\ \A x \in u[k].others : \E j \in k + 1 .. Len(u) : IsPlace(u[j], x)
                      /\ \A j \in DOMAIN u : u[j].do = "blocks" => j = k
  BY <1>1 DEF LaidBlocks
<1>4. /\ \A x : Creates(t[k + 1], x) => x \in Labels /\ \E j \in (k + 1) + 1 .. Len(t) : IsAt(t[j], x)
      /\ \A x \in t[k + 1].others : \E j \in (k + 1) + 1 .. Len(t) : IsPlace(t[j], x)
      /\ \A j \in DOMAIN t : t[j].do = "blocks" => j = k + 1
  BY <1>2, <1>3 DEF LaidBlocks
<1>5. ASSUME NEW j \in (k + 1) + 1 .. Len(t) PROVE j - 1 \in k + 1 .. Len(u) /\ u[j - 1] = t[j]
  <2>1. j - 1 \in k + 1 .. Len(u) /\ j - 1 \in DOMAIN u /\ (j - 1) + 1 = j
    BY <1>2
  <2> QED
    BY <1>2, <2>1
<1>6. ASSUME NEW x, Creates(u[k], x) PROVE x \in Labels /\ \E j \in k + 1 .. Len(u) : IsAt(u[j], x)
  <2>1. u[k] = t[k + 1]
    BY <1>2
  <2> QED
    BY <1>4, <1>5, <1>6, <2>1
<1>7. ASSUME NEW x \in u[k].others PROVE \E j \in k + 1 .. Len(u) : IsPlace(u[j], x)
  <2>1. u[k] = t[k + 1]
    BY <1>2
  <2> QED
    BY <1>4, <1>5, <2>1
<1>8. ASSUME NEW j \in DOMAIN u, u[j].do = "blocks" PROVE j = k
  <2>1. j + 1 = k + 1
    BY <1>2, <1>4, <1>8
  <2> QED
    BY <1>2, <2>1
<1> QED
  BY <1>6, <1>7, <1>8

LEMMA TailAts ==
    ASSUME NEW t, IsList(t), t # << >>, NEW placed, NEW linked, NEW placed2, NEW linked2,
           LaidAts(t, placed, linked), placed \subseteq placed2, linked \subseteq linked2,
           \A x : IsPlace(t[1], x) \/ (t[1].do = "blocks" /\ x = t[1].first) => x \in placed2,
           \A x : BranchesTo(t[1], x) => x \in linked2
    PROVE  LaidAts(Tail(t), placed2, linked2)
<1>1. PICK u : u = Tail(t)
  OBVIOUS
<1>2. /\ \A k \in DOMAIN u : k \in Nat /\ k >= 1 /\ k + 1 \in DOMAIN t /\ u[k] = t[k + 1]
      /\ Len(t) \in Nat /\ Len(u) = Len(t) - 1 /\ DOMAIN u = 1 .. Len(u)
  BY <1>1, TailList, ListFacts
<1>3. SUFFICES ASSUME NEW k \in DOMAIN u, u[k].do = "at"
               PROVE  /\ \/ u[k].block \in placed2
                         \/ \E j \in 1 .. k - 1 :
                               IsPlace(u[j], u[k].block) \/ (u[j].do = "blocks" /\ u[j].first = u[k].block)
                      /\ u[k].block \in linked2 \/ \E j \in 1 .. k - 1 : BranchesTo(u[j], u[k].block)
                      /\ \A j \in DOMAIN u : IsAt(u[j], u[k].block) => j = k
  BY <1>1 DEF LaidAts
<1>4. PICK x : x = u[k].block /\ x = t[k + 1].block
  BY <1>2
<1>5. /\ x \in placed \/ \E j \in 1 .. k : IsPlace(t[j], x) \/ (t[j].do = "blocks" /\ t[j].first = x)
      /\ x \in linked \/ \E j \in 1 .. k : BranchesTo(t[j], x)
      /\ \A j \in DOMAIN t : IsAt(t[j], x) => j = k + 1
  <2>1. (k + 1) - 1 = k /\ t[k + 1].do = "at" /\ k + 1 \in DOMAIN t
    BY <1>2, <1>3
  <2> QED
    BY <1>4, <2>1 DEF LaidAts
<1>6. ASSUME NEW j \in 1 .. k, j # 1 PROVE j - 1 \in 1 .. k - 1 /\ u[j - 1] = t[j]
  <2>1. j - 1 \in 1 .. k - 1 /\ j - 1 \in DOMAIN u /\ (j - 1) + 1 = j
    BY <1>2, <1>6
  <2> QED
    BY <1>2, <2>1
<1>7. x \in placed2 \/ \E j \in 1 .. k - 1 : IsPlace(u[j], x) \/ (u[j].do = "blocks" /\ u[j].first = x)
  BY <1>5, <1>6
<1>8. x \in linked2 \/ \E j \in 1 .. k - 1 : BranchesTo(u[j], x)
  BY <1>5, <1>6
<1>9. ASSUME NEW j \in DOMAIN u, IsAt(u[j], x) PROVE j = k
  <2>1. j + 1 = k + 1
    BY <1>2, <1>5, <1>9
  <2> QED
    BY <1>2, <2>1
<1> QED
  BY <1>4, <1>7, <1>8, <1>9

LEMMA TailBranches ==
    ASSUME NEW t, IsList(t), t # << >>, NEW tied, NEW tied2, LaidBranches(t, tied), tied \subseteq tied2,
           BranchesTo(t[1], "exit") => "exit" \in tied2
    PROVE  LaidBranches(Tail(t), tied2)
<1>1. PICK u : u = Tail(t)
  OBVIOUS
<1>2. /\ \A k \in DOMAIN u : k \in Nat /\ k >= 1 /\ k + 1 \in DOMAIN t /\ u[k] = t[k + 1]
      /\ Len(t) \in Nat /\ Len(u) = Len(t) - 1 /\ DOMAIN u = 1 .. Len(u)
  BY <1>1, TailList, ListFacts
<1>3. SUFFICES ASSUME NEW k \in DOMAIN u, u[k].do = "terminate", u[k].to # {}
               PROVE  \/ \E x \in u[k].to : \E j \in k + 1 .. Len(u) : IsAt(u[j], x)
                      \/ /\ "header" \in u[k].to
                         /\ \E j \in k + 1 .. Len(u) : IsAt(u[j], "exit")
                         /\ "exit" \in tied2 \/ \E j \in 1 .. k - 1 : BranchesTo(u[j], "exit")
  BY <1>1 DEF LaidBranches
<1>4. PICK to : to = u[k].to /\ to = t[k + 1].to
  BY <1>2
<1>5. \/ \E x \in to : \E j \in (k + 1) + 1 .. Len(t) : IsAt(t[j], x)
      \/ /\ "header" \in to
         /\ \E j \in (k + 1) + 1 .. Len(t) : IsAt(t[j], "exit")
         /\ "exit" \in tied \/ \E j \in 1 .. k : BranchesTo(t[j], "exit")
  <2>1. (k + 1) - 1 = k /\ t[k + 1].do = "terminate" /\ t[k + 1].to # {} /\ k + 1 \in DOMAIN t
    BY <1>2, <1>3
  <2> QED
    BY <1>4, <2>1 DEF LaidBranches
<1>6. ASSUME NEW j \in 1 .. k, j # 1 PROVE j - 1 \in 1 .. k - 1 /\ u[j - 1] = t[j]
  <2>1. j - 1 \in 1 .. k - 1 /\ j - 1 \in DOMAIN u /\ (j - 1) + 1 = j
    BY <1>2, <1>6
  <2> QED
    BY <1>2, <2>1
<1>7. ASSUME NEW j \in (k + 1) + 1 .. Len(t) PROVE j - 1 \in k + 1 .. Len(u) /\ u[j - 1] = t[j]
  <2>1. j - 1 \in k + 1 .. Len(u) /\ j - 1 \in DOMAIN u /\ (j - 1) + 1 = j
    BY <1>2
  <2> QED
    BY <1>2, <2>1
<1>8. CASE \E x \in to : \E j \in (k + 1) + 1 .. Len(t) : IsAt(t[j], x)
  BY <1>4, <1>7, <1>8
<1>9. CASE /\ "header" \in to
           /\ \E j \in (k + 1) + 1 .. Len(t) : IsAt(t[j], "exit")
           /\ "exit" \in tied \/ \E j \in 1 .. k : BranchesTo(t[j], "exit")
  <2>1. \E j \in k + 1 .. Len(u) : IsAt(u[j], "exit")
    BY <1>7, <1>9
  <2>2. "exit" \in tied2 \/ \E j \in 1 .. k - 1 : BranchesTo(u[j], "exit")
    BY <1>6, <1>9
  <2> QED
    BY <1>4, <1>9, <2>1, <2>2
<1> QED
  BY <1>5, <1>8, <1>9

LEMMA TailLoops ==
    ASSUME NEW t, IsList(t), t # << >>, NEW made, NEW made2, LaidLoops(t, made), made \subseteq made2,
           IsAt(t[1], "header") => "header" \in made2
    PROVE  LaidLoops(Tail(t), made2)
<1>1. PICK u : u = Tail(t)
  OBVIOUS
<1>2. /\ \A k \in DOMAIN u : k \in Nat /\ k >= 1 /\ k + 1 \in DOMAIN t /\ u[k] = t[k + 1]
      /\ Len(t) \in Nat /\ Len(u) = Len(t) - 1 /\ DOMAIN u = 1 .. Len(u)
  BY <1>1, TailList, ListFacts
<1>3. SUFFICES ASSUME NEW k \in DOMAIN u, BranchesTo(u[k], "exit")
               PROVE  \/ "header" \in made2 /\ \A j \in 1 .. k - 1 : u[j].do # "at"
                      \/ \E j \in 1 .. k - 1 :
                            IsAt(u[j], "header") /\ \A i \in j + 1 .. k - 1 : u[i].do # "at"
  BY <1>1 DEF LaidLoops
<1>4. \/ "header" \in made /\ \A j \in 1 .. k : t[j].do # "at"
      \/ \E j \in 1 .. k : IsAt(t[j], "header") /\ \A i \in j + 1 .. k : t[i].do # "at"
  <2>1. (k + 1) - 1 = k /\ BranchesTo(t[k + 1], "exit") /\ k + 1 \in DOMAIN t
    BY <1>2, <1>3
  <2> QED
    BY <2>1 DEF LaidLoops
<1>5. ASSUME NEW j \in 1 .. k - 1 PROVE j + 1 \in 1 .. k /\ u[j] = t[j + 1]
  <2>1. j \in DOMAIN u /\ k \in Nat
    BY <1>2
  <2> QED
    BY <1>2, <2>1
<1>6. CASE "header" \in made /\ \A j \in 1 .. k : t[j].do # "at"
  BY <1>5, <1>6
<1>7. ASSUME NEW j \in 1 .. k, IsAt(t[j], "header"), \A i \in j + 1 .. k : t[i].do # "at"
      PROVE  \/ "header" \in made2 /\ \A i \in 1 .. k - 1 : u[i].do # "at"
             \/ \E i \in 1 .. k - 1 : IsAt(u[i], "header") /\ \A h \in i + 1 .. k - 1 : u[h].do # "at"
  <2>1. CASE j = 1
    <3>1. "header" \in made2
      BY <1>7, <2>1
    <3>2. ASSUME NEW i \in 1 .. k - 1 PROVE u[i].do # "at"
      <4>1. i + 1 \in j + 1 .. k /\ u[i] = t[i + 1]
        BY <1>5, <2>1
      <4> QED
        BY <1>7, <4>1
    <3> QED
      BY <3>1, <3>2
  <2>2. CASE j # 1
    <3>1. PICK i : i = j - 1
      OBVIOUS
    <3>2. i \in 1 .. k - 1 /\ i + 1 = j /\ k \in Nat
      BY <1>2, <2>2, <3>1
    <3>3. IsAt(u[i], "header")
      BY <1>5, <1>7, <3>2
    <3>4. ASSUME NEW h \in i + 1 .. k - 1 PROVE u[h].do # "at"
      <4>1. h \in 1 .. k - 1 /\ h + 1 \in j + 1 .. k
        BY <3>2
      <4>2. u[h] = t[h + 1]
        BY <1>5, <4>1
      <4> QED
        BY <1>7, <4>1, <4>2
    <3> QED
      BY <3>2, <3>3, <3>4
  <2> QED
    BY <2>1, <2>2
<1> QED
  BY <1>4, <1>6, <1>7

(* What a list needs of the blocks there are is kept as there get more.      *)
LEMMA MoreLaid ==
    ASSUME NEW t, NEW made, NEW placed, NEW linked, NEW tied, Laid(t, made, placed, linked, tied),
           NEW made2, NEW placed2, NEW linked2, NEW tied2,
           made \subseteq made2, placed \subseteq placed2, linked \subseteq linked2, tied \subseteq tied2
    PROVE  Laid(t, made2, placed2, linked2, tied2)
<1>1. LaidNames(t, made2)
  BY DEF Laid, LaidNames
<1>2. LaidBlocks(t)
  BY DEF Laid
<1>3. LaidAts(t, placed2, linked2)
  <2>1. LaidAts(t, placed, linked)
    BY DEF Laid
  <2> SUFFICES ASSUME NEW k \in DOMAIN t, t[k].do = "at"
               PROVE  /\ \/ t[k].block \in placed2
                         \/ \E j \in 1 .. k - 1 :
                               IsPlace(t[j], t[k].block) \/ (t[j].do = "blocks" /\ t[j].first = t[k].block)
                      /\ t[k].block \in linked2 \/ \E j \in 1 .. k - 1 : BranchesTo(t[j], t[k].block)
                      /\ \A j \in DOMAIN t : IsAt(t[j], t[k].block) => j = k
    BY DEF LaidAts
  <2> QED
    BY <2>1 DEF LaidAts
<1>4. LaidBranches(t, tied2)
  <2>1. LaidBranches(t, tied)
    BY DEF Laid
  <2> QED
    BY <2>1 DEF LaidBranches
<1>5. LaidLoops(t, made2)
  <2>1. LaidLoops(t, made)
    BY DEF Laid
  <2> QED
    BY <2>1 DEF LaidLoops
<1> QED
  BY <1>1, <1>2, <1>3, <1>4, <1>5 DEF Laid

LEMMA TailLaid ==
    ASSUME NEW t, IsList(t), t # << >>,
           NEW made, NEW placed, NEW linked, NEW tied, Laid(t, made, placed, linked, tied),
           NEW made2, NEW placed2, NEW linked2, NEW tied2,
           made \subseteq made2, placed \subseteq placed2, linked \subseteq linked2, tied \subseteq tied2,
           \A x : Creates(t[1], x) => x \in made2,
           \A x : IsPlace(t[1], x) \/ (t[1].do = "blocks" /\ x = t[1].first) => x \in placed2,
           \A x : BranchesTo(t[1], x) => x \in linked2,
           BranchesTo(t[1], "exit") => "exit" \in tied2
    PROVE  Laid(Tail(t), made2, placed2, linked2, tied2)
<1>1. /\ LaidNames(t, made) /\ LaidBlocks(t) /\ LaidAts(t, placed, linked)
      /\ LaidBranches(t, tied) /\ LaidLoops(t, made)
  BY DEF Laid
<1>2. LaidNames(Tail(t), made2)
  BY <1>1, TailNames
<1>3. LaidBlocks(Tail(t))
  BY <1>1, TailBlocks
<1>4. LaidAts(Tail(t), placed2, linked2)
  BY <1>1, TailAts
<1>5. LaidBranches(Tail(t), tied2)
  BY <1>1, TailBranches
<1>6. IsAt(t[1], "header") => "header" \in made2
  <2>1. 1 \in DOMAIN t /\ 1 - 1 = 0
    BY ListFacts
  <2>2. ASSUME IsAt(t[1], "header") PROVE "header" \in made
    <3>1. \/ "header" \in made
          \/ \E j \in 1 .. 1 - 1 : Creates(t[j], "header")
      BY <1>1, <2>1, <2>2 DEF LaidNames
    <3> QED
      BY <3>1
  <2> QED
    BY <2>2
<1>7. LaidLoops(Tail(t), made2)
  BY <1>1, <1>6, TailLoops
<1> QED
  BY <1>2, <1>3, <1>4, <1>5, <1>7 DEF Laid

LEMMA TailFlows ==
    ASSUME NEW n, NEW t, IsList(t), t # << >>, NEW dead, Flows(n, t, dead)
    PROVE  /\ \E dead2 : Flows(n, Tail(t), dead2) /\ (1 \in dead2 <=> 2 \in dead)
           /\ NeedsOpen(n, t[1]) => 1 \notin dead
           /\ Opens(t[1]) \/ OfFunction(n, t[1]) => 1 \in dead
           /\ Opens(t[1]) => 2 \notin dead
           /\ Ends(n, t[1]) => 2 \in dead
           /\ ~Opens(t[1]) /\ ~Ends(n, t[1]) => (1 \in dead <=> 2 \in dead)
<1>1. PICK u : u = Tail(t)
  OBVIOUS
<1>2. /\ \A k \in DOMAIN u : k \in Nat /\ k >= 1 /\ k + 1 \in DOMAIN t /\ u[k] = t[k + 1]
      /\ Len(t) \in Nat /\ Len(u) = Len(t) - 1 /\ DOMAIN u = 1 .. Len(u) /\ Len(t) >= 1
      /\ 1 \in DOMAIN t /\ 1 + 1 = 2
  BY <1>1, TailList, ListFacts
<1>3. PICK dead2 : dead2 = {k \in Nat : k + 1 \in dead}
  OBVIOUS
<1>4. \A k \in Nat : k \in dead2 <=> k + 1 \in dead
  BY <1>3
<1>5. ASSUME NEW k \in DOMAIN u
      PROVE  /\ NeedsOpen(n, u[k]) => k \notin dead2
             /\ Opens(u[k]) \/ OfFunction(n, u[k]) => k \in dead2
             /\ Opens(u[k]) => k + 1 \notin dead2
             /\ Ends(n, u[k]) => k + 1 \in dead2
             /\ ~Opens(u[k]) /\ ~Ends(n, u[k]) => (k \in dead2 <=> k + 1 \in dead2)
  <2>1. /\ k \in Nat /\ k + 1 \in Nat /\ k + 1 \in DOMAIN t
    BY <1>2
  <2>2. PICK s : s = u[k] /\ s = t[k + 1]
    BY <1>2
  <2>3. PICK m \in Nat : m = k + 1 /\ m \in DOMAIN t
    BY <2>1
  <2>4. /\ NeedsOpen(n, s) => m \notin dead
        /\ Opens(s) \/ OfFunction(n, s) => m \in dead
        /\ Opens(s) => m + 1 \notin dead
        /\ Ends(n, s) => m + 1 \in dead
        /\ ~Opens(s) /\ ~Ends(n, s) => (m \in dead <=> m + 1 \in dead)
    BY <2>2, <2>3 DEF Flows
  <2> QED
    BY <1>4, <2>1, <2>2, <2>3, <2>4
<1>6. Len(u) + 1 \in dead2 <=> n.cls \in EndedAfter
  <2>1. Len(u) + 1 \in Nat /\ (Len(u) + 1) + 1 = Len(t) + 1
    BY <1>2
  <2> QED
    BY <1>4, <2>1 DEF Flows
<1>7. Flows(n, u, dead2)
  BY <1>5, <1>6 DEF Flows
<1>8. 1 \in dead2 <=> 2 \in dead
  BY <1>4
<1>9. /\ NeedsOpen(n, t[1]) => 1 \notin dead
      /\ Opens(t[1]) \/ OfFunction(n, t[1]) => 1 \in dead
      /\ Opens(t[1]) => 2 \notin dead
      /\ Ends(n, t[1]) => 2 \in dead
      /\ ~Opens(t[1]) /\ ~Ends(n, t[1]) => (1 \in dead <=> 2 \in dead)
  BY <1>2 DEF Flows
<1> QED
  BY <1>1, <1>7, <1>8, <1>9

(* A list without blocks in it.                                              *)
LEMMA CalmLaid ==
    ASSUME NEW t, Calm(t), NEW made, NEW placed, NEW linked, NEW tied
    PROVE  Laid(t, made, placed, linked, tied) /\ ~InHeader(t)
BY DEF Calm, Laid, LaidNames, LaidBlocks, LaidAts, LaidBranches, LaidLoops, InHeader, IsAt, IsPlace,
       BranchesTo, Creates

(* A branch to the exit of a loop whose header is behind comes before the    *)
(* next block is entered.                                                    *)
LEMMA TailInHeader ==
    ASSUME NEW t, IsList(t), t # << >>, NEW made, LaidLoops(t, made), InHeader(Tail(t))
    PROVE  \/ t[1].do # "at" /\ InHeader(t) /\ (t[1].do # "blocks" \/ "header" \in made)
           \/ IsAt(t[1], "header")
<1>1. PICK u : u = Tail(t)
  OBVIOUS
<1>2. /\ \A k \in DOMAIN u : k \in Nat /\ k >= 1 /\ k + 1 \in DOMAIN t /\ u[k] = t[k + 1]
      /\ Len(t) \in Nat /\ Len(u) = Len(t) - 1 /\ DOMAIN u = 1 .. Len(u)
  BY <1>1, TailList, ListFacts
<1>3. PICK k \in DOMAIN u : BranchesTo(u[k], "exit") /\ \A j \in 1 .. k - 1 : u[j].do # "at"
  BY <1>1 DEF InHeader
<1>4. ASSUME NEW j \in 1 .. k, j # 1 PROVE t[j].do # "at"
  <2>1. j - 1 \in 1 .. k - 1 /\ j - 1 \in DOMAIN u /\ (j - 1) + 1 = j
    BY <1>2, <1>4
  <2> QED
    BY <1>2, <1>3, <2>1
<1>5. PICK m : m = k + 1 /\ m \in DOMAIN t /\ m - 1 = k /\ BranchesTo(t[m], "exit")
  BY <1>2, <1>3
<1>6. \/ "header" \in made /\ \A j \in 1 .. k : t[j].do # "at"
      \/ \E j \in 1 .. k : IsAt(t[j], "header") /\ \A i \in j + 1 .. k : t[i].do # "at"
  BY <1>5 DEF LaidLoops
<1>7. CASE "header" \in made /\ \A j \in 1 .. k : t[j].do # "at"
  <2>1. InHeader(t)
    BY <1>5, <1>7 DEF InHeader
  <2>2. 1 \in 1 .. k
    BY <1>2
  <2> QED
    BY <1>7, <2>1, <2>2
<1>8. ASSUME NEW j \in 1 .. k, IsAt(t[j], "header") PROVE IsAt(t[1], "header")
  BY <1>4, <1>8 DEF IsAt
<1> QED
  BY <1>6, <1>7, <1>8

LEMMA InHeaderMade ==
    ASSUME NEW t, NEW made, LaidLoops(t, made), IsList(t), InHeader(t)
    PROVE  "header" \in made
<1>1. PICK k \in DOMAIN t : BranchesTo(t[k], "exit") /\ \A j \in 1 .. k - 1 : t[j].do # "at"
  BY DEF InHeader
<1> QED
  BY <1>1 DEF LaidLoops, IsAt

-----------------------------------------------------------------------------
(* The lists that make blocks: where their branches, blocks and moves are.   *)
Moves == {"blocks", "place", "at", "terminate", "enter"}
PlainElsewhere(t, P) == \A k \in DOMAIN t : k \notin P => t[k].do \notin Moves

Inner(n, t) == \A k \in DOMAIN t : ~OfFunction(n, t[k]) /\ ~OfReturn(n, t[k])

(* A loop: its header at b, its condition tested at c, its end at e.         *)
LoopSpots(b, c, e) == {b, b + 1, b + 2, c, c + 1, c + 2, e, e + 1, e + 2}
LoopAt(t, b, c, e) ==
    /\ 1 <= b /\ b + 2 < c /\ c + 2 < e /\ e + 2 <= Len(t)
    /\ t[b] = Blocks("header", {"body", "exit"}) /\ t[b + 1] = Branch("header") /\ t[b + 2] = At("header")
    /\ t[c].do = "terminate" /\ t[c].to = {"body", "exit"}
    /\ t[c + 1] = Place("body") /\ t[c + 2] = At("body")
    /\ t[e] = Branch("header") /\ t[e + 1] = Place("exit") /\ t[e + 2] = At("exit")
    /\ PlainElsewhere(t, LoopSpots(b, c, e))

(* A choice: its test at b, the end of its first arm at e, of the other at g. *)
ChoiceSpots(b, e, g) == {b, b + 1, b + 2, e, e + 1, e + 2, g, g + 1, g + 2}
ChoiceAt(t, b, e, g) ==
    /\ 1 <= b /\ b + 2 < e /\ e + 2 < g /\ g + 2 <= Len(t)
    /\ t[b] = Blocks("then", {"else", "ifmerge"}) /\ t[b + 2] = At("then")
    /\ t[b + 1].do = "terminate" /\ t[b + 1].to = {"then", "else"}
    /\ t[e] = Branch("ifmerge") /\ t[e + 1] = Place("else") /\ t[e + 2] = At("else")
    /\ t[g] = Branch("ifmerge") /\ t[g + 1] = Place("ifmerge") /\ t[g + 2] = At("ifmerge")
    /\ PlainElsewhere(t, ChoiceSpots(b, e, g))

LEMMA LoopSteps ==
    ASSUME NEW t, IsList(t), NEW b \in Nat, NEW c \in Nat, NEW e \in Nat, LoopAt(t, b, c, e)
    PROVE  /\ LoopSpots(b, c, e) \subseteq DOMAIN t
           /\ \A k \in DOMAIN t :
                 /\ \A x : IsAt(t[k], x) <=> \/ k = b + 2 /\ x = "header"
                                             \/ k = c + 2 /\ x = "body"
                                             \/ k = e + 2 /\ x = "exit"
                 /\ \A x : IsPlace(t[k], x) <=> (k = c + 1 /\ x = "body") \/ (k = e + 1 /\ x = "exit")
                 /\ t[k].do = "blocks" <=> k = b
                 /\ \A x : Creates(t[k], x) <=> k = b /\ x \in {"header", "body", "exit"}
                 /\ t[k].do = "terminate" <=> k \in {b + 1, c, e}
                 /\ t[k].do # "enter"
           /\ t[b].first = "header" /\ t[b].others = {"body", "exit"}
           /\ t[b + 1].to = {"header"} /\ t[c].to = {"body", "exit"} /\ t[e].to = {"header"}
           /\ t[b + 2].block = "header" /\ t[c + 2].block = "body" /\ t[e + 2].block = "exit"
<1>1. Len(t) \in Nat /\ DOMAIN t = 1 .. Len(t)
  BY ListFacts
<1>2. LoopSpots(b, c, e) \subseteq DOMAIN t
  BY <1>1 DEF LoopSpots, LoopAt
<1>3. /\ t[b].do = "blocks" /\ t[b].first = "header" /\ t[b].others = {"body", "exit"}
      /\ t[b + 1].do = "terminate" /\ t[b + 1].to = {"header"}
      /\ t[b + 2].do = "at" /\ t[b + 2].block = "header"
      /\ t[c].do = "terminate" /\ t[c].to = {"body", "exit"}
      /\ t[c + 1].do = "place" /\ t[c + 1].block = "body" /\ t[c + 2].do = "at" /\ t[c + 2].block = "body"
      /\ t[e].do = "terminate" /\ t[e].to = {"header"}
      /\ t[e + 1].do = "place" /\ t[e + 1].block = "exit" /\ t[e + 2].do = "at" /\ t[e + 2].block = "exit"
  BY DEF LoopAt, Blocks, Branch, At, Place
<1>4. ASSUME NEW k \in DOMAIN t
      PROVE  /\ \A x : IsAt(t[k], x) <=> \/ k = b + 2 /\ x = "header"
                                         \/ k = c + 2 /\ x = "body"
                                         \/ k = e + 2 /\ x = "exit"
             /\ \A x : IsPlace(t[k], x) <=> (k = c + 1 /\ x = "body") \/ (k = e + 1 /\ x = "exit")
             /\ t[k].do = "blocks" <=> k = b
             /\ \A x : Creates(t[k], x) <=> k = b /\ x \in {"header", "body", "exit"}
             /\ t[k].do = "terminate" <=> k \in {b + 1, c, e}
             /\ t[k].do # "enter"
  <2>1. 1 <= b /\ b + 2 < c /\ c + 2 < e
    BY DEF LoopAt
  <2>2. CASE k \notin LoopSpots(b, c, e)
    <3>1. t[k].do \notin {"blocks", "place", "at", "terminate", "enter"}
      BY <2>2 DEF LoopAt, PlainElsewhere, Moves
    <3>2. k \notin {b, b + 1, b + 2, c, c + 1, c + 2, e, e + 1, e + 2}
      BY <2>2 DEF LoopSpots
    <3> QED
      BY <3>1, <3>2 DEF IsAt, IsPlace, Creates
  <2>3. CASE k \in {b, b + 1, b + 2}
    <3>1. k \notin {c, c + 1, c + 2, e, e + 1, e + 2} /\ k \in Nat
      BY <2>1, <2>3
    <3> QED
      BY <1>3, <2>3, <3>1 DEF IsAt, IsPlace, Creates
  <2>4. CASE k \in {c, c + 1, c + 2}
    <3>1. k \notin {b, b + 1, b + 2, e, e + 1, e + 2} /\ k \in Nat
      BY <2>1, <2>4
    <3> QED
      BY <1>3, <2>4, <3>1 DEF IsAt, IsPlace, Creates
  <2>5. CASE k \in {e, e + 1, e + 2}
    <3>1. k \notin {b, b + 1, b + 2, c, c + 1, c + 2} /\ k \in Nat
      BY <2>1, <2>5
    <3> QED
      BY <1>3, <2>5, <3>1 DEF IsAt, IsPlace, Creates
  <2> QED
    BY <2>2, <2>3, <2>4, <2>5 DEF LoopSpots
<1> QED
  BY <1>2, <1>3, <1>4

LEMMA LoopLaid ==
    ASSUME NEW t, IsList(t), NEW b \in Nat, NEW c \in Nat, NEW e \in Nat, LoopAt(t, b, c, e)
    PROVE  Laid(t, {}, {}, {}, {})
<1>0. /\ Len(t) \in Nat /\ DOMAIN t = 1 .. Len(t)
      /\ 1 <= b /\ b + 2 < c /\ c + 2 < e /\ e + 2 <= Len(t)
  BY ListFacts DEF LoopAt
<1>1. LoopSpots(b, c, e) \subseteq DOMAIN t
  BY LoopSteps
<1>2. \A k \in DOMAIN t :
          /\ \A x : IsAt(t[k], x) <=> \/ k = b + 2 /\ x = "header"
                                      \/ k = c + 2 /\ x = "body"
                                      \/ k = e + 2 /\ x = "exit"
          /\ \A x : IsPlace(t[k], x) <=> (k = c + 1 /\ x = "body") \/ (k = e + 1 /\ x = "exit")
          /\ t[k].do = "blocks" <=> k = b
          /\ \A x : Creates(t[k], x) <=> k = b /\ x \in {"header", "body", "exit"}
          /\ t[k].do = "terminate" <=> k \in {b + 1, c, e}
  BY LoopSteps
<1>3. /\ t[b].first = "header" /\ t[b].others = {"body", "exit"}
      /\ t[b + 1].to = {"header"} /\ t[c].to = {"body", "exit"} /\ t[e].to = {"header"}
  BY LoopSteps
<1>4. \A k \in DOMAIN t : \A x : BranchesTo(t[k], x) <=> \/ k = b + 1 /\ x = "header"
                                                         \/ k = c /\ x \in {"body", "exit"}
                                                         \/ k = e /\ x = "header"
  BY <1>0, <1>2, <1>3 DEF BranchesTo
<1>5. /\ b \in DOMAIN t /\ b + 1 \in DOMAIN t /\ b + 2 \in DOMAIN t /\ c \in DOMAIN t /\ c + 1 \in DOMAIN t
      /\ c + 2 \in DOMAIN t /\ e \in DOMAIN t /\ e + 1 \in DOMAIN t /\ e + 2 \in DOMAIN t
  BY <1>1 DEF LoopSpots
<1>6. /\ IsAt(t[b + 2], "header") /\ IsAt(t[c + 2], "body") /\ IsAt(t[e + 2], "exit")
      /\ IsPlace(t[c + 1], "body") /\ IsPlace(t[e + 1], "exit") /\ t[b].do = "blocks"
      /\ BranchesTo(t[b + 1], "header") /\ BranchesTo(t[c], "body") /\ BranchesTo(t[c], "exit")
  <2>1. IsAt(t[b + 2], "header") /\ IsAt(t[c + 2], "body") /\ IsAt(t[e + 2], "exit") /\ t[b].do = "blocks"
    BY <1>2, <1>5
  <2>2. IsPlace(t[c + 1], "body") /\ IsPlace(t[e + 1], "exit")
    BY <1>2, <1>5
  <2>3. BranchesTo(t[b + 1], "header") /\ BranchesTo(t[c], "body") /\ BranchesTo(t[c], "exit")
    BY <1>4, <1>5
  <2> QED
    BY <2>1, <2>2, <2>3
<1>7. LaidNames(t, {})
  <2> SUFFICES ASSUME NEW k \in DOMAIN t, NEW x, IsAt(t[k], x) \/ IsPlace(t[k], x) \/ BranchesTo(t[k], x)
               PROVE  x \in Labels /\ \E j \in 1 .. k - 1 : Creates(t[j], x)
    BY DEF LaidNames
  <2>1. x \in {"header", "body", "exit"} /\ b < k
    BY <1>0, <1>2, <1>4
  <2>2. Creates(t[b], x) /\ b \in 1 .. k - 1
    BY <1>0, <1>2, <1>5, <2>1
  <2> QED
    BY <2>1, <2>2 DEF Labels
<1>8. LaidBlocks(t)
  <2> SUFFICES ASSUME NEW k \in DOMAIN t, t[k].do = "blocks"
               PROVE  /\ \A x : Creates(t[k], x) => x \in Labels /\ \E j \in k + 1 .. Len(t) : IsAt(t[j], x)
                      /\ \A x \in t[k].others : \E j \in k + 1 .. Len(t) : IsPlace(t[j], x)
                      /\ \A j \in DOMAIN t : t[j].do = "blocks" => j = k
    BY DEF LaidBlocks
  <2>1. k = b /\ \A j \in DOMAIN t : t[j].do = "blocks" => j = b
    BY <1>2
  <2>2. b + 2 \in b + 1 .. Len(t) /\ c + 2 \in b + 1 .. Len(t) /\ e + 2 \in b + 1 .. Len(t)
        /\ c + 1 \in b + 1 .. Len(t) /\ e + 1 \in b + 1 .. Len(t)
    BY <1>0
  <2>3. ASSUME NEW x, Creates(t[b], x) PROVE x \in Labels /\ \E j \in b + 1 .. Len(t) : IsAt(t[j], x)
    <3>1. x \in {"header", "body", "exit"}
      BY <1>2, <1>5, <2>3
    <3> QED
      BY <1>6, <2>2, <3>1 DEF Labels
  <2>4. ASSUME NEW x \in t[b].others PROVE \E j \in b + 1 .. Len(t) : IsPlace(t[j], x)
    BY <1>3, <1>6, <2>2
  <2> QED
    BY <2>1, <2>3, <2>4
<1>9. LaidAts(t, {}, {})
  <2> SUFFICES ASSUME NEW k \in DOMAIN t, t[k].do = "at"
               PROVE  /\ \E j \in 1 .. k - 1 :
                            IsPlace(t[j], t[k].block) \/ (t[j].do = "blocks" /\ t[j].first = t[k].block)
                      /\ \E j \in 1 .. k - 1 : BranchesTo(t[j], t[k].block)
                      /\ \A j \in DOMAIN t : IsAt(t[j], t[k].block) => j = k
    BY DEF LaidAts
  <2>0. IsAt(t[k], t[k].block)
    BY DEF IsAt
  <2>1. CASE k = b + 2 /\ t[k].block = "header"
    <3>1. b \in 1 .. k - 1 /\ b + 1 \in 1 .. k - 1
      BY <1>0, <2>1
    <3> QED
      BY <1>2, <1>3, <1>6, <2>1, <3>1
  <2>2. CASE k = c + 2 /\ t[k].block = "body"
    <3>1. c + 1 \in 1 .. k - 1 /\ c \in 1 .. k - 1
      BY <1>0, <2>2
    <3> QED
      BY <1>2, <1>6, <2>2, <3>1
  <2>3. CASE k = e + 2 /\ t[k].block = "exit"
    <3>1. e + 1 \in 1 .. k - 1 /\ c \in 1 .. k - 1
      BY <1>0, <2>3
    <3> QED
      BY <1>2, <1>6, <2>3, <3>1
  <2> QED
    BY <1>2, <2>0, <2>1, <2>2, <2>3
<1>10. LaidBranches(t, {})
  <2> SUFFICES ASSUME NEW k \in DOMAIN t, t[k].do = "terminate"
               PROVE  \/ \E x \in t[k].to : \E j \in k + 1 .. Len(t) : IsAt(t[j], x)
                      \/ /\ "header" \in t[k].to
                         /\ \E j \in k + 1 .. Len(t) : IsAt(t[j], "exit")
                         /\ \E j \in 1 .. k - 1 : BranchesTo(t[j], "exit")
    BY DEF LaidBranches
  <2>1. CASE k = b + 1
    <3>1. b + 2 \in k + 1 .. Len(t) /\ "header" \in t[k].to
      BY <1>0, <1>3, <2>1
    <3> QED
      BY <1>6, <3>1
  <2>2. CASE k = c
    <3>1. c + 2 \in k + 1 .. Len(t) /\ "body" \in t[k].to
      BY <1>0, <1>3, <2>2
    <3> QED
      BY <1>6, <3>1
  <2>3. CASE k = e
    <3>1. e + 2 \in k + 1 .. Len(t) /\ "header" \in t[k].to /\ c \in 1 .. k - 1
      BY <1>0, <1>3, <2>3
    <3> QED
      BY <1>6, <3>1
  <2> QED
    BY <1>2, <2>1, <2>2, <2>3
<1>11. LaidLoops(t, {})
  <2> SUFFICES ASSUME NEW k \in DOMAIN t, BranchesTo(t[k], "exit")
               PROVE  \E j \in 1 .. k - 1 : IsAt(t[j], "header") /\ \A i \in j + 1 .. k - 1 : t[i].do # "at"
    BY DEF LaidLoops
  <2>1. k = c /\ b + 2 \in 1 .. k - 1
    BY <1>0, <1>4
  <2>2. ASSUME NEW i \in (b + 2) + 1 .. k - 1 PROVE t[i].do # "at"
    <3>1. i \in DOMAIN t /\ i \notin {b + 2, c + 2, e + 2}
      BY <1>0, <2>1
    <3>2. ~IsAt(t[i], t[i].block)
      BY <1>2, <3>1
    <3> QED
      BY <3>2 DEF IsAt
  <2> QED
    BY <1>6, <2>1, <2>2
<1> QED
  BY <1>7, <1>8, <1>9, <1>10, <1>11 DEF Laid

LEMMA LoopFlows ==
    ASSUME NEW t, IsList(t), NEW b \in Nat, NEW c \in Nat, NEW e \in Nat, LoopAt(t, b, c, e),
           NEW n, Inner(n, t), n.cls \notin EndedAfter
    PROVE  Flows(n, t, {b + 2, c + 1, c + 2, e + 1, e + 2})
<1>0. /\ Len(t) \in Nat /\ DOMAIN t = 1 .. Len(t)
      /\ 1 <= b /\ b + 2 < c /\ c + 2 < e /\ e + 2 <= Len(t)
  BY ListFacts DEF LoopAt
<1>2. \A k \in DOMAIN t :
          /\ \A x : IsAt(t[k], x) <=> \/ k = b + 2 /\ x = "header"
                                      \/ k = c + 2 /\ x = "body"
                                      \/ k = e + 2 /\ x = "exit"
          /\ \A x : IsPlace(t[k], x) <=> (k = c + 1 /\ x = "body") \/ (k = e + 1 /\ x = "exit")
          /\ t[k].do = "terminate" <=> k \in {b + 1, c, e}
          /\ t[k].do # "enter"
  BY LoopSteps
<1>3. PICK dead : dead = {b + 2, c + 1, c + 2, e + 1, e + 2}
  OBVIOUS
<1>4. ASSUME NEW k \in DOMAIN t
      PROVE  /\ t[k].do = "at" <=> k \in {b + 2, c + 2, e + 2}
             /\ t[k].do = "place" <=> k \in {c + 1, e + 1}
             /\ t[k].do = "terminate" <=> k \in {b + 1, c, e}
             /\ t[k].do # "enter" /\ ~OfFunction(n, t[k]) /\ ~OfReturn(n, t[k])
  <2>1. t[k].do = "at" <=> IsAt(t[k], t[k].block)
    BY DEF IsAt
  <2>2. t[k].do = "place" <=> IsPlace(t[k], t[k].block)
    BY DEF IsPlace
  <2>3. t[k].do = "at" => k \in {b + 2, c + 2, e + 2}
    BY <1>2, <2>1
  <2>4. t[k].do = "place" => k \in {c + 1, e + 1}
    BY <1>2, <2>2
  <2>5. k \in {b + 2, c + 2, e + 2} => t[k].do = "at"
    <3>1. k = b + 2 => IsAt(t[k], "header")
      BY <1>2
    <3>2. k = c + 2 => IsAt(t[k], "body")
      BY <1>2
    <3>3. k = e + 2 => IsAt(t[k], "exit")
      BY <1>2
    <3> QED
      BY <3>1, <3>2, <3>3 DEF IsAt
  <2>6. k \in {c + 1, e + 1} => t[k].do = "place"
    <3>1. ASSUME k = c + 1 PROVE IsPlace(t[k], "body")
      BY <1>2, <3>1
    <3>2. k = e + 1 => IsPlace(t[k], "exit")
      BY <1>2
    <3> QED
      BY <3>1, <3>2 DEF IsPlace
  <2> QED
    BY <1>2, <2>3, <2>4, <2>5, <2>6 DEF Inner
<1>5. ASSUME NEW k \in DOMAIN t
      PROVE  /\ NeedsOpen(n, t[k]) => k \notin dead
             /\ Opens(t[k]) \/ OfFunction(n, t[k]) => k \in dead
             /\ Opens(t[k]) => k + 1 \notin dead
             /\ Ends(n, t[k]) => k + 1 \in dead
             /\ ~Opens(t[k]) /\ ~Ends(n, t[k]) => (k \in dead <=> k + 1 \in dead)
  <2>1. k \in dead <=> t[k].do \in {"at", "place"}
    BY <1>3, <1>4
  <2>2. Opens(t[k]) <=> t[k].do = "at"
    BY <1>4 DEF Opens
  <2>3. Ends(n, t[k]) <=> t[k].do = "terminate"
    BY <1>4 DEF Ends
  <2>4. NeedsOpen(n, t[k]) => t[k].do \notin {"at", "place"}
    BY DEF NeedsOpen
  <2>5. k + 1 \in dead <=> t[k].do \in {"place", "terminate"}
    <3>1. k + 1 \in dead <=> k \in {b + 1, c, c + 1, e, e + 1}
      BY <1>0, <1>3
    <3> QED
      BY <1>4, <3>1
  <2> QED
    BY <1>4, <2>1, <2>2, <2>3, <2>4, <2>5
<1>6. Len(t) + 1 \notin dead
  BY <1>0, <1>3
<1> QED
  BY <1>3, <1>5, <1>6 DEF Flows

LEMMA ChoiceSteps ==
    ASSUME NEW t, IsList(t), NEW b \in Nat, NEW e \in Nat, NEW g \in Nat, ChoiceAt(t, b, e, g)
    PROVE  /\ ChoiceSpots(b, e, g) \subseteq DOMAIN t
           /\ \A k \in DOMAIN t :
                 /\ \A x : IsAt(t[k], x) <=> \/ k = b + 2 /\ x = "then"
                                             \/ k = e + 2 /\ x = "else"
                                             \/ k = g + 2 /\ x = "ifmerge"
                 /\ \A x : IsPlace(t[k], x) <=> (k = e + 1 /\ x = "else") \/ (k = g + 1 /\ x = "ifmerge")
                 /\ t[k].do = "blocks" <=> k = b
                 /\ \A x : Creates(t[k], x) <=> k = b /\ x \in {"then", "else", "ifmerge"}
                 /\ t[k].do = "terminate" <=> k \in {b + 1, e, g}
                 /\ t[k].do # "enter"
           /\ t[b].first = "then" /\ t[b].others = {"else", "ifmerge"}
           /\ t[b + 1].to = {"then", "else"} /\ t[e].to = {"ifmerge"} /\ t[g].to = {"ifmerge"}
<1>1. Len(t) \in Nat /\ DOMAIN t = 1 .. Len(t)
  BY ListFacts
<1>2. ChoiceSpots(b, e, g) \subseteq DOMAIN t
  BY <1>1 DEF ChoiceSpots, ChoiceAt
<1>3. /\ t[b].do = "blocks" /\ t[b].first = "then" /\ t[b].others = {"else", "ifmerge"}
      /\ t[b + 1].do = "terminate" /\ t[b + 1].to = {"then", "else"}
      /\ t[b + 2].do = "at" /\ t[b + 2].block = "then"
      /\ t[e].do = "terminate" /\ t[e].to = {"ifmerge"}
      /\ t[e + 1].do = "place" /\ t[e + 1].block = "else" /\ t[e + 2].do = "at" /\ t[e + 2].block = "else"
      /\ t[g].do = "terminate" /\ t[g].to = {"ifmerge"}
      /\ t[g + 1].do = "place" /\ t[g + 1].block = "ifmerge" /\ t[g + 2].do = "at"
      /\ t[g + 2].block = "ifmerge"
  BY DEF ChoiceAt, Blocks, Branch, At, Place
<1>4. ASSUME NEW k \in DOMAIN t
      PROVE  /\ \A x : IsAt(t[k], x) <=> \/ k = b + 2 /\ x = "then"
                                         \/ k = e + 2 /\ x = "else"
                                         \/ k = g + 2 /\ x = "ifmerge"
             /\ \A x : IsPlace(t[k], x) <=> (k = e + 1 /\ x = "else") \/ (k = g + 1 /\ x = "ifmerge")
             /\ t[k].do = "blocks" <=> k = b
             /\ \A x : Creates(t[k], x) <=> k = b /\ x \in {"then", "else", "ifmerge"}
             /\ t[k].do = "terminate" <=> k \in {b + 1, e, g}
             /\ t[k].do # "enter"
  <2>1. 1 <= b /\ b + 2 < e /\ e + 2 < g
    BY DEF ChoiceAt
  <2>2. CASE k \notin ChoiceSpots(b, e, g)
    <3>1. t[k].do \notin {"blocks", "place", "at", "terminate", "enter"}
      BY <2>2 DEF ChoiceAt, PlainElsewhere, Moves
    <3>2. k \notin {b, b + 1, b + 2, e, e + 1, e + 2, g, g + 1, g + 2}
      BY <2>2 DEF ChoiceSpots
    <3> QED
      BY <3>1, <3>2 DEF IsAt, IsPlace, Creates
  <2>3. CASE k \in {b, b + 1, b + 2}
    <3>1. k \notin {e, e + 1, e + 2, g, g + 1, g + 2} /\ k \in Nat
      BY <2>1, <2>3
    <3> QED
      BY <1>3, <2>3, <3>1 DEF IsAt, IsPlace, Creates
  <2>4. CASE k \in {e, e + 1, e + 2}
    <3>1. k \notin {b, b + 1, b + 2, g, g + 1, g + 2} /\ k \in Nat
      BY <2>1, <2>4
    <3> QED
      BY <1>3, <2>4, <3>1 DEF IsAt, IsPlace, Creates
  <2>5. CASE k \in {g, g + 1, g + 2}
    <3>1. k \notin {b, b + 1, b + 2, e, e + 1, e + 2} /\ k \in Nat
      BY <2>1, <2>5
    <3> QED
      BY <1>3, <2>5, <3>1 DEF IsAt, IsPlace, Creates
  <2> QED
    BY <2>2, <2>3, <2>4, <2>5 DEF ChoiceSpots
<1> QED
  BY <1>2, <1>3, <1>4

LEMMA ChoiceLaid ==
    ASSUME NEW t, IsList(t), NEW b \in Nat, NEW e \in Nat, NEW g \in Nat, ChoiceAt(t, b, e, g)
    PROVE  Laid(t, {}, {}, {}, {})
<1>0. /\ Len(t) \in Nat /\ DOMAIN t = 1 .. Len(t)
      /\ 1 <= b /\ b + 2 < e /\ e + 2 < g /\ g + 2 <= Len(t)
  BY ListFacts DEF ChoiceAt
<1>1. ChoiceSpots(b, e, g) \subseteq DOMAIN t
  BY ChoiceSteps
<1>2. \A k \in DOMAIN t :
          /\ \A x : IsAt(t[k], x) <=> \/ k = b + 2 /\ x = "then"
                                      \/ k = e + 2 /\ x = "else"
                                      \/ k = g + 2 /\ x = "ifmerge"
          /\ \A x : IsPlace(t[k], x) <=> (k = e + 1 /\ x = "else") \/ (k = g + 1 /\ x = "ifmerge")
          /\ t[k].do = "blocks" <=> k = b
          /\ \A x : Creates(t[k], x) <=> k = b /\ x \in {"then", "else", "ifmerge"}
          /\ t[k].do = "terminate" <=> k \in {b + 1, e, g}
  BY ChoiceSteps
<1>3. /\ t[b].first = "then" /\ t[b].others = {"else", "ifmerge"}
      /\ t[b + 1].to = {"then", "else"} /\ t[e].to = {"ifmerge"} /\ t[g].to = {"ifmerge"}
  BY ChoiceSteps
<1>4. \A k \in DOMAIN t : \A x : BranchesTo(t[k], x) <=> \/ k = b + 1 /\ x \in {"then", "else"}
                                                         \/ k = e /\ x = "ifmerge"
                                                         \/ k = g /\ x = "ifmerge"
  BY <1>0, <1>2, <1>3 DEF BranchesTo
<1>5. /\ b \in DOMAIN t /\ b + 1 \in DOMAIN t /\ b + 2 \in DOMAIN t /\ e \in DOMAIN t /\ e + 1 \in DOMAIN t
      /\ e + 2 \in DOMAIN t /\ g \in DOMAIN t /\ g + 1 \in DOMAIN t /\ g + 2 \in DOMAIN t
  BY <1>1 DEF ChoiceSpots
<1>6. /\ IsAt(t[b + 2], "then") /\ IsAt(t[e + 2], "else") /\ IsAt(t[g + 2], "ifmerge")
      /\ IsPlace(t[e + 1], "else") /\ IsPlace(t[g + 1], "ifmerge") /\ t[b].do = "blocks"
      /\ BranchesTo(t[b + 1], "then") /\ BranchesTo(t[b + 1], "else") /\ BranchesTo(t[e], "ifmerge")
  <2>1. IsAt(t[b + 2], "then") /\ IsAt(t[e + 2], "else") /\ IsAt(t[g + 2], "ifmerge") /\ t[b].do = "blocks"
    BY <1>2, <1>5
  <2>2. IsPlace(t[e + 1], "else") /\ IsPlace(t[g + 1], "ifmerge")
    BY <1>2, <1>5
  <2>3. BranchesTo(t[b + 1], "then") /\ BranchesTo(t[b + 1], "else") /\ BranchesTo(t[e], "ifmerge")
    BY <1>4, <1>5
  <2> QED
    BY <2>1, <2>2, <2>3
<1>7. LaidNames(t, {})
  <2> SUFFICES ASSUME NEW k \in DOMAIN t, NEW x, IsAt(t[k], x) \/ IsPlace(t[k], x) \/ BranchesTo(t[k], x)
               PROVE  x \in Labels /\ \E j \in 1 .. k - 1 : Creates(t[j], x)
    BY DEF LaidNames
  <2>1. x \in {"then", "else", "ifmerge"} /\ b < k
    BY <1>0, <1>2, <1>4
  <2>2. Creates(t[b], x) /\ b \in 1 .. k - 1
    BY <1>0, <1>2, <1>5, <2>1
  <2> QED
    BY <2>1, <2>2 DEF Labels
<1>8. LaidBlocks(t)
  <2> SUFFICES ASSUME NEW k \in DOMAIN t, t[k].do = "blocks"
               PROVE  /\ \A x : Creates(t[k], x) => x \in Labels /\ \E j \in k + 1 .. Len(t) : IsAt(t[j], x)
                      /\ \A x \in t[k].others : \E j \in k + 1 .. Len(t) : IsPlace(t[j], x)
                      /\ \A j \in DOMAIN t : t[j].do = "blocks" => j = k
    BY DEF LaidBlocks
  <2>1. k = b /\ \A j \in DOMAIN t : t[j].do = "blocks" => j = b
    BY <1>2
  <2>2. b + 2 \in b + 1 .. Len(t) /\ e + 2 \in b + 1 .. Len(t) /\ g + 2 \in b + 1 .. Len(t)
        /\ e + 1 \in b + 1 .. Len(t) /\ g + 1 \in b + 1 .. Len(t)
    BY <1>0
  <2>3. ASSUME NEW x, Creates(t[b], x) PROVE x \in Labels /\ \E j \in b + 1 .. Len(t) : IsAt(t[j], x)
    <3>1. x \in {"then", "else", "ifmerge"}
      BY <1>2, <1>5, <2>3
    <3> QED
      BY <1>6, <2>2, <3>1 DEF Labels
  <2>4. ASSUME NEW x \in t[b].others PROVE \E j \in b + 1 .. Len(t) : IsPlace(t[j], x)
    BY <1>3, <1>6, <2>2
  <2> QED
    BY <2>1, <2>3, <2>4
<1>9. LaidAts(t, {}, {})
  <2> SUFFICES ASSUME NEW k \in DOMAIN t, t[k].do = "at"
               PROVE  /\ \E j \in 1 .. k - 1 :
                            IsPlace(t[j], t[k].block) \/ (t[j].do = "blocks" /\ t[j].first = t[k].block)
                      /\ \E j \in 1 .. k - 1 : BranchesTo(t[j], t[k].block)
                      /\ \A j \in DOMAIN t : IsAt(t[j], t[k].block) => j = k
    BY DEF LaidAts
  <2>0. IsAt(t[k], t[k].block)
    BY DEF IsAt
  <2>1. CASE k = b + 2 /\ t[k].block = "then"
    <3>1. b \in 1 .. k - 1 /\ b + 1 \in 1 .. k - 1
      BY <1>0, <2>1
    <3> QED
      BY <1>2, <1>3, <1>6, <2>1, <3>1
  <2>2. CASE k = e + 2 /\ t[k].block = "else"
    <3>1. e + 1 \in 1 .. k - 1 /\ b + 1 \in 1 .. k - 1
      BY <1>0, <2>2
    <3> QED
      BY <1>2, <1>6, <2>2, <3>1
  <2>3. CASE k = g + 2 /\ t[k].block = "ifmerge"
    <3>1. g + 1 \in 1 .. k - 1 /\ e \in 1 .. k - 1
      BY <1>0, <2>3
    <3> QED
      BY <1>2, <1>6, <2>3, <3>1
  <2> QED
    BY <1>2, <2>0, <2>1, <2>2, <2>3
<1>10. LaidBranches(t, {})
  <2> SUFFICES ASSUME NEW k \in DOMAIN t, t[k].do = "terminate"
               PROVE  \E x \in t[k].to : \E j \in k + 1 .. Len(t) : IsAt(t[j], x)
    BY DEF LaidBranches
  <2>1. CASE k = b + 1
    <3>1. b + 2 \in k + 1 .. Len(t) /\ "then" \in t[k].to
      BY <1>0, <1>3, <2>1
    <3> QED
      BY <1>6, <3>1
  <2>2. CASE k \in {e, g}
    <3>1. g + 2 \in k + 1 .. Len(t) /\ "ifmerge" \in t[k].to
      BY <1>0, <1>3, <2>2
    <3> QED
      BY <1>6, <3>1
  <2> QED
    BY <1>2, <2>1, <2>2
<1>11. LaidLoops(t, {})
  BY <1>4 DEF LaidLoops
<1> QED
  BY <1>7, <1>8, <1>9, <1>10, <1>11 DEF Laid

LEMMA ChoiceFlows ==
    ASSUME NEW t, IsList(t), NEW b \in Nat, NEW e \in Nat, NEW g \in Nat, ChoiceAt(t, b, e, g),
           NEW n, Inner(n, t), n.cls \notin EndedAfter
    PROVE  Flows(n, t, {b + 2, e + 1, e + 2, g + 1, g + 2})
<1>0. /\ Len(t) \in Nat /\ DOMAIN t = 1 .. Len(t)
      /\ 1 <= b /\ b + 2 < e /\ e + 2 < g /\ g + 2 <= Len(t)
  BY ListFacts DEF ChoiceAt
<1>1. \A k \in DOMAIN t :
          /\ \A x : IsAt(t[k], x) <=> \/ k = b + 2 /\ x = "then"
                                      \/ k = e + 2 /\ x = "else"
                                      \/ k = g + 2 /\ x = "ifmerge"
          /\ \A x : IsPlace(t[k], x) <=> (k = e + 1 /\ x = "else") \/ (k = g + 1 /\ x = "ifmerge")
          /\ t[k].do = "blocks" <=> k = b
          /\ \A x : Creates(t[k], x) <=> k = b /\ x \in {"then", "else", "ifmerge"}
          /\ t[k].do = "terminate" <=> k \in {b + 1, e, g}
          /\ t[k].do # "enter"
  BY ChoiceSteps
<1>2. \A k \in DOMAIN t :
          /\ \A x : IsAt(t[k], x) <=> \/ k = b + 2 /\ x = "then"
                                      \/ k = e + 2 /\ x = "else"
                                      \/ k = g + 2 /\ x = "ifmerge"
          /\ \A x : IsPlace(t[k], x) <=> (k = e + 1 /\ x = "else") \/ (k = g + 1 /\ x = "ifmerge")
          /\ t[k].do = "terminate" <=> k \in {b + 1, e, g}
  BY <1>1, Zenon
<1>e. \A k \in DOMAIN t : t[k].do # "enter"
  BY <1>1
<1>3. PICK dead : dead = {b + 2, e + 1, e + 2, g + 1, g + 2}
  OBVIOUS
<1>4. ASSUME NEW k \in DOMAIN t
      PROVE  /\ t[k].do = "at" <=> k \in {b + 2, e + 2, g + 2}
             /\ t[k].do = "place" <=> k \in {e + 1, g + 1}
             /\ t[k].do = "terminate" <=> k \in {b + 1, e, g}
             /\ t[k].do # "enter" /\ ~OfFunction(n, t[k]) /\ ~OfReturn(n, t[k])
  <2>1. t[k].do = "at" <=> IsAt(t[k], t[k].block)
    BY DEF IsAt
  <2>2. t[k].do = "place" <=> IsPlace(t[k], t[k].block)
    BY DEF IsPlace
  <2>3. t[k].do = "at" => k \in {b + 2, e + 2, g + 2}
    BY <1>2, <2>1
  <2>4. t[k].do = "place" => k \in {e + 1, g + 1}
    BY <1>2, <2>2
  <2>5. k \in {b + 2, e + 2, g + 2} => t[k].do = "at"
    <3>1. k = b + 2 => IsAt(t[k], "then")
      BY <1>2
    <3>2. k = e + 2 => IsAt(t[k], "else")
      BY <1>2
    <3>3. k = g + 2 => IsAt(t[k], "ifmerge")
      BY <1>2
    <3> QED
      BY <3>1, <3>2, <3>3 DEF IsAt
  <2>6. k \in {e + 1, g + 1} => t[k].do = "place"
    <3>1. ASSUME k = e + 1 PROVE IsPlace(t[k], "else")
      BY <1>2, <3>1
    <3>2. k = g + 1 => IsPlace(t[k], "ifmerge")
      BY <1>2
    <3> QED
      BY <3>1, <3>2 DEF IsPlace
  <2> QED
    BY <1>2, <1>e, <2>3, <2>4, <2>5, <2>6 DEF Inner
<1>5. ASSUME NEW k \in DOMAIN t
      PROVE  /\ NeedsOpen(n, t[k]) => k \notin dead
             /\ Opens(t[k]) \/ OfFunction(n, t[k]) => k \in dead
             /\ Opens(t[k]) => k + 1 \notin dead
             /\ Ends(n, t[k]) => k + 1 \in dead
             /\ ~Opens(t[k]) /\ ~Ends(n, t[k]) => (k \in dead <=> k + 1 \in dead)
  <2>1. k \in dead <=> t[k].do \in {"at", "place"}
    BY <1>3, <1>4
  <2>2. Opens(t[k]) <=> t[k].do = "at"
    BY <1>4 DEF Opens
  <2>3. Ends(n, t[k]) <=> t[k].do = "terminate"
    BY <1>4 DEF Ends
  <2>4. NeedsOpen(n, t[k]) => t[k].do \notin {"at", "place"}
    BY DEF NeedsOpen
  <2>5. k + 1 \in dead <=> t[k].do \in {"place", "terminate"}
    <3>1. k + 1 \in dead <=> k \in {b + 1, e, e + 1, g, g + 1}
      BY <1>0, <1>3
    <3> QED
      BY <1>4, <3>1
  <2> QED
    BY <1>4, <2>1, <2>2, <2>3, <2>4, <2>5
<1>6. Len(t) + 1 \notin dead
  BY <1>0, <1>3
<1> QED
  BY <1>3, <1>5, <1>6 DEF Flows

-----------------------------------------------------------------------------
(* Functions and returns are children of programs and functions alone.       *)
LEMMA InnerKid ==
    ASSUME NEW n \in Nodes, NEW i \in 1 .. Len(n.kids), n.kids[i].cls \in EndedAfter
    PROVE  n.cls \in {"ASTProgram", "ASTFunction"}
<1>1. /\ Len(n.kids) \in Nat /\ DOMAIN n.kids = 1 .. Len(n.kids) /\ DOMAIN Sorts(n) = 1 .. Len(n.kids)
      /\ n.kids[i] \in Nodes /\ Grammatical(n)
  BY NodeFacts DEF Sorts
<1>2. Sort(n.kids[i]) \notin {"expr", "statement"}
  BY DEF Sort, EndedAfter, ExprClasses, ConstantClasses, UnaryClasses, UpdateClasses, BinaryClasses, StmtClasses
<1>3. Sorts(n)[i] = Sort(n.kids[i]) /\ i \in DOMAIN Sorts(n)
  BY <1>1 DEF Sorts
<1>4. ~ AllOf(n, {"expr"}) /\ ~ AllOf(n, {"statement"})
  BY <1>1, <1>2 DEF AllOf, Kids
<1>5. /\ Sorts(n) # << >> /\ Sorts(n) # <<"expr">> /\ Sorts(n) # <<"expr", "expr">>
      /\ Sorts(n) # <<"expr", "expr", "expr">>
  BY <1>2, <1>3
<1>6. /\ Sorts(n) # <<"expr", "statement">> /\ Sorts(n) # <<"expr", "statement", "statement">>
      /\ Sorts(n) # <<"expr", "expr", "statement">>
  BY <1>2, <1>3
<1>7. /\ Sorts(n) # <<"expr", "expr", "expr", "statement">>
      /\ Sorts(n) # <<"expr", "expr", "expr", "expr", "statement">>
  BY <1>2, <1>3
<1> QED
  BY <1>1, <1>4, <1>5, <1>6, <1>7 DEF Grammatical

LEMMA OuterKids ==
    ASSUME NEW n \in Nodes, NEW i \in 1 .. Len(n.kids)
    PROVE  /\ n.cls = "ASTProgram" => n.kids[i].cls = "ASTFunction"
           /\ n.cls = "ASTFunction" => /\ n.kids[i].cls \notin {"ASTProgram", "ASTFunction"}
                                       /\ n.kids[i].cls = "ASTReturnStmt" <=> i = Len(n.kids)
<1>1. /\ Len(n.kids) \in Nat /\ DOMAIN n.kids = 1 .. Len(n.kids) /\ Grammatical(n) /\ n.kids[i] \in Kids(n)
      /\ i \in DOMAIN n.kids
  BY NodeFacts DEF Kids
<1>2. /\ n.cls = "ASTProgram" => AllOf(n, {"ASTFunction"})
      /\ n.cls = "ASTFunction" =>
            /\ AllOf(n, {"ASTDeclStmt", "statement", "ASTReturnStmt"})
            /\ \A j \in DOMAIN n.kids : n.kids[j].cls = "ASTReturnStmt" <=> j = Len(n.kids)
  BY <1>1 DEF Grammatical, ConstantClasses, UnaryClasses, UpdateClasses, BinaryClasses
<1>3. /\ n.cls = "ASTProgram" => Sort(n.kids[i]) = "ASTFunction"
      /\ n.cls = "ASTFunction" => Sort(n.kids[i]) \in {"ASTDeclStmt", "statement", "ASTReturnStmt"}
  BY <1>1, <1>2 DEF AllOf
<1>4. /\ Sort(n.kids[i]) = "ASTFunction" => n.kids[i].cls = "ASTFunction"
      /\ n.kids[i].cls = "ASTFunction" => Sort(n.kids[i]) = "ASTFunction"
      /\ n.kids[i].cls = "ASTProgram" => Sort(n.kids[i]) = "ASTProgram"
  BY DEF Sort, ExprClasses, ConstantClasses, UnaryClasses, UpdateClasses, BinaryClasses, StmtClasses
<1> QED
  BY <1>1, <1>2, <1>3, <1>4

LEMMA KidsAreInner ==
    ASSUME NEW n \in Nodes, n.cls \notin {"ASTProgram", "ASTFunction"},
           NEW t, NEW T, Plain(t, Len(n.kids), T)
    PROVE  Inner(n, t)
<1>1. ASSUME NEW k \in DOMAIN t, t[k].do = "codegen" PROVE n.kids[t[k].child].cls \notin EndedAfter
  <2>1. t[k].child \in 1 .. Len(n.kids)
    BY <1>1 DEF Plain, Ordinary
  <2> QED
    BY <2>1, InnerKid
<1> QED
  BY <1>1 DEF Inner, OfFunction, OfReturn, EndedAfter

(* The lists that end no block keep the current one open.                    *)
LEMMA CalmFlows ==
    ASSUME NEW n, NEW t, Calm(t), \A k \in DOMAIN t : t[k].do # "enter", Inner(n, t), n.cls \notin EndedAfter
    PROVE  Flows(n, t, {})
BY DEF Flows, Calm, NeedsOpen, Opens, Ends, Inner

LEMMA CalmCodegen ==
    ASSUME NEW n \in Nodes,
           n.cls \notin Branching \cup {"ASTFunction", "ASTReturnStmt", "ASTProgram"}
    PROVE  /\ Calm(codegen(n)) /\ Flows(n, codegen(n), {})
           /\ \A k \in DOMAIN codegen(n) : codegen(n)[k].do # "enter"
<1>1. PICK t : t = codegen(n)
  OBVIOUS
<1>2. Calm(t) /\ \A k \in DOMAIN t : t[k].do # "enter"
  <2>1. CASE n.cls = "ASTAllocExpr"
    <3>1. t = ASTAllocExpr
      BY <1>1, <2>1, CodegenLists
    <3>2. \A k \in 1 .. 6 : ASTAllocExpr[k].do \in {"allocFlag", "codegen", "emit", "store"}
      BY DEF ASTAllocExpr, allocationFlag, Gen, Emit, Store
    <3>3. DOMAIN ASTAllocExpr = 1 .. 6
      BY DEF ASTAllocExpr
    <3> QED
      BY <3>1, <3>2, <3>3 DEF Calm
  <2>2. CASE n.cls # "ASTAllocExpr"
    <3>1. Plain(codegen(n), Len(n.kids), Special)
      BY <2>2, PlainCodegen
    <3> QED
      BY <1>1, <3>1 DEF Plain, Ordinary, Special, Calm
  <2> QED
    BY <2>1, <2>2
<1>3. Inner(n, t)
  <2>1. CASE n.cls = "ASTAllocExpr"
    <3>1. t = ASTAllocExpr
      BY <1>1, <2>1, CodegenLists
    <3>2. \A k \in 1 .. 6 : ASTAllocExpr[k].do = "codegen" => ASTAllocExpr[k].child = 1
      BY DEF ASTAllocExpr, allocationFlag, Gen, Emit, Store
    <3>3. DOMAIN ASTAllocExpr = 1 .. 6
      BY DEF ASTAllocExpr
    <3>4. 1 \in 1 .. Len(n.kids)
      BY <2>1, Arity, NodeFacts DEF AtLeast, UnaryClasses
    <3>5. n.kids[1].cls \notin EndedAfter
      BY <2>1, <3>4, InnerKid
    <3> QED
      BY <3>1, <3>2, <3>3, <3>5 DEF Inner, OfFunction, OfReturn, EndedAfter
  <2>2. CASE n.cls # "ASTAllocExpr"
    <3>1. Plain(t, Len(n.kids), {"allocFlag"})
      BY <1>1, <2>2, CodegenLists
    <3> QED
      BY <3>1, KidsAreInner
  <2> QED
    BY <2>1, <2>2
<1>4. Flows(n, t, {})
  <2>1. n.cls \notin EndedAfter
    BY DEF EndedAfter
  <2> QED
    BY <1>2, <1>3, <2>1, CalmFlows
<1> QED
  BY <1>1, <1>2, <1>4

(* What is to be known of the list of a codegen() as its frame starts.       *)
Starts(n, t) ==
    /\ Laid(t, {}, {}, {}, {})
    /\ \E dead : Flows(n, t, dead) /\ (1 \in dead <=> n.cls \in {"ASTProgram", "ASTFunction"})
    /\ n.cls \in OuterClasses => Calm(t)
    /\ \A k \in DOMAIN t : t[k].do = "enter" => k = 1 /\ n.cls = "ASTFunction" /\ t[k].name = n.names[1]

LEMMA LoopStarts ==
    ASSUME NEW n \in Nodes, n.cls \in Branching, NEW b \in Nat, NEW c \in Nat, NEW e \in Nat,
           NEW t, t = codegen(n), LoopAt(t, b, c, e)
    PROVE  Starts(n, t)
<1>1. Plain(t, Len(n.kids), {"allocFlag"}) /\ n.cls \notin EndedAfter \cup OuterClasses
  BY BranchingCodegen DEF Branching, EndedAfter, OuterClasses
<1>2. IsList(t) /\ Inner(n, t)
  BY <1>1, KidsAreInner DEF Plain, OuterClasses
<1>3. Laid(t, {}, {}, {}, {}) /\ Flows(n, t, {b + 2, c + 1, c + 2, e + 1, e + 2})
  BY <1>1, <1>2, LoopLaid, LoopFlows
<1>4. 1 \notin {b + 2, c + 1, c + 2, e + 1, e + 2}
  BY DEF LoopAt
<1>5. \A k \in DOMAIN t : t[k].do # "enter"
  BY <1>2, LoopSteps
<1> QED
  BY <1>1, <1>3, <1>4, <1>5 DEF Starts, OuterClasses

LEMMA ChoiceStarts ==
    ASSUME NEW n \in Nodes, n.cls \in Branching, NEW b \in Nat, NEW e \in Nat, NEW g \in Nat,
           NEW t, t = codegen(n), ChoiceAt(t, b, e, g)
    PROVE  Starts(n, t)
<1>1. Plain(t, Len(n.kids), {"allocFlag"}) /\ n.cls \notin EndedAfter \cup OuterClasses
  BY BranchingCodegen DEF Branching, EndedAfter, OuterClasses
<1>2. IsList(t) /\ Inner(n, t)
  BY <1>1, KidsAreInner DEF Plain, OuterClasses
<1>3. Laid(t, {}, {}, {}, {}) /\ Flows(n, t, {b + 2, e + 1, e + 2, g + 1, g + 2})
  BY <1>1, <1>2, ChoiceLaid, ChoiceFlows
<1>4. 1 \notin {b + 2, e + 1, e + 2, g + 1, g + 2}
  BY DEF ChoiceAt
<1>5. \A k \in DOMAIN t : t[k].do # "enter"
  BY <1>2, ChoiceSteps
<1> QED
  BY <1>1, <1>3, <1>4, <1>5 DEF Starts, OuterClasses

LEMMA OfArrayLoop == LoopAt(ASTOfArrayExpr, 8, 13, 22)
<1>1. IsList(ASTOfArrayExpr) /\ Len(ASTOfArrayExpr) = 25 /\ DOMAIN ASTOfArrayExpr = 1 .. 25
  <2>1. /\ DOMAIN ASTOfArrayExpr = 1 .. 25 /\ ASTOfArrayExpr = [i \in 1 .. 25 |-> ASTOfArrayExpr[i]]
    BY DEF ASTOfArrayExpr
  <2> QED
    BY <2>1, FunctionList
<1>2. /\ ASTOfArrayExpr[8] = Blocks("header", {"body", "exit"}) /\ ASTOfArrayExpr[8 + 1] = Branch("header")
      /\ ASTOfArrayExpr[8 + 2] = At("header")
      /\ ASTOfArrayExpr[13].do = "terminate" /\ ASTOfArrayExpr[13].to = {"body", "exit"}
      /\ ASTOfArrayExpr[13 + 1] = Place("body") /\ ASTOfArrayExpr[13 + 2] = At("body")
      /\ ASTOfArrayExpr[22] = Branch("header") /\ ASTOfArrayExpr[22 + 1] = Place("exit")
      /\ ASTOfArrayExpr[22 + 2] = At("exit")
  BY DEF ASTOfArrayExpr, CondBranch
<1>3. PlainElsewhere(ASTOfArrayExpr, LoopSpots(8, 13, 22))
  <2>1. \A k \in 1 .. 25 : k \notin {8, 9, 10, 13, 14, 15, 22, 23, 24} => ASTOfArrayExpr[k].do \notin Moves
    BY DEF ASTOfArrayExpr, Moves, Gen, Emit, Store, Known
  <2>2. LoopSpots(8, 13, 22) = {8, 9, 10, 13, 14, 15, 22, 23, 24}
    BY DEF LoopSpots
  <2> QED
    BY <1>1, <2>1, <2>2 DEF PlainElsewhere
<1> QED
  BY <1>1, <1>2, <1>3 DEF LoopAt

LEMMA WhileLoop == LoopAt(ASTWhileStmt, 1, 6, 10)
<1>1. IsList(ASTWhileStmt) /\ Len(ASTWhileStmt) = 13 /\ DOMAIN ASTWhileStmt = 1 .. 13
  <2>1. /\ DOMAIN ASTWhileStmt = 1 .. 13 /\ ASTWhileStmt = [i \in 1 .. 13 |-> ASTWhileStmt[i]]
    BY DEF ASTWhileStmt
  <2> QED
    BY <2>1, FunctionList
<1>2. /\ ASTWhileStmt[1] = Blocks("header", {"body", "exit"}) /\ ASTWhileStmt[1 + 1] = Branch("header")
      /\ ASTWhileStmt[1 + 2] = At("header")
      /\ ASTWhileStmt[6].do = "terminate" /\ ASTWhileStmt[6].to = {"body", "exit"}
      /\ ASTWhileStmt[6 + 1] = Place("body") /\ ASTWhileStmt[6 + 2] = At("body")
      /\ ASTWhileStmt[10] = Branch("header") /\ ASTWhileStmt[10 + 1] = Place("exit")
      /\ ASTWhileStmt[10 + 2] = At("exit")
  BY DEF ASTWhileStmt, CondBranch
<1>3. PlainElsewhere(ASTWhileStmt, LoopSpots(1, 6, 10))
  <2>1. \A k \in 1 .. 13 : k \notin {1, 2, 3, 6, 7, 8, 10, 11, 12} => ASTWhileStmt[k].do \notin Moves
    BY DEF ASTWhileStmt, Moves, Gen, Emit, Nop
  <2>2. LoopSpots(1, 6, 10) = {1, 2, 3, 6, 7, 8, 10, 11, 12}
    BY DEF LoopSpots
  <2> QED
    BY <1>1, <2>1, <2>2 DEF PlainElsewhere
<1> QED
  BY <1>1, <1>2, <1>3 DEF LoopAt

LEMMA ForIterLoop == LoopAt(ASTForIterStmt, 10, 15, 25)
<1>1. IsList(ASTForIterStmt) /\ Len(ASTForIterStmt) = 28 /\ DOMAIN ASTForIterStmt = 1 .. 28
  <2>1. /\ DOMAIN ASTForIterStmt = 1 .. 28 /\ ASTForIterStmt = [i \in 1 .. 28 |-> ASTForIterStmt[i]]
    BY DEF ASTForIterStmt
  <2> QED
    BY <2>1, FunctionList
<1>2. /\ ASTForIterStmt[10] = Blocks("header", {"body", "exit"}) /\ ASTForIterStmt[10 + 1] = Branch("header")
      /\ ASTForIterStmt[10 + 2] = At("header")
      /\ ASTForIterStmt[15].do = "terminate" /\ ASTForIterStmt[15].to = {"body", "exit"}
      /\ ASTForIterStmt[15 + 1] = Place("body") /\ ASTForIterStmt[15 + 2] = At("body")
      /\ ASTForIterStmt[25] = Branch("header") /\ ASTForIterStmt[25 + 1] = Place("exit")
      /\ ASTForIterStmt[25 + 2] = At("exit")
  BY DEF ASTForIterStmt, CondBranch
<1>3. PlainElsewhere(ASTForIterStmt, LoopSpots(10, 15, 25))
  <2>1. \A k \in 1 .. 28 : k \notin {10, 11, 12, 15, 16, 17, 25, 26, 27} => ASTForIterStmt[k].do \notin Moves
    BY DEF ASTForIterStmt, Moves, Gen, Emit, Store, Known, Nop, lValueFlag
  <2>2. LoopSpots(10, 15, 25) = {10, 11, 12, 15, 16, 17, 25, 26, 27}
    BY DEF LoopSpots
  <2> QED
    BY <1>1, <2>1, <2>2 DEF PlainElsewhere
<1> QED
  BY <1>1, <1>2, <1>3 DEF LoopAt

LEMMA ForRangeLoop == ASSUME NEW n PROVE LoopAt(ASTForRangeStmt(n), 8, 13, 20)
<1>0. PICK t : t = ASTForRangeStmt(n)
  OBVIOUS
<1>1. IsList(t) /\ Len(t) = 23 /\ DOMAIN t = 1 .. 23
  <2>1. /\ DOMAIN t = 1 .. 23 /\ t = [i \in 1 .. 23 |-> t[i]]
    BY <1>0 DEF ASTForRangeStmt
  <2> QED
    BY <2>1, FunctionList
<1>2. /\ t[8] = Blocks("header", {"body", "exit"}) /\ t[8 + 1] = Branch("header") /\ t[8 + 2] = At("header")
      /\ t[13].do = "terminate" /\ t[13].to = {"body", "exit"}
      /\ t[13 + 1] = Place("body") /\ t[13 + 2] = At("body")
      /\ t[20] = Branch("header") /\ t[20 + 1] = Place("exit") /\ t[20 + 2] = At("exit")
  BY <1>0 DEF ASTForRangeStmt, CondBranch
<1>3. PlainElsewhere(t, LoopSpots(8, 13, 20))
  <2>1. \A k \in 1 .. 23 : k \notin {8, 9, 10, 13, 14, 15, 20, 21, 22} => t[k].do \notin Moves
    <3>1. PICK z : z = IF Len(n.kids) = 5 THEN Gen(4, "step") ELSE Known("step", ConstantInt)
      OBVIOUS
    <3>2. z.do \notin Moves
      BY <3>1 DEF Gen, Known, Moves
    <3>3. t = <<lValueFlag(TRUE), Gen(1, "iterator"), lValueFlag(FALSE),
                Gen(2, "start"), Gen(3, "end"), z, Store("start", "iterator"),
                Blocks("header", {"body", "exit"}), Branch("header"),
                At("header"), Emit("curVal", "i64", [iterator |-> "ptr"]),
                Emit("loopcond", "i1", [curVal |-> "i64", end |-> "i64"]),
                CondBranch("loopcond", "body", "exit"),
                Place("body"), At("body"), Emit("cur", "i64", [iterator |-> "ptr"]),
                Gen(Len(n.kids), "BodyV"),
                Emit("inctmp", "i64", [cur |-> "i64", step |-> "i64"]),
                Store("inctmp", "iterator"), Branch("header"),
                Place("exit"), At("exit"), Nop>>
      BY <1>0, <3>1 DEF ASTForRangeStmt
    <3>4. \A k \in 1 .. 7 : t[k].do \notin Moves
      <4>1. /\ t[1] = lValueFlag(TRUE) /\ t[2] = Gen(1, "iterator") /\ t[3] = lValueFlag(FALSE)
            /\ t[4] = Gen(2, "start") /\ t[5] = Gen(3, "end") /\ t[6] = z /\ t[7] = Store("start", "iterator")
        BY <3>3
      <4>2. /\ t[1].do \notin Moves /\ t[2].do \notin Moves /\ t[3].do \notin Moves /\ t[4].do \notin Moves
            /\ t[5].do \notin Moves /\ t[6].do \notin Moves /\ t[7].do \notin Moves
        BY <3>2, <4>1 DEF Moves, Gen, Store, lValueFlag
      <4>3. \A k \in 1 .. 7 : k = 1 \/ k = 2 \/ k = 3 \/ k = 4 \/ k = 5 \/ k = 6 \/ k = 7
        OBVIOUS
      <4> QED
        BY <4>2, <4>3
    <3>5. t[11].do \notin Moves /\ t[12].do \notin Moves /\ \A k \in 16 .. 19 : t[k].do \notin Moves
      BY <3>3 DEF Moves, Gen, Emit, Store
    <3>6. t[23].do \notin Moves
      BY <3>3 DEF Moves, Emit, Nop
    <3>7. \A k \in 1 .. 23 : k \notin {8, 9, 10, 13, 14, 15, 20, 21, 22} =>
              k \in 1 .. 7 \/ k = 11 \/ k = 12 \/ k \in 16 .. 19 \/ k = 23
      OBVIOUS
    <3> QED
      BY <3>4, <3>5, <3>6, <3>7
  <2>2. LoopSpots(8, 13, 20) = {8, 9, 10, 13, 14, 15, 20, 21, 22}
    BY DEF LoopSpots
  <2> QED
    BY <1>1, <2>1, <2>2 DEF PlainElsewhere
<1> QED
  BY <1>0, <1>1, <1>2, <1>3 DEF LoopAt

LEMMA IfChoice == ASSUME NEW n PROVE ChoiceAt(ASTIfStmt(n), 3, 7, 11)
<1>0. PICK t : t = ASTIfStmt(n)
  OBVIOUS
<1>1. IsList(t) /\ Len(t) = 14 /\ DOMAIN t = 1 .. 14
  <2>1. /\ DOMAIN t = 1 .. 14 /\ t = [i \in 1 .. 14 |-> t[i]]
    BY <1>0 DEF ASTIfStmt
  <2> QED
    BY <2>1, FunctionList
<1>2. /\ t[3] = Blocks("then", {"else", "ifmerge"}) /\ t[3 + 2] = At("then")
      /\ t[3 + 1].do = "terminate" /\ t[3 + 1].to = {"then", "else"}
      /\ t[7] = Branch("ifmerge") /\ t[7 + 1] = Place("else") /\ t[7 + 2] = At("else")
      /\ t[11] = Branch("ifmerge") /\ t[11 + 1] = Place("ifmerge") /\ t[11 + 2] = At("ifmerge")
  BY <1>0 DEF ASTIfStmt, CondBranch
<1>3. PlainElsewhere(t, ChoiceSpots(3, 7, 11))
  <2>1. \A k \in 1 .. 14 : k \notin {3, 4, 5, 7, 8, 9, 11, 12, 13} => t[k].do \notin Moves
    BY <1>0 DEF ASTIfStmt, Moves, Gen, Emit, Nop
  <2>2. ChoiceSpots(3, 7, 11) = {3, 4, 5, 7, 8, 9, 11, 12, 13}
    BY DEF ChoiceSpots
  <2> QED
    BY <1>1, <2>1, <2>2 DEF PlainElsewhere
<1> QED
  BY <1>0, <1>1, <1>2, <1>3 DEF ChoiceAt

LEMMA ElementList ==
    ASSUME NEW lv \in BOOLEAN
    PROVE  LET z == IF lv THEN Emit("result", "ptr", [arrayPtr |-> "ptr", offset |-> "i64"])
                          ELSE Emit("result", "i64", [theArrayElement |-> "ptr"])
               s == <<Gen(1, "array"), Emit("arrayPtr", "ptr", [array |-> "i64"]),
                      Gen(2, "index"), Emit("offset", "i64", [index |-> "i64"]),
                      Emit("length", "i64", [arrayPtr |-> "ptr"]),
                      Emit("cond", "i1", [index |-> "i64", length |-> "i64"]),
                      Emit("theArrayElement", "ptr", NoOperands),
                      Blocks("then", {"else", "ifmerge"}), CondBranch("cond", "then", "else"),
                      At("then"), Emit("error", "void", [index |-> "i64"]), Branch("ifmerge"),
                      Place("else"), At("else"),
                      Emit("loadPtr", "ptr", [arrayPtr |-> "ptr", offset |-> "i64"]),
                      Emit("value", "i64", [loadPtr |-> "ptr"]), Store("value", "theArrayElement"),
                      Branch("ifmerge"),
                      Place("ifmerge"), At("ifmerge"), z>>
           IN  /\ lv => ASTElementRefrenceOperatorExpr(lv) = <<lValueFlag(FALSE)>> \o s
               /\ ~lv => ASTElementRefrenceOperatorExpr(lv) = s
<1> DEFINE z == IF lv THEN Emit("result", "ptr", [arrayPtr |-> "ptr", offset |-> "i64"])
                      ELSE Emit("result", "i64", [theArrayElement |-> "ptr"])
           s == <<Gen(1, "array"), Emit("arrayPtr", "ptr", [array |-> "i64"]),
                  Gen(2, "index"), Emit("offset", "i64", [index |-> "i64"]),
                  Emit("length", "i64", [arrayPtr |-> "ptr"]),
                  Emit("cond", "i1", [index |-> "i64", length |-> "i64"]),
                  Emit("theArrayElement", "ptr", NoOperands),
                  Blocks("then", {"else", "ifmerge"}), CondBranch("cond", "then", "else"),
                  At("then"), Emit("error", "void", [index |-> "i64"]), Branch("ifmerge"),
                  Place("else"), At("else"),
                  Emit("loadPtr", "ptr", [arrayPtr |-> "ptr", offset |-> "i64"]),
                  Emit("value", "i64", [loadPtr |-> "ptr"]), Store("value", "theArrayElement"),
                  Branch("ifmerge"),
                  Place("ifmerge"), At("ifmerge"), z>>
<1>1. ASTElementRefrenceOperatorExpr(lv) = (IF lv THEN <<lValueFlag(FALSE)>> ELSE << >>) \o s
  BY DEF ASTElementRefrenceOperatorExpr
<1> HIDE DEF z
<1>2. IsList(s)
  <2>1. DOMAIN s = 1 .. 21 /\ s = [i \in 1 .. 21 |-> s[i]]
    OBVIOUS
  <2> HIDE DEF s
  <2> QED
    BY <2>1, FunctionList
<1> HIDE DEF s
<1>3. << >> \o s = s
  BY <1>2 DEF IsList
<1>4. lv => ASTElementRefrenceOperatorExpr(lv) = <<lValueFlag(FALSE)>> \o s
  BY <1>1
<1>5. ~lv => ASTElementRefrenceOperatorExpr(lv) = s
  BY <1>1, <1>3
<1> QED
  BY <1>4, <1>5 DEF s, z

LEMMA ElementChoice ==
    ASSUME NEW lv \in BOOLEAN, NEW t, t = ASTElementRefrenceOperatorExpr(lv)
    PROVE  ChoiceAt(t, 8, 12, 18) \/ ChoiceAt(t, 9, 13, 19)
<1>1. PICK z : z = IF lv THEN Emit("result", "ptr", [arrayPtr |-> "ptr", offset |-> "i64"])
                         ELSE Emit("result", "i64", [theArrayElement |-> "ptr"])
  OBVIOUS
<1>z. z.do = "emit"
  BY <1>1 DEF Emit
<1>2. PICK s : /\ s = <<Gen(1, "array"), Emit("arrayPtr", "ptr", [array |-> "i64"]),
                        Gen(2, "index"), Emit("offset", "i64", [index |-> "i64"]),
                        Emit("length", "i64", [arrayPtr |-> "ptr"]),
                        Emit("cond", "i1", [index |-> "i64", length |-> "i64"]),
                        Emit("theArrayElement", "ptr", NoOperands),
                        Blocks("then", {"else", "ifmerge"}), CondBranch("cond", "then", "else"),
                        At("then"), Emit("error", "void", [index |-> "i64"]), Branch("ifmerge"),
                        Place("else"), At("else"),
                        Emit("loadPtr", "ptr", [arrayPtr |-> "ptr", offset |-> "i64"]),
                        Emit("value", "i64", [loadPtr |-> "ptr"]), Store("value", "theArrayElement"),
                        Branch("ifmerge"),
                        Place("ifmerge"), At("ifmerge"), z>>
               /\ lv => t = <<lValueFlag(FALSE)>> \o s
               /\ ~lv => t = s
  BY <1>1, ElementList
<1>3. IsList(s) /\ Len(s) = 21 /\ DOMAIN s = 1 .. 21
  <2>1. DOMAIN s = 1 .. 21 /\ s = [i \in 1 .. 21 |-> s[i]]
    BY <1>2
  <2> QED
    BY <2>1, FunctionList
<1>4. /\ s[8] = Blocks("then", {"else", "ifmerge"}) /\ s[10] = At("then")
      /\ s[9].do = "terminate" /\ s[9].to = {"then", "else"}
      /\ s[12] = Branch("ifmerge") /\ s[13] = Place("else") /\ s[14] = At("else")
      /\ s[18] = Branch("ifmerge") /\ s[19] = Place("ifmerge") /\ s[20] = At("ifmerge")
  BY <1>2 DEF CondBranch
<1>5. \A k \in 1 .. 21 : k \notin {8, 9, 10, 12, 13, 14, 18, 19, 20} => s[k].do \notin Moves
  BY <1>2, <1>z DEF Moves, Gen, Emit, Store
<1>6. CASE ~lv
  <2>1. t = s
    BY <1>2, <1>6
  <2>2. ChoiceSpots(8, 12, 18) = {8, 9, 10, 12, 13, 14, 18, 19, 20}
    BY DEF ChoiceSpots
  <2>3. PlainElsewhere(s, ChoiceSpots(8, 12, 18))
    BY <1>3, <1>5, <2>2 DEF PlainElsewhere
  <2>4. 8 + 1 = 9 /\ 8 + 2 = 10 /\ 12 + 1 = 13 /\ 12 + 2 = 14 /\ 18 + 1 = 19 /\ 18 + 2 = 20
    OBVIOUS
  <2>5. 1 <= 8 /\ 8 + 2 < 12 /\ 12 + 2 < 18 /\ 18 + 2 <= Len(s)
    BY <1>3
  <2> QED
    BY <1>4, <2>1, <2>3, <2>4, <2>5 DEF ChoiceAt
<1>7. CASE lv
  <2>1. PICK p : p = <<lValueFlag(FALSE)>>
    OBVIOUS
  <2>2. IsList(p) /\ Len(p) = 1 /\ DOMAIN p = 1 .. 1 /\ p[1].do = "lValueGen"
    <3>1. DOMAIN p = 1 .. 1 /\ p = [i \in 1 .. 1 |-> p[i]] /\ p[1].do = "lValueGen"
      BY <2>1 DEF lValueFlag
    <3> QED
      BY <3>1, FunctionList
  <2>3. t = p \o s
    BY <1>2, <1>7, <2>1
  <2>4. /\ IsList(t) /\ Len(t) = 22 /\ t[1] = p[1]
        /\ \A i \in 1 .. 21 : t[1 + i] = s[i]
    <3>1. IsList(p) /\ IsList(s)
      BY <1>3, <2>2
    <3>2. /\ IsList(p \o s) /\ Len(p \o s) = Len(p) + Len(s)
          /\ \A i \in 1 .. Len(p) : (p \o s)[i] = p[i]
          /\ \A i \in 1 .. Len(s) : (p \o s)[Len(p) + i] = s[i]
      BY <3>1, ConcatList
    <3>3. IsList(t) /\ Len(t) = 22
      BY <1>3, <2>2, <2>3, <3>2
    <3>4. 1 \in 1 .. Len(p)
      BY <2>2
    <3>5. t[1] = p[1]
      BY <2>3, <3>2, <3>4
    <3>6. \A i \in 1 .. 21 : t[1 + i] = s[i]
      BY <1>3, <2>2, <2>3, <3>2
    <3> QED
      BY <3>3, <3>5, <3>6
  <2>5. DOMAIN t = 1 .. 22
    BY <2>4, ListFacts
  <2>6. ASSUME NEW k \in 1 .. 22, k \notin {9, 10, 11, 13, 14, 15, 19, 20, 21} PROVE t[k].do \notin Moves
    <3>1. CASE k = 1
      BY <2>2, <2>4, <3>1 DEF Moves
    <3>2. CASE k # 1
      <4>1. k - 1 \in 1 .. 21 /\ 1 + (k - 1) = k
            /\ k - 1 \notin {8, 9, 10, 12, 13, 14, 18, 19, 20}
        BY <2>6, <3>2
      <4>2. t[k] = s[k - 1]
        BY <2>4, <4>1
      <4> QED
        BY <1>5, <4>1, <4>2
    <3> QED
      BY <3>1, <3>2
  <2>7. ChoiceSpots(9, 13, 19) = {9, 10, 11, 13, 14, 15, 19, 20, 21}
    BY DEF ChoiceSpots
  <2>8. PlainElsewhere(t, ChoiceSpots(9, 13, 19))
    BY <2>5, <2>6, <2>7 DEF PlainElsewhere
  <2>9. /\ t[9] = s[8] /\ t[10] = s[9] /\ t[11] = s[10] /\ t[13] = s[12] /\ t[14] = s[13] /\ t[15] = s[14]
        /\ t[19] = s[18] /\ t[20] = s[19] /\ t[21] = s[20]
    <3>1. /\ t[1 + 8] = s[8] /\ t[1 + 9] = s[9] /\ t[1 + 10] = s[10] /\ t[1 + 12] = s[12] /\ t[1 + 13] = s[13]
          /\ t[1 + 14] = s[14] /\ t[1 + 18] = s[18] /\ t[1 + 19] = s[19] /\ t[1 + 20] = s[20]
      BY <2>4
    <3> QED
      BY <3>1
  <2>10. 9 + 1 = 10 /\ 9 + 2 = 11 /\ 13 + 1 = 14 /\ 13 + 2 = 15 /\ 19 + 1 = 20 /\ 19 + 2 = 21
    OBVIOUS
  <2>11. 1 <= 9 /\ 9 + 2 < 13 /\ 13 + 2 < 19 /\ 19 + 2 <= Len(t)
    BY <2>4
  <2> QED
    BY <1>4, <2>8, <2>9, <2>10, <2>11 DEF ChoiceAt
<1> QED
  BY <1>6, <1>7

LEMMA ReturnStarts ==
    ASSUME NEW n \in Nodes, n.cls = "ASTReturnStmt"
    PROVE  Starts(n, ASTReturnStmt)
<1>1. PICK t : t = ASTReturnStmt
  OBVIOUS
<1>2. /\ DOMAIN t = 1 .. 3 /\ t[1].do = "codegen" /\ t[1].child = 1
      /\ t[2].do = "terminate" /\ t[2].to = {} /\ t[3].do = "known" /\ t = [i \in 1 .. 3 |-> t[i]]
  BY <1>1 DEF ASTReturnStmt, Gen, Known
<1>3. IsList(t) /\ Len(t) = 3
  BY <1>2, FunctionList
<1>4. 1 \in 1 .. Len(n.kids)
  BY Arity, NodeFacts DEF AtLeast
<1>5. n.kids[1].cls \notin EndedAfter
  BY <1>4, InnerKid
<1>6. \A k \in 1 .. 3 : k = 1 \/ k = 2 \/ k = 3
  OBVIOUS
<1>7. Laid(t, {}, {}, {}, {})
  <2>1. \A k \in DOMAIN t : \A x : ~IsAt(t[k], x) /\ ~IsPlace(t[k], x) /\ ~BranchesTo(t[k], x)
    BY <1>2, <1>6 DEF IsAt, IsPlace, BranchesTo
  <2>2. \A k \in DOMAIN t : t[k].do \notin {"blocks", "at"} /\ (t[k].do = "terminate" => t[k].to = {})
    BY <1>2, <1>6
  <2>3. LaidNames(t, {}) /\ LaidLoops(t, {})
    BY <2>1 DEF LaidNames, LaidLoops
  <2>4. LaidBlocks(t) /\ LaidAts(t, {}, {}) /\ LaidBranches(t, {})
    BY <2>2 DEF LaidBlocks, LaidAts, LaidBranches
  <2> QED
    BY <2>3, <2>4 DEF Laid
<1>8. Flows(n, t, {3, 4})
  <2>1. /\ NeedsOpen(n, t[3]) = FALSE /\ \A k \in DOMAIN t : ~Opens(t[k]) /\ ~OfFunction(n, t[k])
    BY <1>2, <1>5, <1>6 DEF NeedsOpen, Opens, OfFunction, EndedAfter
  <2>2. Ends(n, t[2]) /\ ~Ends(n, t[1]) /\ ~Ends(n, t[3])
    BY <1>2, <1>5 DEF Ends, OfReturn, OfFunction, EndedAfter
  <2>3. \A k \in DOMAIN t : k \in {1, 2, 3} /\ (k \in {3, 4} <=> k = 3) /\ (k + 1 \in {3, 4} <=> k \in {2, 3})
    BY <1>2, <1>6
  <2>4. ASSUME NEW k \in DOMAIN t
        PROVE  /\ NeedsOpen(n, t[k]) => k \notin {3, 4}
               /\ Opens(t[k]) \/ OfFunction(n, t[k]) => k \in {3, 4}
               /\ Opens(t[k]) => k + 1 \notin {3, 4}
               /\ Ends(n, t[k]) => k + 1 \in {3, 4}
               /\ ~Opens(t[k]) /\ ~Ends(n, t[k]) => (k \in {3, 4} <=> k + 1 \in {3, 4})
    <3>1. k = 1 \/ k = 2 \/ k = 3
      BY <1>2, <1>6
    <3>2. CASE k = 1
      BY <2>1, <2>2, <2>3, <3>2
    <3>3. CASE k = 2
      BY <2>1, <2>2, <2>3, <3>3
    <3>4. CASE k = 3
      BY <2>1, <2>2, <2>3, <3>4
    <3> QED
      BY <3>1, <3>2, <3>3, <3>4
  <2>5. Len(t) + 1 \in {3, 4} /\ n.cls \in EndedAfter
    BY <1>3 DEF EndedAfter
  <2> QED
    BY <2>4, <2>5 DEF Flows
<1>9. \A k \in DOMAIN t : t[k].do # "enter"
  BY <1>2, <1>6
<1>10. 1 \notin {3, 4} /\ n.cls \notin OuterClasses
  BY DEF OuterClasses
<1> QED
  BY <1>1, <1>7, <1>8, <1>9, <1>10 DEF Starts, OuterClasses

LEMMA ProgramStarts ==
    ASSUME NEW n \in Nodes, n.cls = "ASTProgram"
    PROVE  /\ Starts(n, ASTProgram(n)) /\ IsList(ASTProgram(n)) /\ Len(ASTProgram(n)) = Len(n.kids) + 1
           /\ \A k \in 1 .. Len(n.kids) : ASTProgram(n)[k] = Gen(k, "function")
           /\ ASTProgram(n)[Len(n.kids) + 1].do = "known"
<1>1. PICK m \in Nat : m = Len(n.kids) /\ DOMAIN n.kids = 1 .. m
  BY NodeFacts
<1>2. PICK g, p, t : g = GenAll(n, "function") /\ p = <<Known("result", ConstantInt)>> /\ t = g \o p
  OBVIOUS
<1>3. IsList(g) /\ Len(g) = m /\ \A k \in 1 .. m : g[k] = Gen(k, "function")
  <2>1. DOMAIN g = 1 .. m /\ g = [k \in 1 .. m |-> g[k]] /\ \A k \in 1 .. m : g[k] = Gen(k, "function")
    BY <1>1, <1>2 DEF GenAll
  <2> QED
    BY <2>1, FunctionList
<1>4. IsList(p) /\ Len(p) = 1 /\ p[1].do = "known"
  <2>1. DOMAIN p = 1 .. 1 /\ p = [k \in 1 .. 1 |-> p[k]] /\ p[1].do = "known"
    BY <1>2 DEF Known
  <2> QED
    BY <2>1, FunctionList
<1>5. /\ IsList(t) /\ Len(t) = m + 1 /\ DOMAIN t = 1 .. m + 1 /\ t[m + 1].do = "known"
      /\ \A k \in 1 .. m : t[k] = Gen(k, "function")
  <2>1. /\ IsList(g \o p) /\ Len(g \o p) = Len(g) + Len(p)
        /\ \A i \in 1 .. Len(g) : (g \o p)[i] = g[i]
        /\ \A i \in 1 .. Len(p) : (g \o p)[Len(g) + i] = p[i]
    <3>1. IsList(g) /\ IsList(p)
      BY <1>3, <1>4
    <3> QED
      BY <3>1, ConcatList
  <2>2. IsList(t) /\ Len(t) = m + 1
    BY <1>2, <1>3, <1>4, <2>1
  <2>3. 1 \in 1 .. Len(p)
    BY <1>4
  <2>4. t[m + 1] = p[1]
    BY <1>2, <1>3, <2>1, <2>3
  <2>5. \A k \in 1 .. m : t[k] = Gen(k, "function")
    BY <1>2, <1>3, <2>1
  <2> QED
    BY <1>4, <2>2, <2>4, <2>5, ListFacts
<1>6. ASSUME NEW k \in DOMAIN t
      PROVE  \/ t[k].do = "known"
             \/ t[k].do = "codegen" /\ n.kids[t[k].child].cls = "ASTFunction"
  <2>1. CASE k = m + 1
    BY <1>5, <2>1
  <2>2. CASE k \in 1 .. m
    <3>1. n.kids[k].cls = "ASTFunction"
      BY <1>1, <2>2, OuterKids
    <3>2. t[k] = Gen(k, "function")
      BY <1>5, <2>2
    <3>3. t[k].do = "codegen" /\ t[k].child = k
      BY <3>2 DEF Gen
    <3> QED
      BY <3>1, <3>3
  <2> QED
    BY <1>5, <2>1, <2>2
<1>7. Calm(t) /\ \A k \in DOMAIN t : t[k].do # "enter"
  BY <1>6 DEF Calm
<1>8. Laid(t, {}, {}, {}, {})
  BY <1>7, CalmLaid
<1>9. Flows(n, t, Nat)
  <2>1. \A k \in DOMAIN t : k \in Nat /\ k + 1 \in Nat
    BY <1>5
  <2>2. \A k \in DOMAIN t : ~Opens(t[k]) /\ ~NeedsOpen(n, t[k])
    BY <1>6 DEF Opens, NeedsOpen, OfFunction
  <2>3. Len(t) + 1 \in Nat /\ n.cls \in EndedAfter
    BY <1>5 DEF EndedAfter
  <2> QED
    BY <2>1, <2>2, <2>3 DEF Flows
<1>10. Starts(n, t)
  BY <1>7, <1>8, <1>9 DEF Starts
<1>11. t = ASTProgram(n)
  BY <1>2 DEF ASTProgram
<1> QED
  BY <1>1, <1>5, <1>10, <1>11

LEMMA FunctionStarts ==
    ASSUME NEW n \in Nodes, n.cls = "ASTFunction"
    PROVE  Starts(n, ASTFunction(n))
<1>1. PICK m \in Nat : m = Len(n.kids) /\ DOMAIN n.kids = 1 .. m /\ m >= 1
  <2>1. Len(n.kids) > 0
    BY NodeFacts DEF Grammatical, ConstantClasses, UnaryClasses, UpdateClasses, BinaryClasses
  <2> QED
    BY <2>1, NodeFacts
<1>2. PICK l \in Nat : l = Len(n.names) - 1
  <2>1. Len(n.names) > 0 /\ Len(n.names) \in Nat
    BY Arity, NodeFacts
  <2>2. Len(n.names) - 1 \in Nat
    BY <2>1
  <2> QED
    BY <2>2
<1>a. m \in Nat /\ m >= 1 /\ l \in Nat
  BY <1>1, <1>2
<1>3. PICK e, f, g, p, t : /\ e = <<EnterFunction(n.names[1])>>
                           /\ f = [i \in 1 .. l |-> Local(n.names[i + 1])]
                           /\ g = GenAll(n, "statement") /\ p = <<Known("result", ConstantInt)>>
                           /\ t = e \o f \o g \o p
  OBVIOUS
<1>4. IsList(e) /\ Len(e) = 1 /\ e[1].do = "enter" /\ e[1].name = n.names[1]
  <2>1. DOMAIN e = 1 .. 1 /\ e = [k \in 1 .. 1 |-> e[k]] /\ e[1].do = "enter" /\ e[1].name = n.names[1]
    BY <1>3 DEF EnterFunction
  <2> QED
    BY <2>1, FunctionList
<1>5. IsList(f) /\ Len(f) = l /\ \A k \in 1 .. l : f[k].do = "local"
  <2>1. DOMAIN f = 1 .. l /\ f = [k \in 1 .. l |-> f[k]] /\ \A k \in 1 .. l : f[k].do = "local"
    BY <1>3 DEF Local
  <2> QED
    BY <2>1, FunctionList
<1>6. IsList(g) /\ Len(g) = m /\ \A k \in 1 .. m : g[k].do = "codegen" /\ g[k].child = k
  <2>1. DOMAIN g = 1 .. m /\ g = [k \in 1 .. m |-> g[k]] /\ \A k \in 1 .. m : g[k].do = "codegen" /\ g[k].child = k
    BY <1>1, <1>3 DEF GenAll, Gen
  <2> QED
    BY <2>1, FunctionList
<1>7. IsList(p) /\ Len(p) = 1 /\ p[1].do = "known"
  <2>1. DOMAIN p = 1 .. 1 /\ p = [k \in 1 .. 1 |-> p[k]] /\ p[1].do = "known"
    BY <1>3 DEF Known
  <2> QED
    BY <2>1, FunctionList
<1>8. /\ IsList(e \o f) /\ Len(e \o f) = 1 + l /\ (e \o f)[1] = e[1]
      /\ \A k \in 1 .. l : (e \o f)[1 + k] = f[k]
  <2>1. /\ IsList(e \o f) /\ Len(e \o f) = Len(e) + Len(f)
        /\ \A i \in 1 .. Len(e) : (e \o f)[i] = e[i]
        /\ \A i \in 1 .. Len(f) : (e \o f)[Len(e) + i] = f[i]
    <3>1. IsList(e) /\ IsList(f)
      BY <1>4, <1>5
    <3> QED
      BY <3>1, ConcatList
  <2>2. 1 \in 1 .. Len(e)
    BY <1>4
  <2> QED
    BY <1>4, <1>5, <2>1, <2>2
<1>9. PICK h : h = e \o f
  OBVIOUS
<1>10. /\ IsList(h \o g) /\ Len(h \o g) = 1 + l + m /\ (h \o g)[1] = e[1]
       /\ \A k \in 1 .. l : (h \o g)[1 + k] = f[k]
       /\ \A k \in 1 .. m : (h \o g)[1 + l + k] = g[k]
  <2>1. /\ IsList(h \o g) /\ Len(h \o g) = Len(h) + Len(g)
        /\ \A i \in 1 .. Len(h) : (h \o g)[i] = h[i]
        /\ \A i \in 1 .. Len(g) : (h \o g)[Len(h) + i] = g[i]
    <3>1. IsList(h) /\ IsList(g)
      BY <1>6, <1>8, <1>9
    <3> QED
      BY <3>1, ConcatList
  <2>2. 1 \in 1 .. Len(h) /\ \A k \in 1 .. l : 1 + k \in 1 .. Len(h)
    BY <1>8, <1>9
  <2>3. (h \o g)[1] = e[1] /\ \A k \in 1 .. l : (h \o g)[1 + k] = f[k]
    BY <1>8, <1>9, <2>1, <2>2
  <2>4. \A k \in 1 .. m : (h \o g)[1 + l + k] = g[k]
    BY <1>6, <1>8, <1>9, <2>1
  <2> QED
    BY <1>6, <1>8, <1>9, <2>1, <2>3, <2>4
<1>11. PICK j : j = h \o g
  OBVIOUS
<1>12. /\ IsList(t) /\ Len(t) = 2 + l + m /\ t[1] = e[1]
       /\ \A k \in 1 .. l : t[1 + k] = f[k]
       /\ \A k \in 1 .. m : t[1 + l + k] = g[k]
       /\ t[2 + l + m] = p[1]
  <2>0. t = j \o p
    BY <1>3, <1>9, <1>11
  <2>1. /\ IsList(j \o p) /\ Len(j \o p) = Len(j) + Len(p)
        /\ \A i \in 1 .. Len(j) : (j \o p)[i] = j[i]
        /\ \A i \in 1 .. Len(p) : (j \o p)[Len(j) + i] = p[i]
    <3>1. IsList(j) /\ IsList(p)
      BY <1>7, <1>10, <1>11
    <3> QED
      BY <3>1, ConcatList
  <2>2. /\ 1 \in 1 .. Len(j) /\ \A k \in 1 .. l : 1 + k \in 1 .. Len(j)
        /\ \A k \in 1 .. m : 1 + l + k \in 1 .. Len(j)
        /\ 1 \in 1 .. Len(p) /\ Len(j) + 1 = 2 + l + m
    <3>1. 1 + l + m \in Nat /\ (1 + l + m) + 1 = 2 + l + m
      BY <1>a
    <3>2. 1 \in 1 .. 1 + l + m /\ (\A k \in 1 .. l : 1 + k \in 1 .. 1 + l + m)
          /\ (\A k \in 1 .. m : 1 + l + k \in 1 .. 1 + l + m)
      BY <1>a
    <3>3. Len(j) = 1 + l + m /\ Len(p) = 1 /\ 1 \in 1 .. 1
      BY <1>7, <1>10, <1>11
    <3> QED
      BY <3>1, <3>2, <3>3
  <2>3. t[1] = e[1] /\ \A k \in 1 .. l : t[1 + k] = f[k]
    BY <1>10, <1>11, <2>0, <2>1, <2>2
  <2>4. \A k \in 1 .. m : t[1 + l + k] = g[k]
    BY <1>10, <1>11, <2>0, <2>1, <2>2
  <2>5. t[2 + l + m] = p[1]
    BY <2>0, <2>1, <2>2
  <2>6. Len(t) = 2 + l + m
    BY <1>7, <2>0, <2>1, <2>2
  <2> QED
    BY <2>0, <2>1, <2>3, <2>4, <2>5, <2>6
<1>13. DOMAIN t = 1 .. 2 + l + m
  BY <1>12, ListFacts
<1>14. ASSUME NEW k \in DOMAIN t
       PROVE  \/ k = 1 /\ t[k].do = "enter" /\ t[k].name = n.names[1]
              \/ k \in 2 .. 1 + l /\ t[k].do = "local"
              \/ k \in 2 + l .. 1 + l + m /\ t[k].do = "codegen" /\ t[k].child = k - 1 - l
              \/ k = 2 + l + m /\ t[k].do = "known"
  <2>1. CASE k = 1
    BY <1>4, <1>12, <2>1
  <2>2. CASE k \in 2 .. 1 + l
    <3>1. k - 1 \in 1 .. l /\ 1 + (k - 1) = k
      BY <2>2
    <3> QED
      BY <1>5, <1>12, <2>2, <3>1
  <2>3. CASE k \in 2 + l .. 1 + l + m
    <3>1. k - 1 - l \in 1 .. m /\ 1 + l + (k - 1 - l) = k
      BY <2>3
    <3>2. t[k] = g[k - 1 - l]
      BY <1>12, <3>1
    <3> QED
      BY <1>6, <2>3, <3>1, <3>2
  <2>4. CASE k = 2 + l + m
    BY <1>7, <1>12, <2>4
  <2>5. k = 1 \/ k \in 2 .. 1 + l \/ k \in 2 + l .. 1 + l + m \/ k = 2 + l + m
    BY <1>13
  <2> QED
    BY <2>1, <2>2, <2>3, <2>4, <2>5
<1>15. Calm(t)
  BY <1>14 DEF Calm
<1>16. Laid(t, {}, {}, {}, {})
  BY <1>15, CalmLaid
<1>17. PICK dead : dead = {1, 2 + l + m, 3 + l + m}
  OBVIOUS
<1>b. ASSUME NEW k \in 1 .. 2 + l + m
      PROVE  /\ k = 1 => k \in dead /\ k + 1 \notin dead
             /\ k \in 2 .. 1 + l => k \notin dead /\ k + 1 \notin dead
             /\ k \in 2 + l .. 1 + l + m =>
                   k \notin dead /\ (k + 1 \in dead <=> k - 1 - l = m) /\ k - 1 - l \in 1 .. m
             /\ k = 2 + l + m => k \in dead /\ k + 1 \in dead
  <2>1. k \in Nat /\ k >= 1 /\ k <= 2 + l + m
    BY <1>a
  <2>2. k \in dead <=> (k = 1 \/ k = 2 + l + m \/ k = 3 + l + m)
    BY <1>17
  <2>3. k + 1 \in dead <=> (k + 1 = 1 \/ k + 1 = 2 + l + m \/ k + 1 = 3 + l + m)
    BY <1>17
  <2> QED
    BY <1>a, <2>1, <2>2, <2>3
<1>c. \A k \in DOMAIN t : k \in 1 .. 2 + l + m
  BY <1>13
<1>18. ASSUME NEW k \in DOMAIN t
       PROVE  /\ NeedsOpen(n, t[k]) => k \notin dead
              /\ Opens(t[k]) \/ OfFunction(n, t[k]) => k \in dead
              /\ Opens(t[k]) => k + 1 \notin dead
              /\ Ends(n, t[k]) => k + 1 \in dead
              /\ ~Opens(t[k]) /\ ~Ends(n, t[k]) => (k \in dead <=> k + 1 \in dead)
  <2>1. CASE k = 1 /\ t[k].do = "enter"
    <3>1. Opens(t[k]) /\ ~NeedsOpen(n, t[k]) /\ ~Ends(n, t[k]) /\ ~OfFunction(n, t[k])
      BY <2>1 DEF Opens, NeedsOpen, Ends, OfFunction, OfReturn
    <3>2. k \in dead /\ k + 1 \notin dead
      BY <1>b, <1>c, <2>1
    <3> QED
      BY <3>1, <3>2
  <2>2. CASE k \in 2 .. 1 + l /\ t[k].do = "local"
    <3>1. ~Opens(t[k]) /\ ~NeedsOpen(n, t[k]) /\ ~Ends(n, t[k]) /\ ~OfFunction(n, t[k])
      BY <2>2 DEF Opens, NeedsOpen, Ends, OfFunction, OfReturn
    <3>2. k \notin dead /\ k + 1 \notin dead
      BY <1>b, <1>c, <2>2
    <3> QED
      BY <3>1, <3>2
  <2>3. CASE k \in 2 + l .. 1 + l + m /\ t[k].do = "codegen" /\ t[k].child = k - 1 - l
    <3>1. k - 1 - l \in 1 .. Len(n.kids)
      BY <1>1, <1>b, <1>c, <2>3
    <3>2. /\ n.kids[t[k].child].cls # "ASTFunction"
          /\ n.kids[t[k].child].cls = "ASTReturnStmt" <=> k - 1 - l = m
      BY <1>1, <2>3, <3>1, OuterKids
    <3>3. ~Opens(t[k]) /\ ~OfFunction(n, t[k]) /\ (Ends(n, t[k]) <=> k - 1 - l = m)
      BY <2>3, <3>2 DEF Opens, Ends, OfFunction, OfReturn
    <3>4. k \notin dead /\ (k + 1 \in dead <=> k - 1 - l = m)
      BY <1>b, <1>c, <2>3
    <3> QED
      BY <3>3, <3>4
  <2>4. CASE k = 2 + l + m /\ t[k].do = "known"
    <3>1. ~Opens(t[k]) /\ ~NeedsOpen(n, t[k]) /\ ~Ends(n, t[k]) /\ ~OfFunction(n, t[k])
      BY <2>4 DEF Opens, NeedsOpen, Ends, OfFunction, OfReturn
    <3>2. k \in dead /\ k + 1 \in dead
      BY <1>b, <1>c, <2>4
    <3> QED
      BY <3>1, <3>2
  <2> QED
    BY <1>14, <2>1, <2>2, <2>3, <2>4
<1>19. Len(t) + 1 \in dead /\ n.cls \in EndedAfter
  BY <1>12, <1>17 DEF EndedAfter
<1>20. Flows(n, t, dead) /\ 1 \in dead
  BY <1>17, <1>18, <1>19 DEF Flows
<1>21. \A k \in DOMAIN t : t[k].do = "enter" => k = 1 /\ t[k].name = n.names[1]
  BY <1>14
<1>22. t = ASTFunction(n)
  BY <1>2, <1>3 DEF ASTFunction
<1> QED
  BY <1>15, <1>16, <1>20, <1>21, <1>22 DEF Starts

(* A frame starts with a list that is laid and flows.                        *)
LEMMA CodegenStarts == ASSUME NEW n \in Nodes, lValueGen \in BOOLEAN PROVE Starts(n, codegen(n))
<1>1. CASE n.cls \notin Branching \cup {"ASTFunction", "ASTReturnStmt", "ASTProgram"}
  <2>1. /\ Calm(codegen(n)) /\ Flows(n, codegen(n), {})
        /\ \A k \in DOMAIN codegen(n) : codegen(n)[k].do # "enter"
    BY <1>1, CalmCodegen
  <2> QED
    BY <1>1, <2>1, CalmLaid DEF Starts
<1>2. CASE n.cls = "ASTOfArrayExpr"
  BY <1>2, CodegenCases, OfArrayLoop, LoopStarts DEF Branching
<1>3. CASE n.cls = "ASTWhileStmt"
  BY <1>3, CodegenCases, WhileLoop, LoopStarts DEF Branching
<1>4. CASE n.cls = "ASTForIterStmt"
  BY <1>4, CodegenCases, ForIterLoop, LoopStarts DEF Branching
<1>5. CASE n.cls = "ASTForRangeStmt"
  BY <1>5, CodegenCases, ForRangeLoop, LoopStarts DEF Branching
<1>6. CASE n.cls = "ASTIfStmt"
  BY <1>6, CodegenCases, IfChoice, ChoiceStarts DEF Branching
<1>7. CASE n.cls = "ASTElementRefrenceOperatorExpr"
  <2>1. codegen(n) = ASTElementRefrenceOperatorExpr(lValueGen)
    BY <1>7, CodegenCases
  <2>2. PICK t : t = codegen(n)
    OBVIOUS
  <2>3. ChoiceAt(t, 8, 12, 18) \/ ChoiceAt(t, 9, 13, 19)
    BY <2>1, <2>2, ElementChoice
  <2>4. n.cls \in Branching
    BY <1>7 DEF Branching
  <2> QED
    BY <2>2, <2>3, <2>4, ChoiceStarts
<1>8. CASE n.cls = "ASTReturnStmt"
  BY <1>8, CodegenCases, ReturnStarts
<1>9. CASE n.cls = "ASTFunction"
  BY <1>9, CodegenCases, FunctionStarts
<1>10. CASE n.cls = "ASTProgram"
  BY <1>10, CodegenCases, ProgramStarts
<1> QED
  BY <1>1, <1>2, <1>3, <1>4, <1>5, <1>6, <1>7, <1>8, <1>9, <1>10 DEF Branching

-----------------------------------------------------------------------------
(* What is left of the steps of a stack, and of the blocks they name.        *)
LEMMA OwnApart ==
    ASSUME NEW f, NEW l, NEW x, NEW g, NEW k, NEW y
    PROVE  /\ OwnBlock(f, l, x) = OwnBlock(g, k, y) => f = g /\ l = k /\ x = y
           /\ OwnBlock(f, l, x).fn = f /\ OwnBlock(f, l, x).label = l /\ OwnBlock(f, l, x).name = x
<1>1. PICK a, b : a = OwnBlock(f, l, x) /\ b = OwnBlock(g, k, y)
  OBVIOUS
<1>2. /\ a.fn = f /\ a.label = l /\ a.name = x
      /\ b.fn = g /\ b.label = k /\ b.name = y
  BY <1>1 DEF OwnBlock
<1> QED
  BY <1>1, <1>2

LEMMA OnwardSteps ==
    ASSUME NEW c, NEW c2, NEW m, NEW s, NEW b, NEW l, Frames(c), Onward(c, c2, m, s, b, l)
    PROVE  /\ m \in DOMAIN c /\ m \in DOMAIN c2 /\ m \in Nat /\ IsList(c[m].todo) /\ 1 \in DOMAIN c[m].todo
           /\ c2 # << >> /\ c # << >> /\ DOMAIN c2 = 1 .. m /\ c[m].node \in Nodes
           /\ \A i \in DOMAIN c2 : i \in Nat /\ i \in DOMAIN c /\ IsList(c2[i].todo) /\ c2[i].node = c[i].node
                                   /\ (i # m => c2[i] = c[i])
           /\ \A i \in DOMAIN c2 : \A k \in DOMAIN c2[i].todo :
                 \E k2 \in DOMAIN c[i].todo : /\ c2[i].todo[k] = c[i].todo[k2] /\ k \in Nat
                                              /\ (i = m => k2 = k + 1) /\ (i # m => k2 = k)
           /\ \A i \in DOMAIN c : \A k \in DOMAIN c[i].todo :
                 \/ i = m /\ k = 1
                 \/ i \in DOMAIN c2 /\ \E k2 \in DOMAIN c2[i].todo : c2[i].todo[k2] = c[i].todo[k]
<1>1. /\ m \in Nat /\ m >= 1 /\ IsList(c2) /\ DOMAIN c2 = 1 .. m
      /\ Len(c) = m \/ (Len(c) = m + 1 /\ c[m + 1].todo = << >>)
      /\ c[m].todo # << >> /\ c2[m].todo = Tail(c[m].todo) /\ c2[m].node = c[m].node
  BY DEF Onward
<1>2. \A i \in 1 .. m - 1 : c2[i] = c[i]
  BY DEF Onward
<1>3. /\ IsList(c) /\ \A i \in DOMAIN c : c[i].node \in Nodes /\ IsList(c[i].todo)
  BY DEF Frames
<1>4. DOMAIN c = 1 .. m \/ (DOMAIN c = 1 .. m + 1 /\ c[m + 1].todo = << >>)
  <2>1. DOMAIN c = 1 .. Len(c)
    BY <1>3, ListFacts
  <2> QED
    BY <1>1, <2>1
<1>a. m \in Nat /\ m >= 1 /\ DOMAIN c2 = 1 .. m
  BY <1>1
<1>b. ASSUME NEW i \in 1 .. m PROVE i \in Nat /\ i \in DOMAIN c
  <2>1. i \in Nat /\ i \in 1 .. m + 1
    BY <1>a
  <2> QED
    BY <1>4, <2>1
<1>c. ASSUME NEW i \in DOMAIN c, i \notin 1 .. m PROVE c[i].todo = << >>
  <2>1. ASSUME DOMAIN c = 1 .. m + 1 PROVE i = m + 1
    BY <1>a, <1>c, <2>1
  <2> QED
    BY <1>4, <1>c, <2>1
<1>5. m \in DOMAIN c /\ m \in DOMAIN c2 /\ c # << >> /\ c2 # << >>
  <2>1. m \in 1 .. m
    BY <1>a
  <2>2. m \in DOMAIN c /\ m \in DOMAIN c2
    BY <1>a, <1>b, <2>1
  <2>3. ASSUME NEW q, m \in DOMAIN q PROVE q # << >>
    BY <2>3
  <2> QED
    BY <2>2, <2>3
<1>6. PICK t, u : t = c[m].todo /\ u = c2[m].todo
  OBVIOUS
<1>7. /\ IsList(t) /\ t # << >> /\ u = Tail(t) /\ IsList(u) /\ 1 \in DOMAIN t
      /\ DOMAIN t = 1 .. Len(t) /\ Len(t) \in Nat /\ DOMAIN u = 1 .. Len(u) /\ Len(u) = Len(t) - 1
      /\ \A k \in DOMAIN u : k + 1 \in DOMAIN t /\ u[k] = t[k + 1]
  BY <1>1, <1>3, <1>5, <1>6, TailList, ListFacts
<1>8. ASSUME NEW i \in DOMAIN c2
      PROVE  /\ i \in Nat /\ i \in DOMAIN c /\ IsList(c2[i].todo) /\ c2[i].node = c[i].node
             /\ (i # m => c2[i] = c[i])
  <2>1. i \in Nat /\ i \in DOMAIN c
    BY <1>a, <1>b
  <2>2. CASE i = m
    BY <1>1, <1>6, <1>7, <2>1, <2>2
  <2>3. CASE i # m
    <3>1. i \in 1 .. m - 1
      BY <1>1, <2>3
    <3> QED
      BY <1>2, <1>3, <2>1, <3>1
  <2> QED
    BY <2>2, <2>3
<1>9. ASSUME NEW i \in DOMAIN c2, NEW k \in DOMAIN c2[i].todo
      PROVE  \E k2 \in DOMAIN c[i].todo : /\ c2[i].todo[k] = c[i].todo[k2] /\ k \in Nat
                                          /\ (i = m => k2 = k + 1) /\ (i # m => k2 = k)
  <2>1. k \in Nat
    BY <1>8, ListFacts
  <2>2. CASE i = m
    BY <1>6, <1>7, <2>1, <2>2
  <2>3. CASE i # m
    BY <1>8, <2>1, <2>3
  <2> QED
    BY <2>2, <2>3
<1>10. ASSUME NEW i \in DOMAIN c, NEW k \in DOMAIN c[i].todo, ~(i = m /\ k = 1)
       PROVE  i \in DOMAIN c2 /\ \E k2 \in DOMAIN c2[i].todo : c2[i].todo[k2] = c[i].todo[k]
  <2>1. CASE i = m
    <3>1. k - 1 \in DOMAIN u /\ (k - 1) + 1 = k
      BY <1>6, <1>7, <1>10, <2>1
    <3>2. u[k - 1] = t[k]
      BY <1>7, <3>1
    <3> QED
      BY <1>5, <1>6, <2>1, <3>1, <3>2
  <2>2. CASE i # m
    <3>1. i \in DOMAIN c2
      <4>1. ASSUME i \notin 1 .. m PROVE FALSE
        <5>1. c[i].todo = << >>
          BY <1>c, <4>1
        <5>2. k \in DOMAIN << >>
          BY <5>1
        <5> QED
          BY <5>2
      <4> QED
        BY <1>a, <4>1
    <3> QED
      BY <1>8, <2>2, <3>1
  <2> QED
    BY <2>1, <2>2
<1> QED
  BY <1>1, <1>3, <1>5, <1>6, <1>7, <1>8, <1>9, <1>10

(* A step that neither labels a frame nor enters or places a block leaves     *)
(* what is to enter and to place; those that do take theirs away.            *)
LEMMA OnwardPending ==
    ASSUME NEW c, NEW c2, NEW m, NEW s, NEW l, Frames(c), Onward(c, c2, m, s, l, l), NEW fn, NEW b
    PROVE  /\ Pending(c2, fn, b) => Pending(c, fn, b)
           /\ Unplaced(c2, fn, b) => Unplaced(c, fn, b)
           /\ Pending(c, fn, b) =>
                 \/ Pending(c2, fn, b)
                 \/ s.do = "at" /\ b = OwnBlock(fn, l, s.block)
           /\ Unplaced(c, fn, b) =>
                 \/ Unplaced(c2, fn, b)
                 \/ s.do = "place" /\ b = OwnBlock(fn, l, s.block)
<1>1. s = c[m].todo[1] /\ l = c[m].label
  BY DEF Onward
<1>2. Onward(c, c2, m, s, l, l)
  OBVIOUS
<1>3. /\ \A i \in DOMAIN c2 : i \in DOMAIN c /\ (i # m => c2[i] = c[i])
      /\ \A i \in DOMAIN c2 : \A k \in DOMAIN c2[i].todo :
            \E k2 \in DOMAIN c[i].todo : c2[i].todo[k] = c[i].todo[k2]
      /\ \A i \in DOMAIN c : \A k \in DOMAIN c[i].todo :
            \/ i = m /\ k = 1
            \/ i \in DOMAIN c2 /\ \E k2 \in DOMAIN c2[i].todo : c2[i].todo[k2] = c[i].todo[k]
  BY <1>2, OnwardSteps
<1>4. \A i \in DOMAIN c2 : c2[i].label = c[i].label
  BY <1>1, <1>2, <1>3 DEF Onward
<1>5. ASSUME NEW i \in DOMAIN c2, ToEnter(fn, c2[i], b) PROVE ToEnter(fn, c[i], b)
  BY <1>3, <1>4, <1>5 DEF ToEnter
<1>6. ASSUME NEW i \in DOMAIN c2, ToPlace(fn, c2[i], b) PROVE ToPlace(fn, c[i], b)
  BY <1>3, <1>4, <1>6 DEF ToPlace
<1>7. ASSUME NEW i \in DOMAIN c, ToEnter(fn, c[i], b),
             ~(s.do = "at" /\ b = OwnBlock(fn, l, s.block))
      PROVE  i \in DOMAIN c2 /\ ToEnter(fn, c2[i], b)
  BY <1>1, <1>3, <1>4, <1>7 DEF ToEnter
<1>8. ASSUME NEW i \in DOMAIN c, ToPlace(fn, c[i], b),
             ~(s.do = "place" /\ b = OwnBlock(fn, l, s.block))
      PROVE  i \in DOMAIN c2 /\ ToPlace(fn, c2[i], b)
  BY <1>1, <1>3, <1>4, <1>8 DEF ToPlace
<1> QED
  BY <1>3, <1>5, <1>6, <1>7, <1>8 DEF Pending, Unplaced

(* The frames of a stack stay laid while the blocks grow.                    *)
Grows(bl, bl2) ==
    /\ DOMAIN bl \subseteq DOMAIN bl2
    /\ \A b \in DOMAIN bl : /\ bl[b].next \subseteq DOMAIN bl /\ bl[b].next \subseteq bl2[b].next
                            /\ bl[b].placed => bl2[b].placed

LEMMA GrowsClosed ==
    ASSUME NEW bl, NEW bl2, Grows(bl, bl2), NEW S, ClosedIn(bl2, S)
    PROVE  ClosedIn(bl, S \cap DOMAIN bl) /\ S \cap DOMAIN bl \in SUBSET DOMAIN bl
<1>1. ASSUME NEW b \in S \cap DOMAIN bl PROVE bl[b].next \subseteq S \cap DOMAIN bl
  <2>1. bl[b].next \subseteq DOMAIN bl /\ bl[b].next \subseteq bl2[b].next
    BY DEF Grows
  <2>2. bl2[b].next \subseteq S
    BY DEF ClosedIn
  <2> QED
    BY <2>1, <2>2
<1> QED
  BY <1>1 DEF ClosedIn

LEMMA GrowsLeads ==
    ASSUME NEW bl, NEW bl2, Grows(bl, bl2), NEW a, NEW b, a \in DOMAIN bl, LeadsTo(bl, a, b)
    PROVE  LeadsTo(bl2, a, b)
<1>1. ASSUME NEW S \in SUBSET DOMAIN bl2, ClosedIn(bl2, S), a \in S PROVE b \in S
  <2>1. ClosedIn(bl, S \cap DOMAIN bl) /\ S \cap DOMAIN bl \in SUBSET DOMAIN bl
    BY <1>1, GrowsClosed
  <2> QED
    BY <1>1, <2>1 DEF LeadsTo
<1> QED
  BY <1>1 DEF LeadsTo

LEMMA GrowsNames ==
    ASSUME NEW bl, NEW bl2, Grows(bl, bl2), NEW ia, NEW ln, BlocksTyped(bl, ia, ln), NEW fn, NEW l
    PROVE  /\ MadeOf(bl, fn, l) \subseteq MadeOf(bl2, fn, l)
           /\ PlacedOf(bl, fn, l) \subseteq PlacedOf(bl2, fn, l)
           /\ LinkedOf(bl, fn, l) \subseteq LinkedOf(bl2, fn, l)
           /\ TiedOf(bl, fn, l) \subseteq TiedOf(bl2, fn, l)
<1>1. \A x \in MadeOf(bl, fn, l) : x \in MadeOf(bl2, fn, l)
  BY DEF MadeOf, Grows
<1>2. \A x \in PlacedOf(bl, fn, l) : x \in PlacedOf(bl2, fn, l)
  BY <1>1 DEF PlacedOf, MadeOf, Grows
<1>3. ASSUME NEW x \in LinkedOf(bl, fn, l) PROVE x \in LinkedOf(bl2, fn, l)
  <2>1. x \in MadeOf(bl, fn, l) /\ LeadsTo(bl, OwnBlock(fn, 0, "entry"), OwnBlock(fn, l, x))
    BY DEF LinkedOf
  <2>2. OwnBlock(fn, l, x) \in DOMAIN bl /\ OwnBlock(fn, l, x).fn = fn
    BY <2>1, OwnApart DEF MadeOf
  <2>3. OwnBlock(fn, 0, "entry") \in DOMAIN bl
    BY <2>2 DEF BlocksTyped
  <2> QED
    BY <1>1, <2>1, <2>3, GrowsLeads DEF LinkedOf
<1>4. ASSUME NEW x \in TiedOf(bl, fn, l) PROVE x \in TiedOf(bl2, fn, l)
  <2>1. /\ x \in MadeOf(bl, fn, l) /\ "header" \in MadeOf(bl, fn, l)
        /\ LeadsTo(bl, OwnBlock(fn, l, "header"), OwnBlock(fn, l, x))
    BY DEF TiedOf
  <2>2. OwnBlock(fn, l, "header") \in DOMAIN bl
    BY <2>1 DEF MadeOf
  <2> QED
    BY <1>1, <2>1, <2>2, GrowsLeads DEF TiedOf
<1> QED
  BY <1>1, <1>2, <1>3, <1>4

LEMMA GrowsLaid ==
    ASSUME NEW bl, NEW bl2, Grows(bl, bl2), NEW ia, NEW ln, BlocksTyped(bl, ia, ln), NEW fn, NEW f,
           FrameLaid(bl, fn, f)
    PROVE  FrameLaid(bl2, fn, f)
<1>1. PICK l, t : l = f.label /\ t = f.todo
  OBVIOUS
<1>2. /\ MadeOf(bl, fn, l) \subseteq MadeOf(bl2, fn, l)
      /\ PlacedOf(bl, fn, l) \subseteq PlacedOf(bl2, fn, l)
      /\ LinkedOf(bl, fn, l) \subseteq LinkedOf(bl2, fn, l)
      /\ TiedOf(bl, fn, l) \subseteq TiedOf(bl2, fn, l)
  BY GrowsNames
<1>3. Laid(t, MadeOf(bl, fn, l), PlacedOf(bl, fn, l), LinkedOf(bl, fn, l), TiedOf(bl, fn, l))
  BY <1>1 DEF FrameLaid
<1>4. Laid(t, MadeOf(bl2, fn, l), PlacedOf(bl2, fn, l), LinkedOf(bl2, fn, l), TiedOf(bl2, fn, l))
  BY <1>2, <1>3, MoreLaid
<1> QED
  BY <1>1, <1>4 DEF FrameLaid

-----------------------------------------------------------------------------
(* The current block is open where the next step needs it to be.             *)
LEMMA OnwardNeeds ==
    ASSUME NEW c, NEW c2, NEW m, NEW s, NEW b, NEW l, Frames(c), Onward(c, c2, m, s, b, l),
           NEW bl, NEW ia, FramesFlow(c, bl, ia), s.do # "codegen"
    PROVE  /\ NeedsOpen(c[m].node, s) => Live(bl, ia)
           /\ Opens(s) => ~Live(bl, ia)
<1>1. m \in DOMAIN c /\ m \in Nat /\ IsList(c[m].todo)
  BY OnwardSteps
<1>2. PICK n, t : n = c[m].node /\ t = c[m].todo /\ s = t[1]
  BY DEF Onward
<1>3. m = Len(c) /\ t # << >>
  <2>1. /\ m >= 1 /\ t # << >>
        /\ Len(c) = m \/ Len(c) = m + 1
    BY <1>2 DEF Onward
  <2>2. m \notin 1 .. Len(c) - 1
    BY <1>2 DEF Frames
  <2> QED
    BY <1>1, <2>1, <2>2
<1>4. PICK dead : Flows(n, t, dead) /\ (1 \in dead <=> ~Live(bl, ia))
  BY <1>1, <1>2, <1>3 DEF FramesFlow
<1>5. (NeedsOpen(n, s) => 1 \notin dead) /\ (Opens(s) => 1 \in dead)
  BY <1>1, <1>2, <1>3, <1>4, TailFlows
<1> QED
  BY <1>2, <1>4, <1>5

LEMMA OnwardFlow ==
    ASSUME NEW c, NEW c2, NEW m, NEW s, NEW b, NEW l, Frames(c), Onward(c, c2, m, s, b, l),
           NEW bl, NEW ia, NEW bl2, NEW ia2, FramesFlow(c, bl, ia), FunctionsApart(c, bl),
           Opens(s) => Live(bl2, ia2),
           s.do = "terminate" => ~Live(bl2, ia2),
           ~Opens(s) /\ s.do # "terminate" => (Live(bl2, ia2) <=> Live(bl, ia))
    PROVE  FramesFlow(c2, bl2, ia2)
<1>1. /\ m \in DOMAIN c /\ m \in DOMAIN c2 /\ m \in Nat /\ IsList(c[m].todo) /\ 1 \in DOMAIN c[m].todo
      /\ c2 # << >> /\ \A i \in DOMAIN c2 : i \in Nat /\ i \in DOMAIN c /\ (i # m => c2[i] = c[i])
  BY OnwardSteps
<1>2. PICK n, t : n = c[m].node /\ t = c[m].todo /\ s = t[1]
  BY DEF Onward
<1>3. PICK dead : Flows(n, t, dead) /\ (m = Len(c) => (1 \in dead <=> ~Live(bl, ia)))
  BY <1>1, <1>2 DEF FramesFlow
<1>4. /\ t # << >> /\ c2[m].todo = Tail(t) /\ c2[m].node = n /\ Len(c2) = m /\ m >= 1
      /\ (Len(c) = m /\ s.do # "codegen") \/ (Len(c) = m + 1 /\ c[m + 1].todo = << >>)
  BY <1>2 DEF Onward
<1>5. /\ \E dead2 : Flows(n, Tail(t), dead2) /\ (1 \in dead2 <=> 2 \in dead)
      /\ NeedsOpen(n, s) => 1 \notin dead
      /\ Opens(s) \/ OfFunction(n, s) => 1 \in dead
      /\ Opens(s) => 2 \notin dead
      /\ Ends(n, s) => 2 \in dead
      /\ ~Opens(s) /\ ~Ends(n, s) => (1 \in dead <=> 2 \in dead)
  BY <1>1, <1>2, <1>3, <1>4, TailFlows
<1>6. PICK dead2 : Flows(n, Tail(t), dead2) /\ (1 \in dead2 <=> 2 \in dead)
  BY <1>5
<1>7. ASSUME Len(c) = m, s.do # "codegen" PROVE 2 \in dead <=> ~Live(bl2, ia2)
  <2>1. 1 \in dead <=> ~Live(bl, ia)
    BY <1>3, <1>7
  <2>2. Ends(n, s) <=> s.do = "terminate"
    BY <1>7 DEF Ends, OfFunction, OfReturn
  <2>3. 2 \in dead <=> ~Live(bl2, ia2)
    BY <1>2, <1>5, <2>1, <2>2
  <2> QED
    BY <1>2, <1>5, <1>6, <2>1, <2>3
<1>8. ASSUME Len(c) = m + 1, c[m + 1].todo = << >> PROVE 2 \in dead <=> ~Live(bl2, ia2)
  <2>1. /\ m + 1 \in DOMAIN c /\ m + 1 # 1 /\ m \in 1 .. Len(c) - 1
    <3>1. DOMAIN c = 1 .. m + 1
      BY <1>8, ListFacts DEF Frames
    <3> QED
      BY <1>1, <1>4, <1>8, <3>1
  <2>2. s.do = "codegen" /\ c[m + 1].node = n.kids[s.child]
    BY <1>2, <2>1 DEF Frames
  <2>3. PICK e : e = n.kids[s.child].cls
    OBVIOUS
  <2>4. e # "ASTProgram"
    BY <2>1, <2>2, <2>3 DEF FunctionsApart
  <2>5. PICK d : Flows(c[m + 1].node, c[m + 1].todo, d) /\ (1 \in d <=> ~Live(bl, ia))
    BY <1>8, <2>1 DEF FramesFlow
  <2>6. 1 \in d <=> e \in EndedAfter
    <3>1. Len(<< >>) + 1 = 1
      OBVIOUS
    <3> QED
      BY <1>8, <2>2, <2>3, <2>5, <3>1 DEF Flows
  <2>7. ~Live(bl, ia) <=> e \in {"ASTFunction", "ASTReturnStmt"}
    BY <2>4, <2>5, <2>6 DEF EndedAfter
  <2>8. /\ ~Opens(s) /\ (Ends(n, s) <=> e \in {"ASTFunction", "ASTReturnStmt"})
        /\ e # "ASTFunction" => NeedsOpen(n, s)
    BY <2>2, <2>3 DEF Opens, Ends, NeedsOpen, OfFunction, OfReturn
  <2>9. 2 \in dead <=> ~Live(bl, ia)
    BY <1>5, <2>7, <2>8
  <2>10. Live(bl2, ia2) <=> Live(bl, ia)
    BY <1>2, <2>2, <2>8
  <2> QED
    BY <1>2, <1>6, <2>2, <2>8, <2>9, <2>10
<1>9. 2 \in dead <=> ~Live(bl2, ia2)
  BY <1>4, <1>7, <1>8
<1>10. ASSUME NEW i \in DOMAIN c2
       PROVE  \E d : Flows(c2[i].node, c2[i].todo, d) /\ (i = Len(c2) => (1 \in d <=> ~Live(bl2, ia2)))
  <2>1. CASE i = m
    BY <1>4, <1>6, <1>9, <2>1
  <2>2. CASE i # m
    BY <1>1, <1>4, <2>2 DEF FramesFlow
  <2> QED
    BY <2>1, <2>2
<1> QED
  BY <1>1, <1>2, <1>9, <1>10 DEF FramesFlow

LEMMA NotYet ==
    ASSUME NEW bl, NEW ia, NEW ln, BlocksTyped(bl, ia, ln), NEW fn, NEW x \in Labels
    PROVE  OwnBlock(fn, 0, x) \notin DOMAIN bl
<1>1. OwnBlock(fn, 0, x).label = 0 /\ OwnBlock(fn, 0, x).name = x
  BY OwnApart
<1>2. x # "entry"
  BY DEF Labels
<1> QED
  BY <1>1, <1>2 DEF BlocksTyped

(* The blocks that a frame names.                                            *)
LEMMA LaidStep ==
    ASSUME NEW bl, NEW fn, NEW f, FrameLaid(bl, fn, f), NEW k \in DOMAIN f.todo, NEW x,
           IsAt(f.todo[k], x) \/ IsPlace(f.todo[k], x) \/ BranchesTo(f.todo[k], x)
    PROVE  /\ x \in Labels
           /\ k = 1 => OwnBlock(fn, f.label, x) \in DOMAIN bl
<1>1. LaidNames(f.todo, MadeOf(bl, fn, f.label))
  BY DEF FrameLaid, Laid
<1>2. x \in Labels /\ (x \in MadeOf(bl, fn, f.label) \/ \E j \in 1 .. k - 1 : Creates(f.todo[j], x))
  BY <1>1 DEF LaidNames
<1>3. k = 1 => x \in MadeOf(bl, fn, f.label)
  <2>1. ASSUME k = 1, NEW j \in 1 .. k - 1 PROVE FALSE
    BY <2>1
  <2> QED
    BY <1>2, <2>1
<1> QED
  BY <1>2, <1>3 DEF MadeOf

LEMMA LaidHeader ==
    ASSUME NEW bl, NEW fn, NEW f, FrameLaid(bl, fn, f), IsList(f.todo), InHeader(f.todo)
    PROVE  "header" \in MadeOf(bl, fn, f.label) /\ OwnBlock(fn, f.label, "header") \in DOMAIN bl
<1>1. LaidLoops(f.todo, MadeOf(bl, fn, f.label))
  BY DEF FrameLaid, Laid
<1>2. "header" \in MadeOf(bl, fn, f.label)
  BY <1>1, InHeaderMade
<1> QED
  BY <1>2 DEF MadeOf

LEMMA OnwardLeads ==
    ASSUME NEW c, NEW c2, NEW m, NEW s, NEW b, NEW l, Frames(c), Onward(c, c2, m, s, b, l),
           NEW bl, NEW ia, NEW bl2, NEW ia2, NEW ln, Grows(bl, bl2), BlocksTyped(bl, ia, ln),
           FramesLaid(c, bl, ia), HeadersLead(c, bl, ia), ia2.fn = ia.fn,
           s.do # "blocks" => l = b,
           s.do = "blocks" => b = 0,
           s.do # "at" => ia2 = ia,
           s.do = "at" => ia2 = OwnBlock(ia.fn, b, s.block),
           s.do = "terminate" =>
              \A x \in s.to : ia \in DOMAIN bl2 /\ OwnBlock(ia.fn, b, x) \in bl2[ia].next
    PROVE  HeadersLead(c2, bl2, ia2)
<1>1. /\ m \in DOMAIN c /\ m \in DOMAIN c2 /\ m \in Nat /\ IsList(c[m].todo) /\ 1 \in DOMAIN c[m].todo
      /\ DOMAIN c2 = 1 .. m
      /\ \A i \in DOMAIN c2 : i \in Nat /\ i \in DOMAIN c /\ IsList(c2[i].todo) /\ (i # m => c2[i] = c[i])
      /\ \A i \in DOMAIN c2 : \A k \in DOMAIN c2[i].todo :
            \E k2 \in DOMAIN c[i].todo : /\ c2[i].todo[k] = c[i].todo[k2] /\ k \in Nat
                                         /\ (i = m => k2 = k + 1) /\ (i # m => k2 = k)
  BY OnwardSteps
<1>2. PICK t, fn : t = c[m].todo /\ s = t[1] /\ fn = ia.fn /\ b = c[m].label
  BY DEF Onward
<1>3. t # << >> /\ c2[m].todo = Tail(t) /\ c2[m].label = l
  BY <1>2 DEF Onward
<1>4. \A i \in DOMAIN c : FrameLaid(bl, fn, c[i])
  BY <1>2 DEF FramesLaid
<1>5. SUFFICES ASSUME NEW i \in DOMAIN c2, InHeader(c2[i].todo), NEW S \in SUBSET DOMAIN bl2, ClosedIn(bl2, S),
                      OwnBlock(fn, c2[i].label, "header") \in S
               PROVE  LeadsOn(c2, ia2, S, i)
  BY <1>2 DEF HeadersLead
<1>6. PICK S0 : S0 = S \cap DOMAIN bl /\ ClosedIn(bl, S0) /\ S0 \in SUBSET DOMAIN bl
  BY <1>5, GrowsClosed
<1>7. \/ LeadsOn(c, ia, S0, i) /\ i \in DOMAIN c /\ (i = m => s.do # "at")
      \/ i = m /\ ia2 \in S
  <2>1. ASSUME InHeader(c[i].todo), c2[i].label = c[i].label PROVE LeadsOn(c, ia, S0, i)
    <3>1. IsList(c[i].todo) /\ i \in DOMAIN c
      BY <1>1 DEF Frames
    <3>2. OwnBlock(fn, c[i].label, "header") \in DOMAIN bl
      BY <1>4, <2>1, <3>1, LaidHeader
    <3>3. OwnBlock(fn, c[i].label, "header") \in S0
      BY <1>5, <1>6, <2>1, <3>2
    <3> QED
      BY <1>2, <1>6, <2>1, <3>1, <3>3 DEF HeadersLead
  <2>2. CASE i # m
    BY <1>1, <1>5, <2>1, <2>2
  <2>3. CASE i = m
    <3>1. LaidLoops(t, MadeOf(bl, fn, b)) /\ IsList(t)
      BY <1>1, <1>2, <1>4 DEF FrameLaid, Laid
    <3>2. \/ s.do # "at" /\ InHeader(t) /\ (s.do # "blocks" \/ "header" \in MadeOf(bl, fn, b))
          \/ IsAt(s, "header")
      BY <1>2, <1>3, <1>5, <2>3, <3>1, TailInHeader
    <3>3. CASE IsAt(s, "header")
      <4>1. ia2 = OwnBlock(fn, b, "header") /\ l = b
        BY <1>2, <3>3 DEF IsAt
      <4> QED
        BY <1>2, <1>3, <1>5, <2>3, <4>1
    <3>4. CASE s.do # "at" /\ InHeader(t) /\ (s.do # "blocks" \/ "header" \in MadeOf(bl, fn, b))
      <4>1. s.do # "blocks"
        <5>1. "header" \in Labels
          BY DEF Labels
        <5>2. s.do = "blocks" => "header" \notin MadeOf(bl, fn, b)
          BY <1>2, <5>1, NotYet DEF MadeOf
        <5> QED
          BY <3>4, <5>2
      <4>2. l = b
        BY <1>2, <4>1
      <4> QED
        BY <1>1, <1>2, <1>3, <2>1, <2>3, <3>4, <4>2
    <3> QED
      BY <3>2, <3>3, <3>4
  <2> QED
    BY <2>2, <2>3
<1>8. ASSUME LeadsOn(c, ia, S0, i), i \in DOMAIN c, i # m
      PROVE  \A k \in DOMAIN t : t[k].do = "at" =>
                \/ OwnBlock(fn, b, t[k].block) \in S0
                \/ \E q \in 1 .. k - 1 : BranchesTo(t[q], t[k].block)
  <2>1. m > i
    BY <1>1, <1>8
  <2> QED
    BY <1>1, <1>2, <1>8, <2>1 DEF LeadsOn
<1>9. ia2 \in S
  <2>1. CASE i = m /\ ia2 \in S
    BY <2>1
  <2>2. CASE LeadsOn(c, ia, S0, i) /\ s.do # "at"
    BY <1>2, <1>6, <2>2 DEF LeadsOn
  <2>3. CASE LeadsOn(c, ia, S0, i) /\ i \in DOMAIN c /\ i # m /\ s.do = "at"
    <3>1. \/ OwnBlock(fn, b, s.block) \in S0
          \/ \E q \in 1 .. 1 - 1 : BranchesTo(t[q], t[1].block)
      BY <1>1, <1>2, <1>8, <2>3
    <3>2. OwnBlock(fn, b, s.block) \in S0
      BY <3>1
    <3> QED
      BY <1>2, <1>6, <2>3, <3>2
  <2> QED
    BY <1>7, <2>1, <2>2, <2>3
<1>10. ASSUME NEW j \in DOMAIN c2, j > i, NEW k \in DOMAIN c2[j].todo, c2[j].todo[k].do = "at"
       PROVE  \/ OwnBlock(fn, c2[j].label, c2[j].todo[k].block) \in S
              \/ \E q \in 1 .. k - 1 : BranchesTo(c2[j].todo[q], c2[j].todo[k].block)
  <2>1. i # m /\ LeadsOn(c, ia, S0, i) /\ i \in DOMAIN c
    BY <1>1, <1>7, <1>10
  <2>2. CASE j # m
    <3>1. j \in DOMAIN c /\ c2[j] = c[j]
      BY <1>1, <2>2
    <3>2. \/ OwnBlock(fn, c[j].label, c[j].todo[k].block) \in S0
          \/ \E q \in 1 .. k - 1 : BranchesTo(c[j].todo[q], c[j].todo[k].block)
      BY <1>2, <1>10, <2>1, <3>1 DEF LeadsOn
    <3> QED
      BY <1>6, <3>1, <3>2
  <2>3. CASE j = m
    <3>1. PICK u : u = c2[m].todo
      OBVIOUS
    <3>2. k + 1 \in DOMAIN t /\ u[k] = t[k + 1] /\ k \in Nat /\ k \in DOMAIN u
      BY <1>1, <1>2, <1>10, <2>3, <3>1
    <3>3. \/ OwnBlock(fn, b, u[k].block) \in S0
          \/ \E q \in 1 .. (k + 1) - 1 : BranchesTo(t[q], u[k].block)
      BY <1>8, <1>10, <2>1, <2>3, <3>1, <3>2
    <3>4. CASE OwnBlock(fn, b, u[k].block) \in S0
      <4>1. IsAt(t[k + 1], u[k].block)
        BY <1>10, <2>3, <3>1, <3>2 DEF IsAt
      <4>2. u[k].block \in Labels
        BY <1>1, <1>2, <1>4, <3>2, <4>1, LaidStep
      <4>3. s.do # "blocks"
        BY <1>2, <1>6, <3>4, <4>2, NotYet
      <4>4. l = b
        BY <1>2, <4>3
      <4> QED
        BY <1>3, <1>6, <2>3, <3>1, <3>4, <4>4
    <3>5. ASSUME NEW q \in 1 .. (k + 1) - 1, BranchesTo(t[q], u[k].block)
          PROVE  \/ OwnBlock(fn, l, u[k].block) \in S
                 \/ \E p \in 1 .. k - 1 : BranchesTo(u[p], u[k].block)
      <4>1. CASE q = 1
        <5>1. s.do = "terminate" /\ u[k].block \in s.to
          BY <1>2, <3>5, <4>1 DEF BranchesTo
        <5>2. l = b /\ ia2 = ia /\ ia \in DOMAIN bl2 /\ OwnBlock(fn, b, u[k].block) \in bl2[ia].next
          BY <1>2, <5>1
        <5> QED
          BY <1>5, <1>9, <5>2 DEF ClosedIn
      <4>2. CASE q # 1
        <5>1. /\ IsList(t) /\ DOMAIN u = 1 .. Len(u) /\ Len(u) \in Nat
              /\ \A i2 \in DOMAIN u : u[i2] = t[i2 + 1]
          BY <1>1, <1>2, <1>3, <3>1, TailList, ListFacts
        <5>2. PICK h \in Nat : h = Len(u) /\ k \in 1 .. h
          BY <3>2, <5>1
        <5>3. q - 1 \in 1 .. k - 1 /\ q - 1 \in 1 .. h /\ (q - 1) + 1 = q
          BY <3>2, <4>2, <5>2
        <5>4. u[q - 1] = t[q]
          BY <5>1, <5>2, <5>3
        <5> QED
          BY <3>5, <5>3, <5>4
      <4> QED
        BY <4>1, <4>2
    <3> QED
      BY <1>3, <2>3, <3>1, <3>3, <3>4, <3>5
  <2> QED
    BY <2>2, <2>3
<1> QED
  BY <1>2, <1>9, <1>10 DEF LeadsOn

LEMMA OnwardLaid ==
    ASSUME NEW c, NEW c2, NEW m, NEW s, NEW b, NEW l, Frames(c), Onward(c, c2, m, s, b, l),
           NEW bl, NEW ia, NEW bl2, NEW ia2, NEW ln, Grows(bl, bl2), BlocksTyped(bl, ia, ln),
           FramesLaid(c, bl, ia), ia2.fn = ia.fn,
           s.do # "blocks" => l = b,
           \A x : Creates(s, x) => x \in MadeOf(bl2, ia.fn, l),
           \A x : IsPlace(s, x) \/ (s.do = "blocks" /\ x = s.first) =>
                     x \in PlacedOf(bl2, ia.fn, l),
           \A x : BranchesTo(s, x) => x \in LinkedOf(bl2, ia.fn, l),
           BranchesTo(s, "exit") => "exit" \in TiedOf(bl2, ia.fn, l)
    PROVE  FramesLaid(c2, bl2, ia2)
<1>1. /\ m \in DOMAIN c /\ m \in DOMAIN c2 /\ m \in Nat /\ IsList(c[m].todo) /\ 1 \in DOMAIN c[m].todo
      /\ \A i \in DOMAIN c2 : i \in Nat /\ i \in DOMAIN c /\ IsList(c2[i].todo) /\ (i # m => c2[i] = c[i])
      /\ \A k \in DOMAIN c2[m].todo :
            \E k2 \in DOMAIN c[m].todo : c2[m].todo[k] = c[m].todo[k2] /\ k \in Nat /\ k2 = k + 1
  BY OnwardSteps
<1>2. PICK t, fn : t = c[m].todo /\ s = t[1] /\ fn = ia.fn /\ b = c[m].label
  BY DEF Onward
<1>3. t # << >> /\ c2[m].todo = Tail(t) /\ c2[m].label = l
  BY <1>2 DEF Onward
<1>4. \A i \in DOMAIN c : FrameLaid(bl, fn, c[i])
  BY <1>2 DEF FramesLaid
<1>5. /\ Laid(t, MadeOf(bl, fn, b), PlacedOf(bl, fn, b), LinkedOf(bl, fn, b), TiedOf(bl, fn, b))
      /\ b # 0 => \A k \in DOMAIN t : t[k].do # "blocks"
  BY <1>1, <1>2, <1>4 DEF FrameLaid
<1>6. /\ MadeOf(bl, fn, b) \subseteq MadeOf(bl2, fn, l)
      /\ PlacedOf(bl, fn, b) \subseteq PlacedOf(bl2, fn, l)
      /\ LinkedOf(bl, fn, b) \subseteq LinkedOf(bl2, fn, l)
      /\ TiedOf(bl, fn, b) \subseteq TiedOf(bl2, fn, l)
  <2>1. CASE l = b
    BY <2>1, GrowsNames
  <2>2. CASE b = 0
    <3>1. MadeOf(bl, fn, b) = {}
      BY <2>2, NotYet DEF MadeOf
    <3> QED
      BY <3>1 DEF PlacedOf, LinkedOf, TiedOf
  <2> QED
    BY <1>1, <1>2, <1>5, <2>1, <2>2
<1>7. Laid(Tail(t), MadeOf(bl2, fn, l), PlacedOf(bl2, fn, l), LinkedOf(bl2, fn, l), TiedOf(bl2, fn, l))
  <2>1. IsList(t) /\ t # << >>
    BY <1>1, <1>2, <1>3
  <2>2. /\ \A x : Creates(t[1], x) => x \in MadeOf(bl2, fn, l)
        /\ \A x : IsPlace(t[1], x) \/ (t[1].do = "blocks" /\ x = t[1].first) => x \in PlacedOf(bl2, fn, l)
        /\ \A x : BranchesTo(t[1], x) => x \in LinkedOf(bl2, fn, l)
        /\ BranchesTo(t[1], "exit") => "exit" \in TiedOf(bl2, fn, l)
    BY <1>2
  <2> QED
    BY <1>5, <1>6, <2>1, <2>2, TailLaid
<1>8. l # 0 => \A k \in DOMAIN Tail(t) : Tail(t)[k].do # "blocks"
  <2>1. ASSUME l # 0, NEW k \in DOMAIN Tail(t), Tail(t)[k].do = "blocks" PROVE FALSE
    <3>1. k \in Nat /\ k >= 1 /\ k + 1 \in DOMAIN t /\ t[k + 1].do = "blocks"
      <4>1. IsList(Tail(t)) /\ k + 1 \in DOMAIN t /\ Tail(t)[k] = t[k + 1]
        BY <1>1, <1>2, <1>3, TailList
      <4>2. k \in 1 .. Len(Tail(t)) /\ Len(Tail(t)) \in Nat
        BY <4>1, ListFacts
      <4> QED
        BY <2>1, <4>1, <4>2
    <3>2. s.do = "blocks"
      BY <1>2, <1>5, <2>1, <3>1
    <3>3. LaidBlocks(t)
      BY <1>5 DEF Laid
    <3>4. 1 = k + 1
      BY <1>1, <1>2, <3>1, <3>2, <3>3 DEF LaidBlocks
    <3> QED
      BY <3>1, <3>4
  <2> QED
    BY <2>1
<1>9. ASSUME NEW i \in DOMAIN c2 PROVE FrameLaid(bl2, fn, c2[i])
  <2>1. CASE i = m
    BY <1>3, <1>7, <1>8, <2>1 DEF FrameLaid
  <2>2. CASE i # m
    <3>1. FrameLaid(bl, fn, c2[i])
      BY <1>1, <1>4, <2>2
    <3> QED
      BY <3>1, GrowsLaid
  <2> QED
    BY <2>1, <2>2
<1> QED
  BY <1>2, <1>9 DEF FramesLaid

LEMMA OnwardLabels ==
    ASSUME NEW c, NEW c2, NEW m, NEW s, NEW b, NEW l, Frames(c), Onward(c, c2, m, s, b, l), NEW ln \in Nat, NEW ln2 \in Nat,
           LabelsApart(c, ln), (l = b /\ ln2 = ln) \/ (l = ln + 1 /\ ln2 = ln + 1)
    PROVE  LabelsApart(c2, ln2)
<1>1. /\ m \in DOMAIN c /\ m \in DOMAIN c2
      /\ \A i \in DOMAIN c2 : i \in Nat /\ i \in DOMAIN c /\ (i # m => c2[i] = c[i])
  BY OnwardSteps
<1>2. c2[m].label = l /\ b = c[m].label
  BY DEF Onward
<1>3. \A i \in DOMAIN c : c[i].label \in 0 .. ln
  BY DEF LabelsApart
<1>4. \A i, j \in DOMAIN c : c[i].label = c[j].label /\ c[i].label # 0 => i = j
  BY DEF LabelsApart
<1>5. ASSUME NEW i \in DOMAIN c2 PROVE c2[i].label \in 0 .. ln2
  BY <1>1, <1>2, <1>3
<1>6. ASSUME NEW i \in DOMAIN c2, NEW j \in DOMAIN c2, c2[i].label = c2[j].label, c2[i].label # 0 PROVE i = j
  <2>1. CASE l = b
    BY <1>1, <1>2, <1>4, <1>6, <2>1
  <2>2. CASE l = ln + 1
    BY <1>1, <1>2, <1>3, <1>4, <1>6, <2>2
  <2> QED
    BY <2>1, <2>2
<1> QED
  BY <1>5, <1>6 DEF LabelsApart

(* A function is compiled once, as their names differ.                       *)
LEMMA OnwardFunctions ==
    ASSUME NEW c, NEW c2, NEW m, NEW s, NEW b, NEW l, Frames(c), Onward(c, c2, m, s, b, l), NEW bl, NEW bl2,
           FunctionsApart(c, bl), ToCompile(c, bl),
           FreshStays(bl, bl2, s)
    PROVE  FunctionsApart(c2, bl2) /\ ToCompile(c2, bl2)
<1>1. /\ m \in DOMAIN c /\ m \in DOMAIN c2 /\ m \in Nat /\ 1 \in DOMAIN c[m].todo /\ DOMAIN c2 = 1 .. m
      /\ c # << >> /\ c2 # << >> /\ c[m].node \in Nodes
      /\ \A i \in DOMAIN c2 : i \in Nat /\ i \in DOMAIN c /\ IsList(c2[i].todo) /\ c2[i].node = c[i].node
                              /\ (i # m => c2[i] = c[i])
      /\ \A i \in DOMAIN c2 : \A k \in DOMAIN c2[i].todo :
            \E k2 \in DOMAIN c[i].todo : /\ c2[i].todo[k] = c[i].todo[k2] /\ k \in Nat
                                         /\ (i = m => k2 = k + 1) /\ (i # m => k2 = k)
  BY OnwardSteps
<1>a. m >= 1 /\ Len(c2) = m /\ (Len(c) = m \/ Len(c) = m + 1) /\ s = c[m].todo[1]
  BY DEF Onward
<1>2. ASSUME NEW i \in DOMAIN c2, NEW k \in DOMAIN c2[i].todo, c2[i].todo[k].do = "enter" PROVE FALSE
  <2>1. PICK k2 \in DOMAIN c[i].todo : /\ c2[i].todo[k] = c[i].todo[k2] /\ k \in Nat
                                       /\ (i = m => k2 = k + 1) /\ (i # m => k2 = k)
    BY <1>1
  <2>2. k2 = 1
    BY <1>1, <1>2, <2>1 DEF FunctionsApart
  <2>3. k >= 1
    BY <1>1, <1>2, ListFacts
  <2>4. i # m
    BY <2>1, <2>2, <2>3
  <2>5. i \in 1 .. Len(c) - 1
    BY <1>1, <1>a, <2>4
  <2> QED
    BY <1>2, <2>1, <2>2, <2>5 DEF Frames
<1>3. ASSUME NEW i \in DOMAIN c2, c2[i].node.cls \in OuterClasses PROVE Calm(c2[i].todo)
  <2>1. Calm(c[i].todo)
    BY <1>1, <1>3 DEF FunctionsApart
  <2> QED
    BY <1>1, <2>1 DEF Calm
<1>4. FunctionsApart(c2, bl2)
  <2>1. \A i \in DOMAIN c2 : c2[i].node.cls = "ASTProgram" <=> i = 1
    BY <1>1 DEF FunctionsApart
  <2> QED
    BY <1>2, <1>3, <2>1 DEF FunctionsApart
<1>5. 1 \in DOMAIN c2 /\ 1 \in DOMAIN c /\ c2[1].node = c[1].node
  <2>1. m \in Nat /\ m >= 1
    BY <1>1, <1>a
  <2>2. 1 \in 1 .. m
    BY <2>1
  <2> QED
    BY <1>1, <2>2
<1>6. PICK n : n = c[1].node
  OBVIOUS
<1>7. n.cls = "ASTProgram" /\ n \in Nodes
  BY <1>5, <1>6 DEF FunctionsApart, Frames
<1>8. \A k \in DOMAIN c[1].todo : c[1].todo[k].do = "codegen" =>
         /\ c[1].todo[k].child \in DOMAIN n.kids
         /\ (k = 1 /\ Len(c) > 1) \/ Fresh(bl, n.kids[c[1].todo[k].child].names[1])
         /\ \A j \in DOMAIN c[1].todo :
               c[1].todo[j].do = "codegen" /\ c[1].todo[j].child = c[1].todo[k].child => j = k
  BY <1>1, <1>6 DEF ToCompile
<1>9. CASE m = 1
  <2>1. PICK t, u : t = c[1].todo /\ u = c2[1].todo
    OBVIOUS
  <2>2. \A k \in DOMAIN u : k + 1 \in DOMAIN t /\ u[k] = t[k + 1] /\ k \in Nat /\ k >= 1
    <3>1. \A k \in DOMAIN u : k >= 1
      BY <1>1, <1>5, <2>1, ListFacts
    <3> QED
      BY <1>1, <1>9, <2>1, <3>1
  <2>3. t[1].do # "enter"
    BY <1>1, <1>6, <1>7, <1>9, <1>a, <2>1 DEF FunctionsApart
  <2>4. ASSUME NEW k \in DOMAIN u, u[k].do = "codegen"
        PROVE  /\ u[k].child \in DOMAIN n.kids /\ Fresh(bl2, n.kids[u[k].child].names[1])
               /\ \A j \in DOMAIN u : u[j].do = "codegen" /\ u[j].child = u[k].child => j = k
    <3>1. k + 1 # 1
      BY <2>2
    <3>2. u[k].child \in DOMAIN n.kids /\ Fresh(bl, n.kids[u[k].child].names[1])
      BY <1>8, <2>1, <2>2, <2>4, <3>1
    <3>3. Fresh(bl2, n.kids[u[k].child].names[1])
      BY <1>9, <1>a, <2>1, <2>3, <3>2 DEF FreshStays
    <3>4. ASSUME NEW j \in DOMAIN u, u[j].do = "codegen", u[j].child = u[k].child PROVE j = k
      <4>1. j + 1 = k + 1
        BY <1>8, <2>1, <2>2, <2>4, <3>4
      <4> QED
        BY <2>2, <4>1
    <3> QED
      BY <3>2, <3>3, <3>4
  <2> QED
    BY <1>4, <1>5, <1>6, <2>1, <2>4 DEF ToCompile
<1>10. CASE m # 1
  <2>1. c2[1] = c[1] /\ Len(c2) > 1 /\ 1 \in 1 .. Len(c) - 1
    BY <1>1, <1>5, <1>a, <1>10
  <2>2. PICK t : t = c[1].todo
    OBVIOUS
  <2>3. t[1].do = "codegen" /\ t # << >> /\ IsList(t)
    BY <1>5, <2>1, <2>2 DEF Frames
  <2>4. ASSUME s.do = "enter" PROVE s.name = n.kids[t[1].child].names[1]
    <3>1. c[m].node.cls = "ASTFunction" /\ s.name = c[m].node.names[1]
      BY <1>1, <1>a, <2>4 DEF FunctionsApart
    <3>2. PICK q \in Nat : q = m - 1 /\ q + 1 = m /\ q \in 1 .. Len(c) - 1 /\ q \in DOMAIN c
      <4>1. m - 1 \in Nat /\ (m - 1) + 1 = m /\ m - 1 \in 1 .. Len(c) - 1 /\ m - 1 \in DOMAIN c2
        BY <1>1, <1>a, <1>10
      <4> QED
        BY <1>1, <4>1
    <3>3. /\ c[q].todo[1].child \in 1 .. Len(c[q].node.kids) /\ c[q].node \in Nodes
          /\ c[m].node = c[q].node.kids[c[q].todo[1].child]
      BY <3>2 DEF Frames
    <3>4. c[q].node.cls \in {"ASTProgram", "ASTFunction"}
      BY <3>1, <3>3, InnerKid DEF EndedAfter
    <3>5. c[q].node.cls # "ASTFunction"
      <4>1. PICK p, i : p = c[q].node /\ i = c[q].todo[1].child
        OBVIOUS
      <4>2. p \in Nodes /\ i \in 1 .. Len(p.kids) /\ p.kids[i].cls = "ASTFunction"
        BY <3>1, <3>3, <4>1
      <4>3. p.cls = "ASTFunction" => p.kids[i].cls \notin {"ASTProgram", "ASTFunction"}
        BY <4>2, OuterKids
      <4> QED
        BY <4>1, <4>2, <4>3
    <3>6. q = 1
      BY <3>2, <3>4, <3>5 DEF FunctionsApart
    <3> QED
      BY <1>6, <2>2, <3>1, <3>3, <3>6
  <2>5. ASSUME NEW k \in DOMAIN t, t[k].do = "codegen", k # 1 PROVE Fresh(bl2, n.kids[t[k].child].names[1])
    <3>1. Fresh(bl, n.kids[t[k].child].names[1]) /\ t[k].child \in DOMAIN n.kids
      BY <1>8, <2>2, <2>5
    <3>2. 1 \in DOMAIN t
      BY <2>3, ListFacts
    <3>3. t[1].child # t[k].child /\ t[1].child \in DOMAIN n.kids
      BY <1>8, <2>2, <2>3, <2>5, <3>2
    <3>4. n.kids[t[1].child].names[1] # n.kids[t[k].child].names[1]
      <4>1. \A i, j \in DOMAIN n.kids : n.kids[i].names[1] = n.kids[j].names[1] => i = j
        <5>1. Grammatical(n)
          BY <1>7, NodeFacts
        <5> QED
          BY <1>7, <5>1 DEF Grammatical, ConstantClasses, UnaryClasses, UpdateClasses, BinaryClasses
      <4> QED
        BY <3>1, <3>3, <4>1
    <3> QED
      BY <2>4, <1>6, <1>a, <2>2, <3>1, <3>4 DEF FreshStays
  <2> QED
    BY <1>4, <1>6, <1>8, <2>1, <2>2, <2>5 DEF ToCompile
<1> QED
  BY <1>9, <1>10

-----------------------------------------------------------------------------
(* The invariant is kept by every kind of step.                              *)
LEMMA GrowsSame == ASSUME NEW bl, NEW ia, NEW ln, BlocksTyped(bl, ia, ln) PROVE Grows(bl, bl)
BY DEF Grows, BlocksTyped

LEMMA WellQuiet ==
    ASSUME NEW c, NEW c2, NEW m, NEW s, NEW l, NEW bl, NEW ia, NEW ln, Frames(c), Well(c, bl, ia, ln),
           Onward(c, c2, m, s, l, l), s.do \notin {"enter", "blocks", "place", "at", "terminate"}
    PROVE  Well(c2, bl, ia, ln)
<1>1. /\ BlocksTyped(bl, ia, ln) /\ LabelsApart(c, ln) /\ FramesLaid(c, bl, ia) /\ FramesFlow(c, bl, ia)
      /\ PlacedInTime(c, bl, ia) /\ EndedInTime(c, bl, ia) /\ Reached(c, bl, ia)
      /\ HeadersLead(c, bl, ia) /\ Leaving(bl) /\ FunctionsApart(c, bl) /\ ToCompile(c, bl)
  BY DEF Well
<1>2. s = c[m].todo[1] /\ l = c[m].label
  BY DEF Onward
<1>3. /\ Onward(c, c2, m, s, l, l) /\ Grows(bl, bl) /\ s.do \notin {"enter", "blocks", "place", "at", "terminate"}
      /\ ln \in Nat
  BY <1>1, <1>2, GrowsSame DEF BlocksTyped
<1>4. /\ ~Opens(s) /\ (\A x : ~Creates(s, x) /\ ~IsPlace(s, x) /\ ~BranchesTo(s, x))
  BY <1>3 DEF Opens, Creates, IsPlace, BranchesTo
<1>5. LabelsApart(c2, ln)
  BY <1>1, <1>2, <1>3, OnwardLabels
<1>6. FramesLaid(c2, bl, ia)
  BY <1>1, <1>2, <1>3, <1>4, OnwardLaid
<1>7. FramesFlow(c2, bl, ia)
  BY <1>1, <1>2, <1>3, <1>4, OnwardFlow
<1>8. HeadersLead(c2, bl, ia)
  BY <1>1, <1>2, <1>3, OnwardLeads
<1>9. FunctionsApart(c2, bl) /\ ToCompile(c2, bl)
  <2>1. FreshStays(bl, bl, s)
    BY DEF FreshStays
  <2> QED
    BY <1>1, <1>3, <2>1, OnwardFunctions
<1>10. \A b : (Pending(c2, ia.fn, b) <=> Pending(c, ia.fn, b)) /\ (Unplaced(c2, ia.fn, b) <=> Unplaced(c, ia.fn, b))
  BY <1>2, <1>3, OnwardPending
<1>11. PlacedInTime(c2, bl, ia) /\ EndedInTime(c2, bl, ia) /\ Reached(c2, bl, ia)
  BY <1>1, <1>10 DEF PlacedInTime, EndedInTime, Reached
<1> QED
  BY <1>1, <1>5, <1>6, <1>7, <1>8, <1>9, <1>11 DEF Well

LEMMA Placing ==
    ASSUME NEW r, r = Block3(r), NEW q, q = [r EXCEPT !.placed = TRUE]
    PROVE  q.placed /\ q.ends = r.ends /\ q.next = r.next /\ q = Block3(q)
<1>1. PICK p, e, x : r = [placed |-> p, ends |-> e, next |-> x]
  BY DEF Block3
<1>2. q = [placed |-> TRUE, ends |-> e, next |-> x]
  BY <1>1
<1>3. q.placed = TRUE /\ q.ends = e /\ q.next = x /\ r.ends = e /\ r.next = x
  BY <1>1, <1>2
<1>4. q = [placed |-> q.placed, ends |-> q.ends, next |-> q.next]
  BY <1>2, <1>3
<1> QED
  BY <1>3, <1>4 DEF Block3

LEMMA WellPlace ==
    ASSUME NEW c, NEW c2, NEW m, NEW s, NEW l, NEW bl, NEW ia, NEW ln, Frames(c), Well(c, bl, ia, ln),
           Onward(c, c2, m, s, l, l), s.do = "place",
           NEW bl2, bl2 = [bl EXCEPT ![OwnBlock(ia.fn, l, s.block)].placed = TRUE]
    PROVE  Well(c2, bl2, ia, ln)
<1>1. /\ BlocksTyped(bl, ia, ln) /\ LabelsApart(c, ln) /\ FramesLaid(c, bl, ia) /\ FramesFlow(c, bl, ia)
      /\ PlacedInTime(c, bl, ia) /\ EndedInTime(c, bl, ia) /\ Reached(c, bl, ia)
      /\ HeadersLead(c, bl, ia) /\ Leaving(bl) /\ FunctionsApart(c, bl) /\ ToCompile(c, bl)
  BY DEF Well
<1>2. PICK own : s = c[m].todo[1] /\ l = c[m].label /\ own = OwnBlock(ia.fn, l, s.block)
  BY DEF Onward
<1>3. /\ Onward(c, c2, m, s, l, l) /\ s.do = "place" /\ ln \in Nat /\ s.do # "enter"
  BY <1>1, <1>2 DEF BlocksTyped
<1>4. /\ ~Opens(s) /\ (\A x : ~Creates(s, x) /\ ~BranchesTo(s, x)) /\ (\A x : IsPlace(s, x) <=> x = s.block)
  BY <1>3 DEF Opens, Creates, IsPlace, BranchesTo
<1>5. s.block \in Labels /\ own \in DOMAIN bl
  <2>1. m \in DOMAIN c /\ 1 \in DOMAIN c[m].todo
    BY <1>3, OnwardSteps
  <2>2. FrameLaid(bl, ia.fn, c[m])
    BY <1>1, <2>1 DEF FramesLaid
  <2> QED
    BY <1>2, <1>4, <2>1, <2>2, LaidStep
<1>6. /\ DOMAIN bl2 = DOMAIN bl /\ bl2[own].placed
      /\ \A b \in DOMAIN bl : b # own => bl2[b] = bl[b]
      /\ \A b \in DOMAIN bl : bl2[b].ends = bl[b].ends /\ bl2[b].next = bl[b].next /\ bl2[b] = Block3(bl2[b])
  <2>1. \A b \in DOMAIN bl : bl[b] = Block3(bl[b])
    BY <1>1 DEF BlocksTyped
  <2>2. bl2 = [bl EXCEPT ![own] = [bl[own] EXCEPT !.placed = TRUE]]
    BY <1>2
  <2>3. DOMAIN bl2 = DOMAIN bl /\ bl2[own] = [bl[own] EXCEPT !.placed = TRUE] /\ \A b \in DOMAIN bl : b # own => bl2[b] = bl[b]
    BY <1>5, <2>2
  <2>4. bl[own] = Block3(bl[own])
    BY <1>5, <2>1
  <2>5. bl2[own].placed /\ bl2[own].ends = bl[own].ends /\ bl2[own].next = bl[own].next /\ bl2[own] = Block3(bl2[own])
    BY <2>3, <2>4, Placing
  <2> QED
    BY <2>1, <2>3, <2>5
<1>7. Grows(bl, bl2)
  <2>1. \A b \in DOMAIN bl : bl[b].placed => bl2[b].placed
    BY <1>6
  <2> QED
    BY <1>1, <1>6, <2>1 DEF Grows, BlocksTyped
<1>8. BlocksTyped(bl2, ia, ln)
  <2>1. ASSUME NEW b \in DOMAIN bl2
        PROVE  /\ b = OwnBlock(b.fn, b.label, b.name) /\ b.label \in 0 .. ln
               /\ b.label = 0 => b.name = "entry"
               /\ b.label # 0 => b.name \in Labels
               /\ OwnBlock(b.fn, 0, "entry") \in DOMAIN bl2
               /\ bl2[b] = Block3(bl2[b]) /\ bl2[b].ends \in {0, 1}
               /\ \A q \in bl2[b].next : q \in DOMAIN bl2 /\ q.fn = b.fn
    <3>1. b \in DOMAIN bl /\ bl2[b].ends = bl[b].ends /\ bl2[b].next = bl[b].next /\ bl2[b] = Block3(bl2[b])
      BY <1>6
    <3>2. /\ b = OwnBlock(b.fn, b.label, b.name) /\ b.label \in 0 .. ln
          /\ b.label = 0 => b.name = "entry"
          /\ b.label # 0 => b.name \in Labels
          /\ OwnBlock(b.fn, 0, "entry") \in DOMAIN bl
          /\ bl[b].ends \in {0, 1}
          /\ \A q \in bl[b].next : q \in DOMAIN bl /\ q.fn = b.fn
      BY <1>1, <3>1 DEF BlocksTyped
    <3> QED
      BY <1>6, <3>1, <3>2
  <2>2. IsFiniteSet(DOMAIN bl2) /\ ln \in Nat /\ (ia \in DOMAIN bl2 \/ (DOMAIN bl2 = {} /\ ia = NoBlock))
    BY <1>1, <1>6 DEF BlocksTyped
  <2> QED
    BY <2>1, <2>2 DEF BlocksTyped
<1>9. LabelsApart(c2, ln)
  BY <1>1, <1>2, <1>3, OnwardLabels
<1>10. FramesLaid(c2, bl2, ia)
  <2>1. s.block \in PlacedOf(bl2, ia.fn, l)
    BY <1>2, <1>5, <1>6 DEF PlacedOf, MadeOf
  <2> QED
    BY <1>1, <1>2, <1>3, <1>4, <1>7, <2>1, OnwardLaid
<1>11. FramesFlow(c2, bl2, ia)
  <2>1. Live(bl2, ia) <=> Live(bl, ia)
    BY <1>6 DEF Live
  <2> QED
    BY <1>1, <1>2, <1>3, <1>4, <2>1, OnwardFlow
<1>12. HeadersLead(c2, bl2, ia)
  BY <1>1, <1>2, <1>3, <1>7, OnwardLeads
<1>13. FunctionsApart(c2, bl2) /\ ToCompile(c2, bl2)
  <2>1. FreshStays(bl, bl2, s)
    BY <1>6 DEF Fresh, FreshStays
  <2>2. Onward(c, c2, m, s, l, l) /\ FunctionsApart(c, bl) /\ ToCompile(c, bl)
    BY <1>1, <1>3
  <2> QED
    BY <2>1, <2>2, OnwardFunctions
<1>14. /\ \A b : Pending(c2, ia.fn, b) <=> Pending(c, ia.fn, b)
       /\ \A b : Unplaced(c, ia.fn, b) => Unplaced(c2, ia.fn, b) \/ b = own
  BY <1>2, <1>3, OnwardPending
<1>15. PlacedInTime(c2, bl2, ia)
  BY <1>1, <1>6, <1>14 DEF PlacedInTime
<1>16. EndedInTime(c2, bl2, ia)
  BY <1>1, <1>6, <1>14 DEF EndedInTime
<1>17. \A S : ClosedIn(bl2, S) <=> ClosedIn(bl, S)
  BY <1>6 DEF ClosedIn
<1>18. Reached(c2, bl2, ia)
  <2>1. \A a, b : LeadsTo(bl, a, b) => LeadsTo(bl2, a, b)
    BY <1>6, <1>17 DEF LeadsTo
  <2> QED
    BY <1>1, <1>6, <1>14, <2>1 DEF Reached
<1>19. Leaving(bl2)
  <2>1. ASSUME NEW S \in SUBSET DOMAIN bl, ClosedIn(bl, S), S # {} PROVE \E b \in S : bl2[b].next = {}
    BY <1>1, <1>6, <2>1 DEF Leaving
  <2> QED
    BY <1>6, <1>17, <2>1 DEF Leaving
<1> QED
  BY <1>8, <1>9, <1>10, <1>11, <1>12, <1>13, <1>15, <1>16, <1>18, <1>19 DEF Well

LEMMA WellAt ==
    ASSUME NEW c, NEW c2, NEW m, NEW s, NEW l, NEW bl, NEW ia, NEW ln, Frames(c), Well(c, bl, ia, ln),
           Onward(c, c2, m, s, l, l), s.do = "at",
           NEW ia2, ia2 = OwnBlock(ia.fn, l, s.block)
    PROVE  Well(c2, bl, ia2, ln)
<1>1. /\ BlocksTyped(bl, ia, ln) /\ LabelsApart(c, ln) /\ FramesLaid(c, bl, ia) /\ FramesFlow(c, bl, ia)
      /\ PlacedInTime(c, bl, ia) /\ EndedInTime(c, bl, ia) /\ Reached(c, bl, ia)
      /\ HeadersLead(c, bl, ia) /\ Leaving(bl) /\ FunctionsApart(c, bl) /\ ToCompile(c, bl)
  BY DEF Well
<1>2. PICK t : s = t[1] /\ l = c[m].label /\ t = c[m].todo
  BY DEF Onward
<1>a. ia2.fn = ia.fn
  BY OwnApart
<1>3. /\ Onward(c, c2, m, s, l, l) /\ s.do = "at" /\ ln \in Nat /\ Grows(bl, bl) /\ ia2.fn = ia.fn
  BY <1>1, <1>a, GrowsSame DEF BlocksTyped
<1>4. /\ Opens(s) /\ (\A x : ~Creates(s, x) /\ ~BranchesTo(s, x) /\ ~IsPlace(s, x)) /\ IsAt(s, s.block)
  BY <1>3 DEF Opens, Creates, IsPlace, BranchesTo, IsAt
<1>5. m \in DOMAIN c /\ 1 \in DOMAIN t /\ FrameLaid(bl, ia.fn, c[m])
  <2>1. m \in DOMAIN c /\ 1 \in DOMAIN c[m].todo
    BY <1>3, OnwardSteps
  <2> QED
    BY <1>1, <1>2, <2>1 DEF FramesLaid
<1>6. s.block \in Labels /\ ia2 \in DOMAIN bl
  BY <1>2, <1>4, <1>5, LaidStep
<1>7. /\ bl[ia2].placed /\ LeadsTo(bl, OwnBlock(ia.fn, 0, "entry"), ia2)
      /\ \A j \in DOMAIN t : IsAt(t[j], s.block) => j = 1
  <2>1. LaidAts(t, PlacedOf(bl, ia.fn, l), LinkedOf(bl, ia.fn, l))
    BY <1>2, <1>5 DEF FrameLaid, Laid
  <2>2. /\ \/ s.block \in PlacedOf(bl, ia.fn, l)
           \/ \E j \in 1 .. 1 - 1 :
                 IsPlace(t[j], s.block) \/ (t[j].do = "blocks" /\ t[j].first = s.block)
        /\ s.block \in LinkedOf(bl, ia.fn, l) \/ \E j \in 1 .. 1 - 1 : BranchesTo(t[j], s.block)
        /\ \A j \in DOMAIN t : IsAt(t[j], s.block) => j = 1
    BY <1>2, <1>3, <1>5, <2>1 DEF LaidAts
  <2>3. s.block \in PlacedOf(bl, ia.fn, l) /\ s.block \in LinkedOf(bl, ia.fn, l)
    BY <2>2
  <2> QED
    BY <1>2, <2>2, <2>3 DEF PlacedOf, LinkedOf
<1>8. l # 0
  BY <1>1, <1>2, <1>6, NotYet
<1>9. Pending(c, ia.fn, ia2)
  <2>1. ToEnter(ia.fn, c[m], ia2)
    BY <1>2, <1>3, <1>5 DEF ToEnter
  <2> QED
    BY <1>5, <2>1 DEF Pending
<1>10. Live(bl, ia2)
  BY <1>1, <1>6, <1>9 DEF EndedInTime, Live
<1>11. ~Pending(c2, ia.fn, ia2)
  <2>1. SUFFICES ASSUME NEW i \in DOMAIN c2, ToEnter(ia.fn, c2[i], ia2) PROVE FALSE
    BY DEF Pending
  <2>2. /\ m \in DOMAIN c /\ i \in DOMAIN c /\ (i # m => c2[i] = c[i]) /\ IsList(c2[i].todo)
        /\ \A k \in DOMAIN c2[i].todo :
            \E k2 \in DOMAIN c[i].todo : /\ c2[i].todo[k] = c[i].todo[k2] /\ k \in Nat
                                         /\ (i = m => k2 = k + 1)
    BY <1>3, OnwardSteps
  <2>3. c2[i].label = c[i].label
    BY <1>2, <1>3, <2>2 DEF Onward
  <2>4. PICK k \in DOMAIN c2[i].todo : c2[i].todo[k].do = "at" /\ ia2 = OwnBlock(ia.fn, c2[i].label, c2[i].todo[k].block)
    BY <2>1 DEF ToEnter
  <2>5. c[i].label = l /\ c2[i].todo[k].block = s.block
    BY <1>2, <2>3, <2>4, OwnApart
  <2>6. i = m
    BY <1>1, <1>2, <1>8, <2>2, <2>5 DEF LabelsApart
  <2>7. PICK k2 \in DOMAIN t : c2[i].todo[k] = t[k2] /\ k \in Nat /\ k2 = k + 1
    BY <1>2, <2>2, <2>6
  <2>8. k2 = 1
    BY <1>7, <2>4, <2>5, <2>7 DEF IsAt
  <2>9. k >= 1
    BY <2>2, ListFacts
  <2> QED
    BY <2>7, <2>8, <2>9
<1>12. LabelsApart(c2, ln)
  BY <1>1, <1>2, <1>3, OnwardLabels
<1>13. FramesLaid(c2, bl, ia2)
  BY <1>1, <1>2, <1>3, <1>4, OnwardLaid
<1>14. FramesFlow(c2, bl, ia2) /\ ~Live(bl, ia)
  <2>1. FramesFlow(c2, bl, ia2)
    BY <1>1, <1>2, <1>3, <1>4, <1>10, OnwardFlow
  <2>2. ~Live(bl, ia)
    BY <1>1, <1>3, <1>4, OnwardNeeds
  <2> QED
    BY <2>1, <2>2
<1>15. HeadersLead(c2, bl, ia2)
  BY <1>1, <1>2, <1>3, OnwardLeads
<1>16. FunctionsApart(c2, bl) /\ ToCompile(c2, bl)
  <2>1. FreshStays(bl, bl, s)
    BY DEF FreshStays
  <2> QED
    BY <1>1, <1>3, <2>1, OnwardFunctions
<1>17. /\ \A b : Pending(c2, ia.fn, b) => Pending(c, ia.fn, b)
       /\ \A b : Pending(c, ia.fn, b) => Pending(c2, ia.fn, b) \/ b = ia2
       /\ \A b : Unplaced(c, ia.fn, b) <=> Unplaced(c2, ia.fn, b)
  BY <1>2, <1>3, OnwardPending
<1>18. BlocksTyped(bl, ia2, ln)
  BY <1>1, <1>6 DEF BlocksTyped
<1>19. PlacedInTime(c2, bl, ia2)
  BY <1>1, <1>3, <1>7, <1>17 DEF PlacedInTime
<1>20. EndedInTime(c2, bl, ia2)
  <2>1. ASSUME NEW b \in DOMAIN bl, bl[b].ends = 0 PROVE bl[b].next = {} /\ (b = ia2 \/ Pending(c2, ia.fn, b))
    <3>1. b # ia
      BY <1>14, <2>1 DEF Live
    <3> QED
      BY <1>1, <1>17, <2>1, <3>1 DEF EndedInTime
  <2>2. ASSUME NEW b \in DOMAIN bl, Pending(c2, ia.fn, b) PROVE bl[b].ends = 0 /\ b # ia2
    BY <1>1, <1>11, <1>17, <2>2 DEF EndedInTime
  <2> QED
    BY <1>3, <2>1, <2>2 DEF EndedInTime
<1>21. Reached(c2, bl, ia2)
  BY <1>1, <1>3, <1>7, <1>17 DEF Reached
<1> QED
  BY <1>1, <1>12, <1>13, <1>14, <1>15, <1>16, <1>18, <1>19, <1>20, <1>21 DEF Well

(* A terminator ends the current block, and what it branches to is still to   *)
(* be entered, or is the header of the loop that it closes.                  *)
Ended(r, x) == [r EXCEPT !.ends = @ + 1, !.next = @ \cup x]

EndsIn(bl, ia, to, bl2) ==
    /\ DOMAIN bl2 = DOMAIN bl /\ \A b \in DOMAIN bl : b # ia => bl2[b] = bl[b]
    /\ ia \in DOMAIN bl =>
          /\ (bl[ia].placed => bl2[ia].placed) /\ bl2[ia].ends = bl[ia].ends + 1
          /\ bl2[ia].next = bl[ia].next \cup to /\ bl2[ia] = Block3(bl2[ia])

LEMMA Fields3 ==
    ASSUME NEW p, NEW e, NEW x, NEW q, q = [placed |-> p, ends |-> e, next |-> x]
    PROVE  q.placed = p /\ q.ends = e /\ q.next = x /\ q = Block3(q)
<1>1. q.placed = p /\ q.ends = e /\ q.next = x
  OBVIOUS
<1> QED
  BY <1>1 DEF Block3

LEMMA EndedFields ==
    ASSUME NEW p, NEW e, NEW y, NEW r, r = [placed |-> p, ends |-> e, next |-> y], NEW x
    PROVE  Ended(r, x) = [placed |-> p, ends |-> e + 1, next |-> y \cup x]
<1>1. PICK e2, y2 : e2 = e + 1 /\ y2 = y \cup x
  OBVIOUS
<1>2. PICK r1 : r1 = [placed |-> p, ends |-> e2, next |-> y]
  OBVIOUS
<1>3. [r EXCEPT !.ends = @ + 1] = r1
  BY <1>1, <1>2
<1>4. [r1 EXCEPT !.next = @ \cup x] = [placed |-> p, ends |-> e2, next |-> y2]
  BY <1>1, <1>2
<1> QED
  BY <1>1, <1>3, <1>4 DEF Ended

LEMMA Terminating ==
    ASSUME NEW r, r = Block3(r), NEW x, NEW q, q = Ended(r, x)
    PROVE  q.placed = r.placed /\ q.ends = r.ends + 1 /\ q.next = r.next \cup x /\ q = Block3(q)
<1>1. PICK p, e, y : r = [placed |-> p, ends |-> e, next |-> y]
  BY DEF Block3
<1>2. PICK e2, y2 : e2 = e + 1 /\ y2 = y \cup x
  OBVIOUS
<1>3. q = [placed |-> p, ends |-> e2, next |-> y2]
  BY <1>1, <1>2, EndedFields
<1>4. q.placed = p /\ q.ends = e2 /\ q.next = y2 /\ q = Block3(q)
  BY <1>3, Fields3
<1>5. r.placed = p /\ r.ends = e /\ r.next = y
  BY <1>1, Fields3
<1> QED
  BY <1>2, <1>4, <1>5

LEMMA TerminatingIn ==
    ASSUME NEW bl, NEW ia, NEW to, NEW bl2, bl2 = [bl EXCEPT ![ia] = Ended(bl[ia], to)],
           ia \in DOMAIN bl => bl[ia] = Block3(bl[ia])
    PROVE  EndsIn(bl, ia, to, bl2)
<1>1. PICK r, q : r = bl[ia] /\ q = Ended(r, to)
  OBVIOUS
<1>2. bl2 = [bl EXCEPT ![ia] = q]
  BY <1>1
<1>3. /\ DOMAIN bl2 = DOMAIN bl /\ \A b \in DOMAIN bl : b # ia => bl2[b] = bl[b]
      /\ ia \in DOMAIN bl => bl2[ia] = q
  BY <1>2
<1>4. ASSUME ia \in DOMAIN bl
      PROVE  q.placed = r.placed /\ q.ends = r.ends + 1 /\ q.next = r.next \cup to /\ q = Block3(q)
  BY <1>1, <1>4, Terminating
<1> QED
  BY <1>1, <1>3, <1>4 DEF EndsIn

(* What a branch leads to: blocks of the function, one of which is still to   *)
(* be entered, unless the branch is back to a header that leads there.       *)
LEMMA BranchLaid ==
    ASSUME NEW bl, NEW fn, NEW f, FrameLaid(bl, fn, f), IsList(f.todo), 1 \in DOMAIN f.todo,
           NEW s, s = f.todo[1], s.do = "terminate", NEW l, l = f.label
    PROVE  /\ \A x \in s.to : x \in Labels /\ OwnBlock(fn, l, x) \in DOMAIN bl
           /\ s.to # {} => \E y : /\ ToEnter(fn, f, OwnBlock(fn, l, y))
                                  /\ \/ y \in s.to
                                     \/ /\ "header" \in s.to /\ OwnBlock(fn, l, "header") \in DOMAIN bl
                                        /\ OwnBlock(fn, l, y) \in DOMAIN bl
                                        /\ LeadsTo(bl, OwnBlock(fn, l, "header"), OwnBlock(fn, l, y))
           /\ BranchesTo(s, "exit") => InHeader(f.todo)
<1>1. PICK t : t = f.todo /\ s = t[1] /\ 1 \in DOMAIN t
  OBVIOUS
<1>2. \A x \in s.to : x \in Labels /\ OwnBlock(fn, l, x) \in DOMAIN bl
  <2>1. \A x \in s.to : BranchesTo(t[1], x)
    BY <1>1 DEF BranchesTo
  <2> QED
    BY <1>1, <2>1, LaidStep
<1>3. ASSUME s.to # {}
      PROVE  \E y : /\ \E j \in DOMAIN t : IsAt(t[j], y)
                    /\ \/ y \in s.to
                       \/ "header" \in s.to /\ y \in TiedOf(bl, fn, l)
  <2>1. LaidBranches(t, TiedOf(bl, fn, l))
    BY <1>1 DEF FrameLaid, Laid
  <2>2. \/ \E x \in s.to : \E j \in 1 + 1 .. Len(t) : IsAt(t[j], x)
        \/ /\ "header" \in s.to
           /\ \E j \in 1 + 1 .. Len(t) : IsAt(t[j], "exit")
           /\ "exit" \in TiedOf(bl, fn, l) \/ \E j \in 1 .. 1 - 1 : BranchesTo(t[j], "exit")
    BY <1>1, <1>3, <2>1 DEF LaidBranches
  <2>3. DOMAIN t = 1 .. Len(t) /\ Len(t) \in Nat
    BY <1>1, ListFacts
  <2>4. \A j \in 1 + 1 .. Len(t) : j \in DOMAIN t
    BY <2>3
  <2>5. \A j \in 1 .. 1 - 1 : FALSE
    OBVIOUS
  <2> QED
    BY <2>2, <2>4, <2>5
<1>4. ASSUME s.to # {}
      PROVE  \E y : /\ ToEnter(fn, f, OwnBlock(fn, l, y))
                    /\ \/ y \in s.to
                       \/ /\ "header" \in s.to /\ OwnBlock(fn, l, "header") \in DOMAIN bl
                          /\ OwnBlock(fn, l, y) \in DOMAIN bl
                          /\ LeadsTo(bl, OwnBlock(fn, l, "header"), OwnBlock(fn, l, y))
  <2>1. PICK y : /\ \E j \in DOMAIN t : IsAt(t[j], y)
                 /\ \/ y \in s.to
                    \/ "header" \in s.to /\ y \in TiedOf(bl, fn, l)
    BY <1>3, <1>4
  <2>2. ToEnter(fn, f, OwnBlock(fn, l, y))
    BY <1>1, <2>1 DEF ToEnter, IsAt
  <2>3. y \in TiedOf(bl, fn, l) =>
           /\ OwnBlock(fn, l, "header") \in DOMAIN bl /\ OwnBlock(fn, l, y) \in DOMAIN bl
           /\ LeadsTo(bl, OwnBlock(fn, l, "header"), OwnBlock(fn, l, y))
    BY DEF TiedOf, MadeOf
  <2> QED
    BY <2>1, <2>2, <2>3
<1>5. BranchesTo(s, "exit") => InHeader(t)
  <2>1. \A j \in 1 .. 1 - 1 : t[j].do # "at"
    OBVIOUS
  <2> QED
    BY <1>1, <2>1 DEF InHeader
<1> QED
  BY <1>1, <1>2, <1>4, <1>5

LEMMA WellTerminate ==
    ASSUME NEW c, NEW c2, NEW m, NEW s, NEW l, NEW bl, NEW ia, NEW ln, Frames(c), Well(c, bl, ia, ln),
           Onward(c, c2, m, s, l, l), s.do = "terminate", 
           NEW to, to = {OwnBlock(ia.fn, l, x) : x \in s.to}, NEW bl2, EndsIn(bl, ia, to, bl2)
    PROVE  Well(c2, bl2, ia, ln)
<1>1. /\ BlocksTyped(bl, ia, ln) /\ LabelsApart(c, ln) /\ FramesLaid(c, bl, ia) /\ FramesFlow(c, bl, ia)
      /\ PlacedInTime(c, bl, ia) /\ EndedInTime(c, bl, ia) /\ Reached(c, bl, ia)
      /\ HeadersLead(c, bl, ia) /\ Leaving(bl) /\ FunctionsApart(c, bl) /\ ToCompile(c, bl)
  BY DEF Well
<1>2. s = c[m].todo[1] /\ l = c[m].label /\ Onward(c, c2, m, s, l, l) /\ ln \in Nat
  BY <1>1 DEF Onward, BlocksTyped
<1>3. /\ ~Opens(s) /\ s.do \notin {"blocks", "at", "enter", "place", "codegen"} /\ NeedsOpen(c[m].node, s)
      /\ \A x : ~Creates(s, x) /\ ~IsPlace(s, x) /\ (BranchesTo(s, x) <=> x \in s.to)
  BY DEF Opens, NeedsOpen, Creates, IsPlace, BranchesTo
<1>4. /\ m \in DOMAIN c /\ 1 \in DOMAIN c[m].todo /\ IsList(c[m].todo) /\ FrameLaid(bl, ia.fn, c[m])
  <2>1. m \in DOMAIN c /\ 1 \in DOMAIN c[m].todo /\ IsList(c[m].todo)
    BY OnwardSteps
  <2> QED
    BY <1>1, <1>2, <2>1 DEF FramesLaid
<1>5. /\ \A x \in s.to : x \in Labels /\ OwnBlock(ia.fn, l, x) \in DOMAIN bl
      /\ s.to # {} => \E y : /\ ToEnter(ia.fn, c[m], OwnBlock(ia.fn, l, y))
                             /\ \/ y \in s.to
                                \/ /\ "header" \in s.to /\ OwnBlock(ia.fn, l, "header") \in DOMAIN bl
                                   /\ OwnBlock(ia.fn, l, y) \in DOMAIN bl
                                   /\ LeadsTo(bl, OwnBlock(ia.fn, l, "header"), OwnBlock(ia.fn, l, y))
      /\ BranchesTo(s, "exit") => InHeader(c[m].todo)
  BY <1>2, <1>4, BranchLaid
<1>6. Live(bl, ia)
  BY <1>1, <1>3, OnwardNeeds
<1>7. ia \in DOMAIN bl /\ bl[ia].ends = 0 /\ bl[ia].next = {} /\ ~Pending(c, ia.fn, ia) /\ bl[ia].placed
  BY <1>1, <1>2, <1>6 DEF Live, EndedInTime, PlacedInTime
<1>8. /\ DOMAIN bl2 = DOMAIN bl /\ \A b \in DOMAIN bl : b # ia => bl2[b] = bl[b]
      /\ bl2[ia].placed /\ bl2[ia].ends = 1 /\ bl2[ia].next = to /\ bl2[ia] = Block3(bl2[ia])
  <2>1. bl2[ia].ends = bl[ia].ends + 1 /\ bl2[ia].next = bl[ia].next \cup to /\ (bl[ia].placed => bl2[ia].placed)
    BY <1>7 DEF EndsIn
  <2>2. bl2[ia].ends = 1 /\ bl2[ia].next = to
    BY <1>7, <2>1
  <2> QED
    BY <1>7, <2>1, <2>2 DEF EndsIn
<1>9. \A b \in to : b \in DOMAIN bl /\ b.fn = ia.fn
  BY <1>2, <1>5, OwnApart
<1>10. Grows(bl, bl2)
  BY <1>1, <1>7, <1>8 DEF Grows, BlocksTyped
<1>11. BlocksTyped(bl2, ia, ln)
  <2>1. ASSUME NEW b \in DOMAIN bl2
        PROVE  /\ b = OwnBlock(b.fn, b.label, b.name) /\ b.label \in 0 .. ln
               /\ b.label = 0 => b.name = "entry"
               /\ b.label # 0 => b.name \in Labels
               /\ OwnBlock(b.fn, 0, "entry") \in DOMAIN bl2
               /\ bl2[b] = Block3(bl2[b]) /\ bl2[b].ends \in {0, 1}
               /\ \A d \in bl2[b].next : d \in DOMAIN bl2 /\ d.fn = b.fn
    <3>1. /\ b \in DOMAIN bl /\ b = OwnBlock(b.fn, b.label, b.name) /\ b.label \in 0 .. ln
          /\ b.label = 0 => b.name = "entry"
          /\ b.label # 0 => b.name \in Labels
          /\ OwnBlock(b.fn, 0, "entry") \in DOMAIN bl
          /\ bl[b].ends \in {0, 1} /\ bl[b] = Block3(bl[b])
          /\ \A d \in bl[b].next : d \in DOMAIN bl /\ d.fn = b.fn
      BY <1>1, <1>8 DEF BlocksTyped
    <3>2. CASE b = ia
      BY <1>8, <1>9, <3>1, <3>2
    <3>3. CASE b # ia
      BY <1>8, <3>1, <3>3
    <3> QED
      BY <3>2, <3>3
  <2>2. IsFiniteSet(DOMAIN bl2) /\ ln \in Nat /\ (ia \in DOMAIN bl2 \/ (DOMAIN bl2 = {} /\ ia = NoBlock))
    BY <1>1, <1>8 DEF BlocksTyped
  <2> QED
    BY <2>1, <2>2 DEF BlocksTyped
<1>12. LabelsApart(c2, ln)
  <2>1. ln \in Nat
    BY <1>1 DEF BlocksTyped
  <2> QED
    BY <1>1, <2>1, OnwardLabels
<1>13. FramesLaid(c2, bl2, ia)
  <2>1. LeadsTo(bl2, OwnBlock(ia.fn, 0, "entry"), ia)
    <3>1. LeadsTo(bl, OwnBlock(ia.fn, 0, "entry"), ia) /\ OwnBlock(ia.fn, 0, "entry") \in DOMAIN bl
      BY <1>1, <1>2, <1>7 DEF Reached, BlocksTyped
    <3> QED
      BY <1>10, <3>1, GrowsLeads
  <2>2. \A x : BranchesTo(s, x) => x \in LinkedOf(bl2, ia.fn, l)
    <3>1. SUFFICES ASSUME NEW x \in s.to PROVE x \in LinkedOf(bl2, ia.fn, l)
      BY <1>3
    <3>2. x \in MadeOf(bl2, ia.fn, l) /\ OwnBlock(ia.fn, l, x) \in bl2[ia].next
      BY <1>2, <1>5, <1>8 DEF MadeOf
    <3>3. LeadsTo(bl2, OwnBlock(ia.fn, 0, "entry"), OwnBlock(ia.fn, l, x))
      BY <2>1, <3>2 DEF LeadsTo, ClosedIn
    <3> QED
      BY <3>2, <3>3 DEF LinkedOf
  <2>3. BranchesTo(s, "exit") => "exit" \in TiedOf(bl2, ia.fn, l)
    <3>1. SUFFICES ASSUME "exit" \in s.to PROVE "exit" \in TiedOf(bl2, ia.fn, l)
      BY <1>3
    <3>2. "exit" \in MadeOf(bl2, ia.fn, l) /\ OwnBlock(ia.fn, l, "exit") \in bl2[ia].next
      BY <1>2, <1>5, <1>8, <3>1 DEF MadeOf
    <3>3. InHeader(c[m].todo) /\ "header" \in MadeOf(bl, ia.fn, l) /\ OwnBlock(ia.fn, l, "header") \in DOMAIN bl
      <4>1. InHeader(c[m].todo)
        BY <1>3, <1>5, <3>1
      <4> QED
        BY <1>2, <1>4, <4>1, LaidHeader
    <3>4. ASSUME NEW S \in SUBSET DOMAIN bl2, ClosedIn(bl2, S), OwnBlock(ia.fn, l, "header") \in S
          PROVE  OwnBlock(ia.fn, l, "exit") \in S
      <4>1. PICK S0 : S0 = S \cap DOMAIN bl /\ ClosedIn(bl, S0) /\ S0 \in SUBSET DOMAIN bl
        BY <1>10, <3>4, GrowsClosed
      <4>2. LeadsOn(c, ia, S0, m)
        BY <1>1, <1>2, <1>4, <3>3, <3>4, <4>1 DEF HeadersLead
      <4>3. ia \in S
        BY <4>1, <4>2 DEF LeadsOn
      <4> QED
        BY <3>2, <3>4, <4>3 DEF ClosedIn
    <3>5. LeadsTo(bl2, OwnBlock(ia.fn, l, "header"), OwnBlock(ia.fn, l, "exit"))
      BY <3>4 DEF LeadsTo
    <3>6. "header" \in MadeOf(bl2, ia.fn, l)
      BY <1>8, <3>3 DEF MadeOf
    <3> QED
      BY <3>2, <3>5, <3>6 DEF TiedOf
  <2>4. /\ \A x : Creates(s, x) => x \in MadeOf(bl2, ia.fn, l)
        /\ \A x : IsPlace(s, x) \/ (s.do = "blocks" /\ x = s.first) => x \in PlacedOf(bl2, ia.fn, l)
    BY <1>3
  <2> QED
    BY <1>1, <1>2, <1>3, <1>10, <2>2, <2>3, <2>4, OnwardLaid
<1>14. FramesFlow(c2, bl2, ia)
  <2>1. ~Live(bl2, ia)
    BY <1>8 DEF Live
  <2> QED
    BY <1>1, <1>3, <2>1, OnwardFlow
<1>15. HeadersLead(c2, bl2, ia)
  <2>1. \A x \in s.to : ia \in DOMAIN bl2 /\ OwnBlock(ia.fn, l, x) \in bl2[ia].next
    BY <1>2, <1>7, <1>8
  <2> QED
    BY <1>1, <1>2, <1>3, <1>10, <2>1, OnwardLeads
<1>16. FunctionsApart(c2, bl2) /\ ToCompile(c2, bl2)
  <2>1. FreshStays(bl, bl2, s)
    BY <1>8 DEF Fresh, FreshStays
  <2>2. Onward(c, c2, m, s, l, l) /\ FunctionsApart(c, bl) /\ ToCompile(c, bl)
    BY <1>1
  <2> QED
    BY <2>1, <2>2, OnwardFunctions
<1>17. /\ \A b : Pending(c2, ia.fn, b) <=> Pending(c, ia.fn, b)
       /\ \A b : Unplaced(c2, ia.fn, b) <=> Unplaced(c, ia.fn, b)
  BY <1>3, OnwardPending
<1>18. PlacedInTime(c2, bl2, ia)
  BY <1>1, <1>2, <1>7, <1>8, <1>17 DEF PlacedInTime
<1>19. EndedInTime(c2, bl2, ia)
  <2>1. ASSUME NEW b \in DOMAIN bl
        PROVE  /\ bl2[b].ends = 0 => bl2[b].next = {} /\ (b = ia \/ Pending(c2, ia.fn, b))
               /\ Pending(c2, ia.fn, b) => bl2[b].ends = 0 /\ b # ia
    <3>1. /\ bl[b].ends = 0 => bl[b].next = {} /\ (b = ia \/ Pending(c, ia.fn, b))
          /\ Pending(c, ia.fn, b) => bl[b].ends = 0 /\ b # ia
      BY <1>1 DEF EndedInTime
    <3>2. CASE b = ia
      <4>1. bl2[b].ends = 1 /\ ~Pending(c, ia.fn, b)
        BY <1>8, <1>7, <3>2
      <4>2. ~Pending(c2, ia.fn, b)
        BY <1>17, <4>1
      <4> QED
        BY <4>1, <4>2
    <3>3. CASE b # ia
      BY <1>8, <1>17, <3>1, <3>3
    <3> QED
      BY <3>2, <3>3
  <2> QED
    BY <1>8, <2>1 DEF EndedInTime
<1>20. Reached(c2, bl2, ia)
  <2>1. ASSUME NEW b \in DOMAIN bl, LeadsTo(bl, OwnBlock(b.fn, 0, "entry"), b)
        PROVE  LeadsTo(bl2, OwnBlock(b.fn, 0, "entry"), b)
    <3>1. OwnBlock(b.fn, 0, "entry") \in DOMAIN bl
      BY <1>1 DEF BlocksTyped
    <3> QED
      BY <1>10, <2>1, <3>1, GrowsLeads
  <2> QED
    BY <1>1, <1>2, <1>8, <1>17, <2>1 DEF Reached
<1>21. Leaving(bl2)
  <2>1. SUFFICES ASSUME NEW S \in SUBSET DOMAIN bl, ClosedIn(bl2, S), S # {} PROVE \E b \in S : bl2[b].next = {}
    BY <1>8 DEF Leaving
  <2>2. S \cap DOMAIN bl = S
    OBVIOUS
  <2>3. ClosedIn(bl, S)
    BY <1>10, <2>1, <2>2, GrowsClosed
  <2>4. PICK b \in S : bl[b].next = {}
    BY <1>1, <2>1, <2>3 DEF Leaving
  <2>5. CASE b # ia
    BY <1>8, <2>4, <2>5
  <2>6. CASE b = ia /\ s.to = {}
    <3>1. to = {}
      BY <1>2, <2>6
    <3> QED
      BY <1>8, <2>6, <3>1
  <2>7. CASE b = ia /\ s.to # {}
    <3>1. PICK y : /\ ToEnter(ia.fn, c[m], OwnBlock(ia.fn, l, y))
                   /\ \/ y \in s.to
                      \/ /\ "header" \in s.to /\ OwnBlock(ia.fn, l, "header") \in DOMAIN bl
                         /\ OwnBlock(ia.fn, l, y) \in DOMAIN bl
                         /\ LeadsTo(bl, OwnBlock(ia.fn, l, "header"), OwnBlock(ia.fn, l, y))
      BY <1>5, <2>7
    <3>2. \A x \in s.to : OwnBlock(ia.fn, l, x) \in S
      BY <1>2, <1>8, <2>1, <2>7 DEF ClosedIn
    <3>3. OwnBlock(ia.fn, l, y) \in S
      BY <2>1, <2>3, <3>1, <3>2 DEF LeadsTo
    <3>4. Pending(c, ia.fn, OwnBlock(ia.fn, l, y))
      BY <1>4, <3>1 DEF Pending
    <3>5. bl[OwnBlock(ia.fn, l, y)].next = {} /\ OwnBlock(ia.fn, l, y) # ia
      BY <1>1, <1>2, <2>1, <3>3, <3>4 DEF EndedInTime
    <3> QED
      BY <1>8, <2>1, <3>3, <3>5
  <2> QED
    BY <2>5, <2>6, <2>7
<1> QED
  BY <1>11, <1>12, <1>13, <1>14, <1>15, <1>16, <1>18, <1>19, <1>20, <1>21 DEF Well

(* New blocks take a label of their own.                                     *)
Made(bl, made, own, bl2) ==
    /\ DOMAIN bl2 = DOMAIN bl \cup made
    /\ \A b \in DOMAIN bl : b \notin made => bl2[b] = bl[b]
    /\ \A b \in made : /\ bl2[b].ends = 0 /\ bl2[b].next = {} /\ bl2[b] = Block3(bl2[b])
                       /\ b = own => bl2[b].placed

LEMMA OpenFields ==
    ASSUME NEW p, NEW r, r = OpenBlock(p)
    PROVE  r.ends = 0 /\ r.next = {} /\ r = Block3(r) /\ (p => r.placed)
<1>1. r = [placed |-> p, ends |-> 0, next |-> {}]
  BY DEF OpenBlock
<1>2. r.placed = p /\ r.ends = 0 /\ r.next = {} /\ r = Block3(r)
  BY <1>1, Fields3
<1> QED
  BY <1>2

LEMMA FiniteSix ==
    ASSUME NEW a, NEW b, NEW c, NEW d, NEW e, NEW f PROVE IsFiniteSet({a, b, c, d, e, f})
<1>1. IsFiniteSet({})
  BY FS_EmptySet
<1>2. IsFiniteSet({} \cup {a})
  BY <1>1, FS_AddElement
<1>3. IsFiniteSet(({} \cup {a}) \cup {b})
  BY <1>2, FS_AddElement
<1>4. IsFiniteSet((({} \cup {a}) \cup {b}) \cup {c})
  BY <1>3, FS_AddElement
<1>5. IsFiniteSet(((({} \cup {a}) \cup {b}) \cup {c}) \cup {d})
  BY <1>4, FS_AddElement
<1>6. IsFiniteSet((((({} \cup {a}) \cup {b}) \cup {c}) \cup {d}) \cup {e})
  BY <1>5, FS_AddElement
<1>7. IsFiniteSet(((((({} \cup {a}) \cup {b}) \cup {c}) \cup {d}) \cup {e}) \cup {f})
  BY <1>6, FS_AddElement
<1>8. {a, b, c, d, e, f} = ((((({} \cup {a}) \cup {b}) \cup {c}) \cup {d}) \cup {e}) \cup {f}
  OBVIOUS
<1> QED
  BY <1>7, <1>8

LEMMA MadeFinite ==
    ASSUME NEW fn, NEW l, NEW made, \A b \in made : \E x \in Labels : b = OwnBlock(fn, l, x)
    PROVE  IsFiniteSet(made)
<1>1. PICK all : all = {OwnBlock(fn, l, "header"), OwnBlock(fn, l, "body"), OwnBlock(fn, l, "exit"),
                        OwnBlock(fn, l, "then"), OwnBlock(fn, l, "else"), OwnBlock(fn, l, "ifmerge")}
  OBVIOUS
<1>2. IsFiniteSet(all)
  BY <1>1, FiniteSix
<1>3. made \subseteq all
  BY <1>1 DEF Labels
<1> QED
  BY <1>2, <1>3, FS_Subset

LEMMA WellBlocks ==
    ASSUME NEW c, NEW c2, NEW m, NEW s, NEW b, NEW l, NEW bl, NEW ia, NEW ln, Frames(c), Well(c, bl, ia, ln),
           l = ln + 1, Onward(c, c2, m, s, b, l), s.do = "blocks",
           NEW made, made = {OwnBlock(ia.fn, l, x) : x \in {s.first} \cup s.others},
           NEW bl2, Made(bl, made, OwnBlock(ia.fn, l, s.first), bl2)
    PROVE  Well(c2, bl2, ia, l)
<1>1. /\ BlocksTyped(bl, ia, ln) /\ LabelsApart(c, ln) /\ FramesLaid(c, bl, ia) /\ FramesFlow(c, bl, ia)
      /\ PlacedInTime(c, bl, ia) /\ EndedInTime(c, bl, ia) /\ Reached(c, bl, ia)
      /\ HeadersLead(c, bl, ia) /\ Leaving(bl) /\ FunctionsApart(c, bl) /\ ToCompile(c, bl)
  BY DEF Well
<1>2. PICK t : /\ s = t[1] /\ t = c[m].todo /\ b = c[m].label /\ Onward(c, c2, m, s, b, l)
               /\ ln \in Nat /\ c2[m].label = l
  BY <1>1 DEF Onward, BlocksTyped
<1>3. /\ ~Opens(s) /\ s.do \notin {"at", "enter", "place", "codegen", "terminate"} /\ NeedsOpen(c[m].node, s)
      /\ \A x : ~IsAt(s, x) /\ ~IsPlace(s, x) /\ ~BranchesTo(s, x)
      /\ \A x : Creates(s, x) <=> x \in {s.first} \cup s.others
  BY DEF Opens, NeedsOpen, Creates, IsPlace, BranchesTo, IsAt
<1>4. /\ m \in DOMAIN c /\ m \in DOMAIN c2 /\ 1 \in DOMAIN t /\ IsList(t) /\ FrameLaid(bl, ia.fn, c[m])
      /\ \A i \in DOMAIN c2 : i \in DOMAIN c /\ (i # m => c2[i] = c[i])
      /\ \A i \in DOMAIN c2 : \A k \in DOMAIN c2[i].todo : \E k2 \in DOMAIN c[i].todo : c2[i].todo[k] = c[i].todo[k2]
      /\ \A i \in DOMAIN c : \A k \in DOMAIN c[i].todo :
            \/ i = m /\ k = 1
            \/ i \in DOMAIN c2 /\ \E k2 \in DOMAIN c2[i].todo : c2[i].todo[k2] = c[i].todo[k]
  <2>1. /\ m \in DOMAIN c /\ m \in DOMAIN c2 /\ 1 \in DOMAIN c[m].todo /\ IsList(c[m].todo)
        /\ \A i \in DOMAIN c2 : i \in DOMAIN c /\ (i # m => c2[i] = c[i])
        /\ \A i \in DOMAIN c2 : \A k \in DOMAIN c2[i].todo : \E k2 \in DOMAIN c[i].todo : c2[i].todo[k] = c[i].todo[k2]
        /\ \A i \in DOMAIN c : \A k \in DOMAIN c[i].todo :
              \/ i = m /\ k = 1
              \/ i \in DOMAIN c2 /\ \E k2 \in DOMAIN c2[i].todo : c2[i].todo[k2] = c[i].todo[k]
    BY OnwardSteps
  <2> QED
    BY <1>1, <1>2, <2>1 DEF FramesLaid
<1>5. Live(bl, ia)
  BY <1>1, <1>3, OnwardNeeds
<1>6. ia \in DOMAIN bl /\ bl[ia].ends = 0 /\ bl[ia].next = {} /\ ~Pending(c, ia.fn, ia) /\ bl[ia].placed
  BY <1>1, <1>5 DEF Live, EndedInTime, PlacedInTime
<1>7. b = 0
  BY <1>2, <1>4 DEF FrameLaid
<1>8. /\ \A x \in {s.first} \cup s.others : x \in Labels /\ \E j \in DOMAIN t : j # 1 /\ IsAt(t[j], x)
      /\ \A x \in s.others : \E j \in DOMAIN t : j # 1 /\ IsPlace(t[j], x)
  <2>1. LaidBlocks(t)
    BY <1>2, <1>4 DEF FrameLaid, Laid
  <2>2. /\ \A x : Creates(t[1], x) => x \in Labels /\ \E j \in 1 + 1 .. Len(t) : IsAt(t[j], x)
        /\ \A x \in t[1].others : \E j \in 1 + 1 .. Len(t) : IsPlace(t[j], x)
    BY <1>2, <1>4, <2>1 DEF LaidBlocks
  <2>3. DOMAIN t = 1 .. Len(t) /\ Len(t) \in Nat
    BY <1>4, ListFacts
  <2>4. \A j \in 1 + 1 .. Len(t) : j \in DOMAIN t /\ j # 1
    BY <2>3
  <2> QED
    BY <1>2, <1>3, <2>2, <2>4
<1>9. \A x \in made : x.label = l /\ x.fn = ia.fn /\ x.name \in Labels /\ x = OwnBlock(ia.fn, l, x.name)
  BY <1>8, OwnApart
<1>10. \A x \in DOMAIN bl : x \notin made /\ x.label # l
  <2>1. \A x \in DOMAIN bl : x.label \in 0 .. ln
    BY <1>1 DEF BlocksTyped
  <2>2. \A n \in 0 .. ln : n # l
    BY <1>2
  <2> QED
    BY <1>9, <2>1, <2>2
<1>11. /\ DOMAIN bl2 = DOMAIN bl \cup made /\ \A x \in DOMAIN bl : bl2[x] = bl[x]
       /\ \A x \in made : bl2[x].ends = 0 /\ bl2[x].next = {} /\ bl2[x] = Block3(bl2[x])
       /\ bl2[OwnBlock(ia.fn, l, s.first)].placed
  BY <1>10 DEF Made
<1>12. Grows(bl, bl2)
  <2>1. \A x \in DOMAIN bl : bl[x].next \subseteq DOMAIN bl
    BY <1>1 DEF BlocksTyped
  <2> QED
    BY <1>11, <2>1 DEF Grows
<1>13. BlocksTyped(bl2, ia, l)
  <2>1. ASSUME NEW x \in DOMAIN bl2
        PROVE  /\ x = OwnBlock(x.fn, x.label, x.name) /\ x.label \in 0 .. l
               /\ x.label = 0 => x.name = "entry"
               /\ x.label # 0 => x.name \in Labels
               /\ OwnBlock(x.fn, 0, "entry") \in DOMAIN bl2
               /\ bl2[x] = Block3(bl2[x]) /\ bl2[x].ends \in {0, 1}
               /\ \A d \in bl2[x].next : d \in DOMAIN bl2 /\ d.fn = x.fn
    <3>1. CASE x \in DOMAIN bl
      <4>1. /\ x = OwnBlock(x.fn, x.label, x.name) /\ x.label \in 0 .. ln
            /\ x.label = 0 => x.name = "entry"
            /\ x.label # 0 => x.name \in Labels
            /\ OwnBlock(x.fn, 0, "entry") \in DOMAIN bl
            /\ bl[x].ends \in {0, 1} /\ bl[x] = Block3(bl[x])
            /\ \A d \in bl[x].next : d \in DOMAIN bl /\ d.fn = x.fn
        BY <1>1, <3>1 DEF BlocksTyped
      <4>2. \A n \in 0 .. ln : n \in 0 .. l
        BY <1>2
      <4> QED
        BY <1>11, <3>1, <4>1, <4>2
    <3>2. CASE x \in made
      <4>1. OwnBlock(ia.fn, 0, "entry") \in DOMAIN bl
        BY <1>1, <1>6 DEF BlocksTyped
      <4>2. l \in 0 .. l /\ l # 0
        BY <1>2
      <4> QED
        BY <1>9, <1>11, <3>2, <4>1, <4>2
    <3> QED
      BY <1>11, <3>1, <3>2
  <2>2. IsFiniteSet(made)
    BY <1>9, MadeFinite
  <2>3. IsFiniteSet(DOMAIN bl)
    BY <1>1 DEF BlocksTyped
  <2>a. IsFiniteSet(DOMAIN bl \cup made)
    BY <2>2, <2>3, FS_Union
  <2>4. IsFiniteSet(DOMAIN bl2)
    BY <1>11, <2>a
  <2>5. l \in Nat /\ ia \in DOMAIN bl2
    BY <1>2, <1>6, <1>11
  <2> QED
    BY <2>1, <2>4, <2>5 DEF BlocksTyped
<1>14. LabelsApart(c2, l)
  <2>1. l \in Nat /\ l = ln + 1
    BY <1>2
  <2> QED
    BY <1>1, <1>2, <2>1, OnwardLabels
<1>15. FramesLaid(c2, bl2, ia)
  <2>1. \A x : Creates(s, x) => x \in MadeOf(bl2, ia.fn, l)
    BY <1>3, <1>8, <1>11 DEF MadeOf
  <2>2. \A x : IsPlace(s, x) \/ (s.do = "blocks" /\ x = s.first) => x \in PlacedOf(bl2, ia.fn, l)
    BY <1>3, <1>11, <2>1 DEF PlacedOf
  <2>3. /\ \A x : BranchesTo(s, x) => x \in LinkedOf(bl2, ia.fn, l)
        /\ BranchesTo(s, "exit") => "exit" \in TiedOf(bl2, ia.fn, l)
    BY <1>3
  <2> QED
    BY <1>1, <1>2, <1>12, <2>1, <2>2, <2>3, OnwardLaid
<1>16. FramesFlow(c2, bl2, ia)
  <2>1. Live(bl2, ia)
    BY <1>6, <1>11 DEF Live
  <2> QED
    BY <1>1, <1>2, <1>3, <1>5, <2>1, OnwardFlow
<1>17. HeadersLead(c2, bl2, ia)
  BY <1>1, <1>2, <1>3, <1>7, <1>12, OnwardLeads
<1>18. FunctionsApart(c2, bl2) /\ ToCompile(c2, bl2)
  <2>1. FreshStays(bl, bl2, s)
    BY <1>6, <1>9, <1>11 DEF Fresh, FreshStays
  <2> QED
    BY <1>1, <1>2, <2>1, OnwardFunctions
<1>19. ASSUME NEW x \in DOMAIN bl
       PROVE  /\ Pending(c2, ia.fn, x) <=> Pending(c, ia.fn, x)
              /\ Unplaced(c, ia.fn, x) => Unplaced(c2, ia.fn, x)
  <2>1. ~ToEnter(ia.fn, c[m], x) /\ ~ToPlace(ia.fn, c[m], x)
    <3>1. \A k \in DOMAIN t : t[k].do \in {"at", "place"} => t[k].block \in Labels
      <4>1. \A k \in DOMAIN t : IsAt(t[k], t[k].block) \/ IsPlace(t[k], t[k].block) => t[k].block \in Labels
        BY <1>2, <1>4, LaidStep
      <4> QED
        BY <4>1 DEF IsAt, IsPlace
    <3>2. \A y \in Labels : x # OwnBlock(ia.fn, 0, y)
      BY <1>1, <1>19, NotYet
    <3> QED
      BY <1>2, <1>7, <3>1, <3>2 DEF ToEnter, ToPlace
  <2>2. ~ToEnter(ia.fn, c2[m], x)
    BY <1>2, <1>10, OwnApart DEF ToEnter
  <2>3. \A i \in DOMAIN c2 : ToEnter(ia.fn, c2[i], x) => i # m /\ i \in DOMAIN c /\ ToEnter(ia.fn, c[i], x)
    BY <1>4, <2>2
  <2>4. \A i \in DOMAIN c : ToEnter(ia.fn, c[i], x) => i # m /\ i \in DOMAIN c2 /\ ToEnter(ia.fn, c2[i], x)
    <3>1. ASSUME NEW i \in DOMAIN c, ToEnter(ia.fn, c[i], x) PROVE i # m /\ i \in DOMAIN c2
      BY <1>4, <2>1, <3>1 DEF ToEnter
    <3> QED
      BY <1>4, <3>1
  <2>5. \A i \in DOMAIN c : ToPlace(ia.fn, c[i], x) => i # m /\ i \in DOMAIN c2 /\ ToPlace(ia.fn, c2[i], x)
    <3>1. ASSUME NEW i \in DOMAIN c, ToPlace(ia.fn, c[i], x) PROVE i # m /\ i \in DOMAIN c2
      BY <1>4, <2>1, <3>1 DEF ToPlace
    <3> QED
      BY <1>4, <3>1
  <2> QED
    BY <2>3, <2>4, <2>5 DEF Pending, Unplaced
<1>20. ASSUME NEW x \in {s.first} \cup s.others
       PROVE  /\ Pending(c2, ia.fn, OwnBlock(ia.fn, l, x))
              /\ x # s.first => Unplaced(c2, ia.fn, OwnBlock(ia.fn, l, x))
  <2>1. \A j \in DOMAIN t : j # 1 => \E k2 \in DOMAIN c2[m].todo : c2[m].todo[k2] = t[j]
    BY <1>2, <1>4
  <2>2. \E k \in DOMAIN c2[m].todo : IsAt(c2[m].todo[k], x)
    BY <1>8, <2>1
  <2>3. x # s.first => \E k \in DOMAIN c2[m].todo : IsPlace(c2[m].todo[k], x)
    BY <1>8, <2>1
  <2>4. ToEnter(ia.fn, c2[m], OwnBlock(ia.fn, l, x))
    BY <1>2, <2>2 DEF ToEnter, IsAt
  <2>5. x # s.first => ToPlace(ia.fn, c2[m], OwnBlock(ia.fn, l, x))
    BY <1>2, <2>3 DEF ToPlace, IsPlace
  <2> QED
    BY <1>4, <2>4, <2>5 DEF Pending, Unplaced
<1>21. PlacedInTime(c2, bl2, ia)
  <2>1. ASSUME NEW x \in DOMAIN bl2, ~bl2[x].placed PROVE Unplaced(c2, ia.fn, x)
    <3>1. CASE x \in DOMAIN bl
      BY <1>1, <1>11, <1>19, <2>1, <3>1 DEF PlacedInTime
    <3>2. CASE x \in made
      <4>1. PICK y \in {s.first} \cup s.others : x = OwnBlock(ia.fn, l, y)
        BY <3>2
      <4>2. y # s.first
        BY <1>11, <2>1, <4>1
      <4> QED
        BY <1>20, <4>1, <4>2
    <3> QED
      BY <1>11, <3>1, <3>2
  <2> QED
    BY <1>6, <1>11, <2>1 DEF PlacedInTime
<1>22. \A x \in made : Pending(c2, ia.fn, x)
  BY <1>20
<1>23. EndedInTime(c2, bl2, ia)
  <2>1. ASSUME NEW x \in DOMAIN bl2
        PROVE  /\ bl2[x].ends = 0 => bl2[x].next = {} /\ (x = ia \/ Pending(c2, ia.fn, x))
               /\ Pending(c2, ia.fn, x) => bl2[x].ends = 0 /\ x # ia
    <3>1. CASE x \in DOMAIN bl
      <4>1. /\ bl[x].ends = 0 => bl[x].next = {} /\ (x = ia \/ Pending(c, ia.fn, x))
            /\ Pending(c, ia.fn, x) => bl[x].ends = 0 /\ x # ia
        BY <1>1, <3>1 DEF EndedInTime
      <4> QED
        BY <1>11, <1>19, <3>1, <4>1
    <3>2. CASE x \in made
      BY <1>6, <1>10, <1>11, <1>22, <3>2
    <3> QED
      BY <1>11, <3>1, <3>2
  <2> QED
    BY <2>1 DEF EndedInTime
<1>24. Reached(c2, bl2, ia)
  <2>1. ASSUME NEW x \in DOMAIN bl2 PROVE Pending(c2, ia.fn, x) \/ LeadsTo(bl2, OwnBlock(x.fn, 0, "entry"), x)
    <3>1. CASE x \in DOMAIN bl
      <4>1. Pending(c, ia.fn, x) \/ LeadsTo(bl, OwnBlock(x.fn, 0, "entry"), x)
        BY <1>1, <3>1 DEF Reached
      <4>2. OwnBlock(x.fn, 0, "entry") \in DOMAIN bl
        BY <1>1, <3>1 DEF BlocksTyped
      <4>3. LeadsTo(bl, OwnBlock(x.fn, 0, "entry"), x) => LeadsTo(bl2, OwnBlock(x.fn, 0, "entry"), x)
        BY <1>12, <4>2, GrowsLeads
      <4> QED
        BY <1>19, <3>1, <4>1, <4>3
    <3> QED
      BY <1>11, <1>22, <3>1
  <2> QED
    BY <2>1 DEF Reached
<1>25. Leaving(bl2)
  <2>1. SUFFICES ASSUME NEW S \in SUBSET DOMAIN bl2, ClosedIn(bl2, S), S # {} PROVE \E x \in S : bl2[x].next = {}
    BY DEF Leaving
  <2>2. CASE \E x \in S : x \in made
    BY <1>11, <2>2
  <2>3. CASE \A x \in S : x \notin made
    <3>1. S \cap DOMAIN bl = S
      BY <1>11, <2>1, <2>3
    <3>2. ClosedIn(bl, S) /\ S \in SUBSET DOMAIN bl
      BY <1>12, <2>1, <3>1, GrowsClosed
    <3>3. PICK x \in S : bl[x].next = {}
      BY <1>1, <2>1, <3>2 DEF Leaving
    <3> QED
      BY <1>11, <3>2, <3>3
  <2> QED
    BY <2>2, <2>3
<1> QED
  BY <1>13, <1>14, <1>15, <1>16, <1>17, <1>18, <1>21, <1>23, <1>24, <1>25 DEF Well

(* A function starts when nothing of another one is left to enter or to      *)
(* place: only frames of declarations are below and on top.                  *)
LEMMA CalmPending ==
    ASSUME NEW c, \A i \in DOMAIN c : Calm(c[i].todo), NEW fn, NEW x
    PROVE  ~Pending(c, fn, x) /\ ~Unplaced(c, fn, x)
BY DEF Calm, Pending, Unplaced, ToEnter, ToPlace

LEMMA EnterCalm ==
    ASSUME NEW c, NEW c2, NEW m, NEW s, NEW b, NEW l, Frames(c), Onward(c, c2, m, s, b, l), s.do = "enter",
           NEW bl, FunctionsApart(c, bl)
    PROVE  /\ \A i \in DOMAIN c : Calm(c[i].todo)
           /\ \A i \in DOMAIN c2 : Calm(c2[i].todo)
           /\ Fresh(bl, s.name)
<1>1. /\ m \in DOMAIN c /\ m \in Nat /\ 1 \in DOMAIN c[m].todo
      /\ \A i \in DOMAIN c2 : i \in DOMAIN c /\ (i # m => c2[i] = c[i])
      /\ \A i \in DOMAIN c2 : \A k \in DOMAIN c2[i].todo : \E k2 \in DOMAIN c[i].todo : c2[i].todo[k] = c[i].todo[k2]
  BY OnwardSteps
<1>2. s = c[m].todo[1] /\ m >= 1
  BY DEF Onward
<1>3. /\ c[m].node.cls = "ASTFunction" /\ s.name = c[m].node.names[1] /\ Fresh(bl, c[m].node.names[1])
  BY <1>1, <1>2 DEF FunctionsApart
<1>4. DOMAIN c = 1 .. m
  <2>1. DOMAIN c = 1 .. Len(c) /\ Len(c) \in Nat
    BY ListFacts DEF Frames
  <2>2. Len(c) = m \/ Len(c) = m + 1
    BY DEF Onward
  <2>3. m \notin 1 .. Len(c) - 1
    BY <1>2 DEF Frames
  <2>4. Len(c) # m + 1
    BY <1>1, <1>2, <2>3
  <2> QED
    BY <2>1, <2>2, <2>4
<1>5. \A i \in 1 .. m - 1 : c[i].node.cls \in {"ASTProgram", "ASTFunction"}
  BY <1>1, <1>3 DEF Frames, OuterClasses
<1>6. ASSUME NEW i \in DOMAIN c PROVE Calm(c[i].todo)
  <2>1. i = m \/ i \in 1 .. m - 1
    BY <1>1, <1>4
  <2>2. c[i].node.cls \in OuterClasses
    BY <1>3, <1>5, <2>1 DEF OuterClasses
  <2> QED
    BY <2>2 DEF FunctionsApart
<1>7. \A i \in DOMAIN c2 : Calm(c2[i].todo)
  BY <1>1, <1>6 DEF Calm
<1> QED
  BY <1>3, <1>6, <1>7

LEMMA WellEnter ==
    ASSUME NEW c, NEW c2, NEW m, NEW s, NEW l, NEW bl, NEW ia, NEW ln, Frames(c), Well(c, bl, ia, ln),
           Onward(c, c2, m, s, l, l), s.do = "enter",
           NEW ia2, ia2 = OwnBlock(s.name, 0, "entry"),
           NEW bl2, Made(bl, {ia2}, ia2, bl2)
    PROVE  Well(c2, bl2, ia2, ln)
<1>1. /\ BlocksTyped(bl, ia, ln) /\ LabelsApart(c, ln) /\ FramesLaid(c, bl, ia) /\ FramesFlow(c, bl, ia)
      /\ PlacedInTime(c, bl, ia) /\ EndedInTime(c, bl, ia) /\ Reached(c, bl, ia)
      /\ HeadersLead(c, bl, ia) /\ Leaving(bl) /\ FunctionsApart(c, bl) /\ ToCompile(c, bl)
  BY DEF Well
<1>2. Onward(c, c2, m, s, l, l) /\ ln \in Nat /\ s.do = "enter" /\ Opens(s)
  BY <1>1 DEF BlocksTyped, Opens
<1>3. /\ \A i \in DOMAIN c : Calm(c[i].todo)
      /\ \A i \in DOMAIN c2 : Calm(c2[i].todo)
      /\ Fresh(bl, s.name)
  BY <1>1, <1>2, EnterCalm
<1>4. \A fn, x : /\ ~Pending(c, fn, x) /\ ~Unplaced(c, fn, x)
                 /\ ~Pending(c2, fn, x) /\ ~Unplaced(c2, fn, x)
  BY <1>3, CalmPending
<1>5. ~Live(bl, ia)
  BY <1>1, <1>2, OnwardNeeds
<1>6. ia2.fn = s.name /\ ia2.label = 0 /\ ia2.name = "entry"
  BY OwnApart
<1>7. ia2 \notin DOMAIN bl
  BY <1>3, <1>6 DEF Fresh
<1>8. /\ DOMAIN bl2 = DOMAIN bl \cup {ia2} /\ \A x \in DOMAIN bl : bl2[x] = bl[x]
      /\ bl2[ia2].ends = 0 /\ bl2[ia2].next = {} /\ bl2[ia2] = Block3(bl2[ia2])
      /\ bl2[ia2].placed
  BY <1>7 DEF Made
<1>9. Grows(bl, bl2)
  <2>1. \A x \in DOMAIN bl : bl[x].next \subseteq DOMAIN bl
    BY <1>1 DEF BlocksTyped
  <2> QED
    BY <1>8, <2>1 DEF Grows
<1>10. BlocksTyped(bl2, ia2, ln)
  <2>1. ASSUME NEW x \in DOMAIN bl2
        PROVE  /\ x = OwnBlock(x.fn, x.label, x.name) /\ x.label \in 0 .. ln
               /\ x.label = 0 => x.name = "entry"
               /\ x.label # 0 => x.name \in Labels
               /\ OwnBlock(x.fn, 0, "entry") \in DOMAIN bl2
               /\ bl2[x] = Block3(bl2[x]) /\ bl2[x].ends \in {0, 1}
               /\ \A d \in bl2[x].next : d \in DOMAIN bl2 /\ d.fn = x.fn
    <3>1. CASE x \in DOMAIN bl
      <4>1. /\ x = OwnBlock(x.fn, x.label, x.name) /\ x.label \in 0 .. ln
            /\ x.label = 0 => x.name = "entry"
            /\ x.label # 0 => x.name \in Labels
            /\ OwnBlock(x.fn, 0, "entry") \in DOMAIN bl
            /\ bl[x].ends \in {0, 1} /\ bl[x] = Block3(bl[x])
            /\ \A d \in bl[x].next : d \in DOMAIN bl /\ d.fn = x.fn
        BY <1>1, <3>1 DEF BlocksTyped
      <4> QED
        BY <1>8, <3>1, <4>1
    <3>2. CASE x = ia2
      <4>1. 0 \in 0 .. ln
        BY <1>2
      <4> QED
        BY <1>6, <1>8, <3>2, <4>1
    <3> QED
      BY <1>8, <3>1, <3>2
  <2>2. IsFiniteSet(DOMAIN bl)
    BY <1>1 DEF BlocksTyped
  <2>3. IsFiniteSet(DOMAIN bl \cup {ia2})
    BY <2>2, FS_AddElement
  <2>4. IsFiniteSet(DOMAIN bl2) /\ ia2 \in DOMAIN bl2
    BY <1>8, <2>3
  <2> QED
    BY <1>2, <2>1, <2>4 DEF BlocksTyped
<1>11. LabelsApart(c2, ln)
  BY <1>1, <1>2, OnwardLabels
<1>12. FramesLaid(c2, bl2, ia2)
  BY <1>3, CalmLaid DEF FramesLaid, FrameLaid, Calm
<1>13. FramesFlow(c2, bl2, ia2)
  <2>1. Live(bl2, ia2)
    BY <1>8 DEF Live
  <2> QED
    BY <1>1, <1>2, <2>1, OnwardFlow
<1>14. HeadersLead(c2, bl2, ia2)
  BY <1>3, CalmLaid DEF HeadersLead
<1>15. FunctionsApart(c2, bl2) /\ ToCompile(c2, bl2)
  <2>1. FreshStays(bl, bl2, s)
    BY <1>2, <1>6, <1>8 DEF Fresh, FreshStays
  <2> QED
    BY <1>1, <1>2, <2>1, OnwardFunctions
<1>16. PlacedInTime(c2, bl2, ia2)
  BY <1>1, <1>4, <1>8 DEF PlacedInTime
<1>17. EndedInTime(c2, bl2, ia2)
  <2>1. ASSUME NEW x \in DOMAIN bl PROVE bl2[x].ends # 0
    <3>1. bl[x].ends = 0 => x = ia
      BY <1>1, <1>4 DEF EndedInTime
    <3>2. bl[x].ends # 0
      BY <1>5, <3>1 DEF Live
    <3> QED
      BY <1>8, <3>2
  <2> QED
    BY <1>4, <1>8, <2>1 DEF EndedInTime
<1>18. Reached(c2, bl2, ia2)
  <2>1. ASSUME NEW x \in DOMAIN bl PROVE LeadsTo(bl2, OwnBlock(x.fn, 0, "entry"), x)
    <3>1. LeadsTo(bl, OwnBlock(x.fn, 0, "entry"), x)
      BY <1>1, <1>4 DEF Reached
    <3>2. OwnBlock(x.fn, 0, "entry") \in DOMAIN bl
      BY <1>1 DEF BlocksTyped
    <3> QED
      BY <1>9, <3>1, <3>2, GrowsLeads
  <2>2. LeadsTo(bl2, OwnBlock(ia2.fn, 0, "entry"), ia2)
    <3>1. OwnBlock(ia2.fn, 0, "entry") = ia2
      BY <1>6
    <3> QED
      BY <3>1 DEF LeadsTo
  <2> QED
    BY <1>8, <2>1, <2>2 DEF Reached
<1>19. Leaving(bl2)
  <2>1. SUFFICES ASSUME NEW S \in SUBSET DOMAIN bl2, ClosedIn(bl2, S), S # {} PROVE \E x \in S : bl2[x].next = {}
    BY DEF Leaving
  <2>2. CASE ia2 \in S
    BY <1>8, <2>2
  <2>3. CASE ia2 \notin S
    <3>1. S \cap DOMAIN bl = S
      BY <1>8, <2>1, <2>3
    <3>2. ClosedIn(bl, S) /\ S \in SUBSET DOMAIN bl
      BY <1>9, <2>1, <3>1, GrowsClosed
    <3>3. PICK x \in S : bl[x].next = {}
      BY <1>1, <2>1, <3>2 DEF Leaving
    <3> QED
      BY <1>8, <3>2, <3>3
  <2> QED
    BY <2>2, <2>3
<1> QED
  BY <1>10, <1>11, <1>12, <1>13, <1>14, <1>15, <1>16, <1>17, <1>18, <1>19 DEF Well

(* A codegen() that is called starts with blocks of its own still to make.    *)
Called(c, c2, n, f) ==
    /\ n = Len(c) /\ n \in Nat /\ n >= 1 /\ DOMAIN c = 1 .. n /\ DOMAIN c2 = 1 .. n + 1 /\ Len(c2) = n + 1
    /\ c # << >> /\ c2 # << >>
    /\ \A i \in 1 .. n : c2[i] = c[i]
    /\ c2[n + 1] = f /\ IsList(f.todo)
    /\ 1 \in DOMAIN c[n].todo /\ c[n].todo[1].do = "codegen"
    /\ c[n].todo[1].child \in 1 .. Len(c[n].node.kids)
    /\ f.node = c[n].node.kids[c[n].todo[1].child] /\ f.label = 0 /\ Starts(f.node, f.todo)

LEMMA CalledFrames ==
    ASSUME NEW c, NEW c2, NEW n, NEW f, Called(c, c2, n, f)
    PROVE  /\ n \in DOMAIN c /\ n \in Nat /\ n >= 1 /\ n + 1 \in DOMAIN c2 /\ n + 1 \notin DOMAIN c /\ c2[n + 1] = f
           /\ \A i \in DOMAIN c : i \in DOMAIN c2 /\ c2[i] = c[i]
           /\ \A i \in DOMAIN c2 : i = n + 1 \/ i \in DOMAIN c
<1>1. n \in Nat /\ n >= 1 /\ DOMAIN c = 1 .. n /\ DOMAIN c2 = 1 .. n + 1
  BY DEF Called
<1>2. n \in 1 .. n /\ n + 1 \in 1 .. n + 1 /\ n + 1 \notin 1 .. n
  BY <1>1
<1>3. /\ \A i \in 1 .. n : i \in 1 .. n + 1
      /\ \A i \in 1 .. n + 1 : i = n + 1 \/ i \in 1 .. n
  BY <1>1
<1> QED
  BY <1>1, <1>2, <1>3 DEF Called

LEMMA CallPending ==
    ASSUME NEW c, NEW c2, NEW n, NEW f, Called(c, c2, n, f), NEW bl, NEW ia, NEW ln, BlocksTyped(bl, ia, ln),
           NEW x \in DOMAIN bl
    PROVE  /\ Pending(c2, ia.fn, x) <=> Pending(c, ia.fn, x)
           /\ Unplaced(c2, ia.fn, x) <=> Unplaced(c, ia.fn, x)
<1>1. f.label = 0 /\ Laid(f.todo, {}, {}, {}, {})
  BY DEF Called, Starts
<1>2. \A k \in DOMAIN f.todo : f.todo[k].do \in {"at", "place"} => f.todo[k].block \in Labels
  BY <1>1 DEF Laid, LaidNames, IsAt, IsPlace
<1>3. \A y \in Labels : x # OwnBlock(ia.fn, 0, y)
  BY NotYet
<1>4. ~ToEnter(ia.fn, f, x) /\ ~ToPlace(ia.fn, f, x)
  BY <1>1, <1>2, <1>3 DEF ToEnter, ToPlace
<1> QED
  BY <1>4, CalledFrames DEF Pending, Unplaced

LEMMA CallFlow ==
    ASSUME NEW c, NEW c2, NEW n, NEW f, Called(c, c2, n, f), NEW bl, NEW ia, FramesFlow(c, bl, ia),
           f.node.cls # "ASTProgram"
    PROVE  FramesFlow(c2, bl, ia)
<1>1. PICK s, nd, t : s = t[1] /\ nd = c[n].node /\ t = c[n].todo
  OBVIOUS
<1>2. n \in DOMAIN c /\ n = Len(c) /\ 1 \in DOMAIN t /\ s.do = "codegen" /\ f.node = nd.kids[s.child]
  <2>1. n \in DOMAIN c
    BY CalledFrames
  <2> QED
    BY <1>1, <2>1 DEF Called
<1>3. PICK dead : Flows(nd, t, dead) /\ (1 \in dead <=> ~Live(bl, ia))
  BY <1>1, <1>2 DEF FramesFlow
<1>4. f.node.cls = "ASTFunction" <=> ~Live(bl, ia)
  <2>1. /\ NeedsOpen(nd, t[1]) => 1 \notin dead
        /\ OfFunction(nd, t[1]) => 1 \in dead
    BY <1>2, <1>3 DEF Flows
  <2>2. OfFunction(nd, t[1]) <=> f.node.cls = "ASTFunction"
    BY <1>1, <1>2 DEF OfFunction
  <2>3. OfFunction(nd, t[1]) \/ NeedsOpen(nd, t[1])
    BY <1>1, <1>2 DEF NeedsOpen
  <2> QED
    BY <1>3, <2>1, <2>2, <2>3
<1>5. PICK dead2 : Flows(f.node, f.todo, dead2) /\ (1 \in dead2 <=> f.node.cls \in {"ASTProgram", "ASTFunction"})
  BY DEF Called, Starts
<1>6. 1 \in dead2 <=> ~Live(bl, ia)
  BY <1>4, <1>5
<1>7. ASSUME NEW i \in DOMAIN c2
      PROVE  \E d : Flows(c2[i].node, c2[i].todo, d) /\ (i = Len(c2) => (1 \in d <=> ~Live(bl, ia)))
  <2>1. CASE i = n + 1
    BY <1>5, <1>6, <2>1, CalledFrames
  <2>2. CASE i \in DOMAIN c
    <3>1. i # Len(c2) /\ c2[i] = c[i]
      <4>1. i # n + 1 /\ c2[i] = c[i]
        BY <2>2, CalledFrames
      <4>2. Len(c2) = n + 1
        BY DEF Called
      <4> QED
        BY <4>1, <4>2
    <3> QED
      BY <2>2, <3>1 DEF FramesFlow
  <2> QED
    BY <2>1, <2>2, CalledFrames
<1>8. c2 # << >>
  BY DEF Called
<1> QED
  BY <1>7, <1>8 DEF FramesFlow

LEMMA CallLeads ==
    ASSUME NEW c, NEW c2, NEW n, NEW f, Called(c, c2, n, f), NEW bl, NEW ia, HeadersLead(c, bl, ia)
    PROVE  HeadersLead(c2, bl, ia)
<1>1. Laid(f.todo, {}, {}, {}, {}) /\ IsList(f.todo)
  BY DEF Called, Starts
<1>2. ~InHeader(f.todo)
  BY <1>1, InHeaderMade DEF Laid
<1>3. ASSUME NEW i \in DOMAIN c2, InHeader(c2[i].todo), NEW S \in SUBSET DOMAIN bl,
             ClosedIn(bl, S), OwnBlock(ia.fn, c2[i].label, "header") \in S
      PROVE  LeadsOn(c2, ia, S, i)
  <2>1. i \in DOMAIN c /\ c2[i] = c[i]
    BY <1>2, <1>3, CalledFrames
  <2>2. LeadsOn(c, ia, S, i)
    BY <1>3, <2>1 DEF HeadersLead
  <2>3. ASSUME NEW j \in DOMAIN c2, j > i, NEW k \in DOMAIN c2[j].todo, c2[j].todo[k].do = "at"
        PROVE  \/ OwnBlock(ia.fn, c2[j].label, c2[j].todo[k].block) \in S
               \/ \E l \in 1 .. k - 1 : BranchesTo(c2[j].todo[l], c2[j].todo[k].block)
    <3>1. CASE j = n + 1
      <4>1. c2[j] = f
        BY <3>1, CalledFrames
      <4>2. \E l \in 1 .. k - 1 : BranchesTo(f.todo[l], f.todo[k].block)
        BY <1>1, <2>3, <4>1 DEF Laid, LaidAts
      <4> QED
        BY <4>1, <4>2
    <3>2. CASE j \in DOMAIN c
      <4>1. c2[j] = c[j]
        BY <3>2, CalledFrames
      <4> QED
        BY <2>2, <2>3, <3>2, <4>1 DEF LeadsOn
    <3> QED
      BY <3>1, <3>2, CalledFrames
  <2>4. ia \in S
    BY <2>2 DEF LeadsOn
  <2> QED
    BY <2>3, <2>4 DEF LeadsOn
<1> QED
  BY <1>3 DEF HeadersLead

LEMMA CallFunctions ==
    ASSUME NEW c, NEW c2, NEW n, NEW f, Called(c, c2, n, f), NEW bl, Frames(c), Frames(c2),
           FunctionsApart(c, bl), ToCompile(c, bl)
    PROVE  FunctionsApart(c2, bl) /\ ToCompile(c2, bl) /\ f.node.cls # "ASTProgram"
<1>1. /\ n \in DOMAIN c /\ n \in Nat /\ n >= 1 /\ n + 1 \in DOMAIN c2 /\ n + 1 \notin DOMAIN c /\ c2[n + 1] = f
      /\ \A i \in DOMAIN c : i \in DOMAIN c2 /\ c2[i] = c[i]
      /\ \A i \in DOMAIN c2 : i = n + 1 \/ i \in DOMAIN c
  BY CalledFrames
<1>2. PICK s, nd : s = c[n].todo[1] /\ nd = c[n].node
  OBVIOUS
<1>3. /\ nd \in Nodes /\ s.child \in 1 .. Len(nd.kids) /\ f.node = nd.kids[s.child] /\ Starts(f.node, f.todo)
      /\ 1 \in DOMAIN c[n].todo /\ s.do = "codegen" /\ n = Len(c) /\ Len(c2) = n + 1 /\ c # << >> /\ c2 # << >>
  BY <1>1, <1>2 DEF Called, Frames
<1>4. /\ nd.cls = "ASTProgram" <=> n = 1
      /\ nd.cls = "ASTProgram" => f.node.cls = "ASTFunction"
      /\ nd.cls = "ASTFunction" => f.node.cls \notin {"ASTProgram", "ASTFunction"}
  <2>1. nd.cls = "ASTProgram" <=> n = 1
    BY <1>1, <1>2 DEF FunctionsApart
  <2> QED
    BY <1>3, <2>1, OuterKids
<1>5. f.node.cls \in OuterClasses => nd.cls \in {"ASTProgram", "ASTFunction"}
  <2>1. n \in 1 .. (n + 1) - 1
    BY <1>1
  <2>2. c2[n + 1].node.cls \in OuterClasses => c2[n].node.cls \in {"ASTProgram", "ASTFunction"}
    BY <1>1, <2>1 DEF Frames
  <2> QED
    BY <1>1, <1>2, <2>2
<1>6. f.node.cls # "ASTProgram" /\ (f.node.cls = "ASTFunction" => n = 1)
  BY <1>4, <1>5 DEF OuterClasses
<1>7. f.node.cls = "ASTFunction" => Fresh(bl, f.node.names[1])
  <2>1. SUFFICES ASSUME n = 1 PROVE Fresh(bl, f.node.names[1])
    BY <1>6
  <2>2. c[1].todo[1] = s /\ c[1].node = nd /\ 1 \in DOMAIN c[1].todo /\ ~(1 = 1 /\ Len(c) > 1)
    BY <1>2, <1>3, <2>1
  <2> QED
    BY <1>3, <2>2 DEF ToCompile
<1>8. FunctionsApart(c2, bl)
  <2>1. ASSUME NEW i \in DOMAIN c2
        PROVE  /\ c2[i].node.cls = "ASTProgram" <=> i = 1
               /\ \A k \in DOMAIN c2[i].todo : c2[i].todo[k].do = "enter" =>
                     /\ k = 1 /\ c2[i].node.cls = "ASTFunction"
                     /\ c2[i].todo[k].name = c2[i].node.names[1] /\ Fresh(bl, c2[i].node.names[1])
               /\ c2[i].node.cls \in OuterClasses => Calm(c2[i].todo)
    <3>1. CASE i = n + 1
      <4>1. i # 1 /\ c2[i] = f
        BY <1>1, <3>1
      <4>2. /\ f.node.cls \in OuterClasses => Calm(f.todo)
            /\ \A k \in DOMAIN f.todo : f.todo[k].do = "enter" =>
                  k = 1 /\ f.node.cls = "ASTFunction" /\ f.todo[k].name = f.node.names[1]
        BY <1>3 DEF Starts
      <4> QED
        BY <1>6, <1>7, <4>1, <4>2
    <3>2. CASE i \in DOMAIN c
      <4>1. c2[i] = c[i]
        BY <1>1, <3>2
      <4> QED
        BY <3>2, <4>1 DEF FunctionsApart
    <3> QED
      BY <1>1, <3>1, <3>2
  <2> QED
    BY <2>1 DEF FunctionsApart
<1>9. ToCompile(c2, bl)
  <2>1. c2[1] = c[1] /\ Len(c2) > 1
    <3>1. 1 \in DOMAIN c
      BY <1>1 DEF Called
    <3>2. n + 1 > 1
      BY <1>1
    <3> QED
      BY <1>1, <1>3, <3>1, <3>2
  <2>2. ASSUME NEW k \in DOMAIN c[1].todo, c[1].todo[k].do = "codegen"
        PROVE  /\ c[1].todo[k].child \in DOMAIN c[1].node.kids
               /\ k = 1 \/ Fresh(bl, c[1].node.kids[c[1].todo[k].child].names[1])
               /\ \A j \in DOMAIN c[1].todo :
                     c[1].todo[j].do = "codegen" /\ c[1].todo[j].child = c[1].todo[k].child => j = k
    BY <1>3, <2>2 DEF ToCompile
  <2> QED
    BY <2>1, <2>2 DEF ToCompile
<1> QED
  BY <1>6, <1>8, <1>9

LEMMA WellCall ==
    ASSUME NEW c, NEW c2, NEW n, NEW f, NEW bl, NEW ia, NEW ln, Called(c, c2, n, f), Frames(c), Frames(c2),
           Well(c, bl, ia, ln)
    PROVE  Well(c2, bl, ia, ln)
<1>1. /\ BlocksTyped(bl, ia, ln) /\ LabelsApart(c, ln) /\ FramesLaid(c, bl, ia) /\ FramesFlow(c, bl, ia)
      /\ PlacedInTime(c, bl, ia) /\ EndedInTime(c, bl, ia) /\ Reached(c, bl, ia)
      /\ HeadersLead(c, bl, ia) /\ Leaving(bl) /\ FunctionsApart(c, bl) /\ ToCompile(c, bl)
  BY DEF Well
<1>2. /\ n + 1 \in DOMAIN c2 /\ c2[n + 1] = f /\ f.label = 0
      /\ \A i \in DOMAIN c2 : i = n + 1 \/ (i \in DOMAIN c /\ c2[i] = c[i])
  <2>1. f.label = 0
    BY DEF Called
  <2> QED
    BY <2>1, CalledFrames
<1>3. FunctionsApart(c2, bl) /\ ToCompile(c2, bl) /\ f.node.cls # "ASTProgram"
  BY <1>1, CallFunctions
<1>4. LabelsApart(c2, ln)
  <2>1. 0 \in 0 .. ln
    BY <1>1 DEF BlocksTyped
  <2> QED
    BY <1>1, <1>2, <2>1 DEF LabelsApart
<1>5. FramesLaid(c2, bl, ia)
  <2>1. FrameLaid(bl, ia.fn, f)
    <3>1. Laid(f.todo, {}, {}, {}, {})
      BY DEF Called, Starts
    <3> QED
      BY <1>2, <3>1, MoreLaid DEF FrameLaid
  <2> QED
    BY <1>1, <1>2, <2>1 DEF FramesLaid
<1>6. FramesFlow(c2, bl, ia)
  BY <1>1, <1>3, CallFlow
<1>7. HeadersLead(c2, bl, ia)
  BY <1>1, CallLeads
<1>8. \A x \in DOMAIN bl : /\ Pending(c2, ia.fn, x) <=> Pending(c, ia.fn, x)
                           /\ Unplaced(c2, ia.fn, x) <=> Unplaced(c, ia.fn, x)
  BY <1>1, CallPending
<1>9. PlacedInTime(c2, bl, ia) /\ EndedInTime(c2, bl, ia) /\ Reached(c2, bl, ia)
  BY <1>1, <1>8 DEF PlacedInTime, EndedInTime, Reached
<1> QED
  BY <1>1, <1>3, <1>4, <1>5, <1>6, <1>7, <1>9 DEF Well

(* At the end nothing is left to do, and no block is open.                   *)
LEMMA WellEmptied ==
    ASSUME NEW c, NEW bl, NEW ia, NEW ln, Frames(c), Len(c) = 1, c[1].todo = << >>, Well(c, bl, ia, ln)
    PROVE  Well(<< >>, bl, ia, ln)
<1>1. /\ BlocksTyped(bl, ia, ln) /\ LabelsApart(c, ln) /\ FramesLaid(c, bl, ia) /\ FramesFlow(c, bl, ia)
      /\ PlacedInTime(c, bl, ia) /\ EndedInTime(c, bl, ia) /\ Reached(c, bl, ia)
      /\ HeadersLead(c, bl, ia) /\ Leaving(bl) /\ FunctionsApart(c, bl) /\ ToCompile(c, bl)
  BY DEF Well
<1>2. DOMAIN c = 1 .. 1 /\ \A i : i \notin DOMAIN << >>
  BY ListFacts DEF Frames
<1>3. \A i \in DOMAIN c : i = 1 /\ \A k : k \notin DOMAIN c[i].todo
  BY <1>2
<1>4. /\ \A fn, x : ~Pending(c, fn, x) /\ ~Unplaced(c, fn, x)
      /\ \A fn, x : ~Pending(<< >>, fn, x) /\ ~Unplaced(<< >>, fn, x)
  BY <1>2, <1>3 DEF Pending, Unplaced, ToEnter, ToPlace
<1>5. ~Live(bl, ia)
  <2>1. PICK nd, t : nd = c[1].node /\ t = c[1].todo /\ t = << >>
    OBVIOUS
  <2>2. nd.cls = "ASTProgram"
    BY <1>1, <1>2, <2>1 DEF FunctionsApart
  <2>3. PICK dead : Flows(nd, t, dead) /\ (1 \in dead <=> ~Live(bl, ia))
    BY <1>1, <1>2, <2>1 DEF FramesFlow
  <2>4. Len(t) + 1 = 1
    BY <2>1
  <2> QED
    BY <2>2, <2>3, <2>4 DEF Flows, EndedAfter
<1>6. /\ LabelsApart(<< >>, ln) /\ FramesLaid(<< >>, bl, ia) /\ HeadersLead(<< >>, bl, ia)
      /\ FunctionsApart(<< >>, bl) /\ ToCompile(<< >>, bl)
  BY <1>2 DEF LabelsApart, FramesLaid, HeadersLead, FunctionsApart, ToCompile
<1>7. FramesFlow(<< >>, bl, ia)
  BY <1>2, <1>5 DEF FramesFlow
<1>8. PlacedInTime(<< >>, bl, ia) /\ EndedInTime(<< >>, bl, ia) /\ Reached(<< >>, bl, ia)
  BY <1>1, <1>4 DEF PlacedInTime, EndedInTime, Reached
<1> QED
  BY <1>1, <1>6, <1>7, <1>8 DEF Well

-----------------------------------------------------------------------------
(* The steps of the code generator are steps of the stack.                   *)
LEMMA WellStart ==
    ASSUME NEW c, NEW f, f.node \in Nodes, f.node.cls = "ASTProgram", f.label = 0, Starts(f.node, f.todo),
           f.todo = ASTProgram(f.node), DOMAIN c = 1 .. 1, Len(c) = 1, c[1] = f,
           NEW bl, DOMAIN bl = {}, NEW ia, ia = NoBlock
    PROVE  Well(c, bl, ia, 0)
<1>1. \A i \in DOMAIN c : i = 1 /\ c[i] = f
  OBVIOUS
<1>2. c # << >> /\ 1 \in DOMAIN c /\ ~Live(bl, ia)
  BY DEF Live
<1>3. BlocksTyped(bl, ia, 0)
  BY FS_EmptySet DEF BlocksTyped
<1>4. LabelsApart(c, 0)
  BY <1>1 DEF LabelsApart
<1>5. FramesLaid(c, bl, ia)
  <2>1. Laid(f.todo, {}, {}, {}, {})
    BY DEF Starts
  <2> QED
    BY <1>1, <2>1, MoreLaid DEF FramesLaid, FrameLaid
<1>6. FramesFlow(c, bl, ia)
  <2>1. PICK dead : Flows(f.node, f.todo, dead) /\ 1 \in dead
    BY DEF Starts
  <2> QED
    BY <1>1, <1>2, <2>1 DEF FramesFlow
<1>7. PlacedInTime(c, bl, ia) /\ EndedInTime(c, bl, ia) /\ Reached(c, bl, ia)
  BY DEF PlacedInTime, EndedInTime, Reached
<1>8. HeadersLead(c, bl, ia) /\ Leaving(bl)
  BY DEF HeadersLead, Leaving
<1>9. FunctionsApart(c, bl)
  <2>1. /\ Calm(f.todo)
        /\ \A k \in DOMAIN f.todo : f.todo[k].do = "enter" => f.node.cls = "ASTFunction"
    BY DEF Starts, OuterClasses
  <2> QED
    BY <1>1, <2>1 DEF FunctionsApart
<1>10. ToCompile(c, bl)
  <2>1. PICK n, t, z : n = f.node /\ t = f.todo /\ z = Len(n.kids)
    OBVIOUS
  <2>2. /\ IsList(t) /\ Len(t) = z + 1 /\ z \in Nat /\ DOMAIN n.kids = 1 .. z
        /\ \A k \in 1 .. z : t[k] = Gen(k, "function")
        /\ t[z + 1].do = "known"
    BY <2>1, ProgramStarts, NodeFacts
  <2>3. \A k \in DOMAIN t : k \in 1 .. z \/ k = z + 1
    BY <2>2, ListFacts
  <2>4. \A k \in DOMAIN t : t[k].do = "codegen" => k \in 1 .. z /\ t[k].child = k
    <3>1. \A k \in 1 .. z : Gen(k, "function").child = k
      BY DEF Gen
    <3> QED
      BY <2>2, <2>3, <3>1
  <2>5. \A x : Fresh(bl, x)
    BY DEF Fresh
  <2>6. c[1].todo = t /\ c[1].node = n
    BY <2>1
  <2> QED
    BY <2>2, <2>4, <2>5, <2>6 DEF ToCompile
<1> QED
  BY <1>3, <1>4, <1>5, <1>6, <1>7, <1>8, <1>9, <1>10 DEF Well

LEMMA FramesOf ==
    ASSUME NEW c, IsList(c), \A i \in DOMAIN c : FrameOK(c[i]),
           \A i \in 1 .. Len(c) - 1 : c[i].todo # << >> /\ Head(c[i].todo).do = "codegen",
           \A i \in 1 .. Len(c) - 1 : c[i + 1].node = c[i].node.kids[Head(c[i].todo).child],
           \A i \in DOMAIN c : c[i].node.cls \in OuterClasses =>
              \A j \in 1 .. (i - 1) : c[j].node.cls \in {"ASTProgram", "ASTFunction"}
    PROVE  Frames(c)
<1>1. \A i \in DOMAIN c : c[i].node \in Nodes /\ IsList(c[i].todo)
  BY DEF FrameOK
<1>2. DOMAIN c = 1 .. Len(c) /\ Len(c) \in Nat
  BY ListFacts
<1>3. ASSUME NEW i \in 1 .. Len(c) - 1
      PROVE  /\ c[i].todo # << >> /\ c[i].todo[1].do = "codegen"
             /\ c[i].todo[1].child \in 1 .. Len(c[i].node.kids)
             /\ c[i + 1].node = c[i].node.kids[c[i].todo[1].child]
  <2>1. i \in DOMAIN c
    BY <1>2
  <2>2. FrameOK(c[i]) /\ c[i].todo # << >> /\ Head(c[i].todo).do = "codegen"
    BY <2>1
  <2>3. Head(c[i].todo).child \in 1 .. Len(c[i].node.kids)
    BY <2>2, ChildIsNode
  <2>4. Head(c[i].todo) = c[i].todo[1]
    BY <2>2 DEF Head
  <2> QED
    BY <2>2, <2>3, <2>4
<1> QED
  BY <1>1, <1>3 DEF Frames

LEMMA FramesFollow == ASSUME Stack, TypingInv PROVE Frames(calls)
<1>1. PICK c : c = calls
  OBVIOUS
<1>2. /\ IsList(c) /\ \A i \in DOMAIN c : FrameOK(c[i])
      /\ \A i \in 1 .. Len(c) - 1 : c[i].todo # << >> /\ Head(c[i].todo).do = "codegen"
  BY <1>1 DEF Stack
<1>3. \A i \in 1 .. Len(c) - 1 : c[i + 1].node = c[i].node.kids[Head(c[i].todo).child]
  BY <1>1 DEF TypingInv, LinkedFrames
<1>4. \A i \in DOMAIN c : c[i].node.cls \in OuterClasses =>
              \A j \in 1 .. (i - 1) : c[j].node.cls \in {"ASTProgram", "ASTFunction"}
  BY <1>1 DEF TypingInv, OuterBelow
<1> QED
  BY <1>1, <1>2, <1>3, <1>4, FramesOf

LEMMA FramesFollowNext == ASSUME Stack', TypingInv' PROVE Frames(calls')
<1>1. PICK c : c = calls'
  OBVIOUS
<1>2. /\ IsList(c) /\ \A i \in DOMAIN c : FrameOK(c[i])
      /\ \A i \in 1 .. Len(c) - 1 : c[i].todo # << >> /\ Head(c[i].todo).do = "codegen"
  BY <1>1 DEF Stack
<1>3. \A i \in 1 .. Len(c) - 1 : c[i + 1].node = c[i].node.kids[Head(c[i].todo).child]
  BY <1>1 DEF TypingInv, LinkedFrames
<1>4. \A i \in DOMAIN c : c[i].node.cls \in OuterClasses =>
              \A j \in 1 .. (i - 1) : c[j].node.cls \in {"ASTProgram", "ASTFunction"}
  BY <1>1 DEF TypingInv, OuterBelow
<1> QED
  BY <1>1, <1>2, <1>3, <1>4, FramesOf

LEMMA AdvanceOnward ==
    ASSUME Stack, NEW d, Running(d), d # "codegen", NEW v, NEW b,
           (Advance(v) /\ b = Top.label) \/ (Relabel(b) /\ v = Top.local),
           NEW c, c = calls, NEW c2, c2 = calls', NEW m, m = Len(calls), NEW s, s = Step, NEW l, l = Top.label
    PROVE  Onward(c, c2, m, s, l, b) /\ s.do = d
<1>1. calls # << >> /\ Top.todo # << >> /\ Step.do = d
  BY DEF Running
<1>2. /\ m \in Nat /\ m >= 1 /\ Top = c[m]
  BY <1>1, TopFacts
<1>3. /\ IsList(calls') /\ Len(calls') = Len(calls) /\ calls' # << >>
      /\ FirstFrames(Len(calls) - 1) /\ Moved(Len(calls))
      /\ calls'[Len(calls)].label = b /\ calls'[Len(calls)].local = v
  BY <1>1, ReplaceTop
<1>4. IsList(c2) /\ Len(c2) = m /\ (\A i \in 1 .. m - 1 : c2[i] = c[i]) /\ c2[m].label = b
  BY <1>3 DEF FirstFrames
<1>5. c[m].todo # << >> /\ c2[m].todo = Tail(c[m].todo) /\ c2[m].node = c[m].node
  BY <1>3 DEF Moved
<1>6. DOMAIN c2 = 1 .. m
  BY <1>4, ListFacts
<1>7. s = c[m].todo[1] /\ s.do = d /\ l = c[m].label /\ Len(c) = m
  BY <1>1, <1>2, <1>5 DEF Step, Head
<1> QED
  BY <1>2, <1>4, <1>5, <1>6, <1>7 DEF Onward

LEMMA ReturnOnward ==
    ASSUME Stack, Returns, Len(calls) > 1,
           NEW c, c = calls, NEW c2, c2 = calls', NEW m, m = Len(calls) - 1,
           NEW s, s = c[m].todo[1], NEW l, l = c[m].label
    PROVE  Onward(c, c2, m, s, l, l) /\ s.do = "codegen"
<1>1. calls # << >> /\ Top.todo = << >>
  BY DEF Returns
<1>2. PICK k \in Nat : k = Len(c) /\ k >= 1 /\ Top = c[k] /\ DOMAIN c = 1 .. k
  BY <1>1, TopFacts
<1>3. m \in Nat /\ m >= 1 /\ k = m + 1 /\ m - 1 = k - 2 /\ m \in 1 .. k - 1 /\ m \in DOMAIN c
  BY <1>2
<1>4. c[m + 1].todo = << >> /\ Len(c) = m + 1
  BY <1>1, <1>2, <1>3
<1>5. /\ IsList(calls') /\ Len(calls') = Len(calls) - 1
      /\ FirstFrames(Len(calls) - 2)
      /\ Moved(m) /\ Returned(m, Top.local["result"])
  BY DEF Returns
<1>6. IsList(c2) /\ Len(c2) = m /\ (\A i \in 1 .. m - 1 : c2[i] = c[i])
  BY <1>2, <1>3, <1>5 DEF FirstFrames
<1>7. c[m].todo # << >> /\ c2[m].todo = Tail(c[m].todo) /\ c2[m].node = c[m].node /\ c2[m].label = c[m].label
  BY <1>5 DEF Moved, Returned
<1>8. DOMAIN c2 = 1 .. m
  BY <1>6, ListFacts
<1>9. Head(c[m].todo).do = "codegen"
  BY <1>2, <1>3 DEF Stack
<1>10. s.do = "codegen"
  BY <1>7, <1>9 DEF Head
<1>11. m \in Nat /\ m >= 1
  BY <1>3
<1> QED
  BY <1>4, <1>6, <1>7, <1>8, <1>10, <1>11 DEF Onward

LEMMA CallCalled ==
    ASSUME Stack, TypingInv, Calls, NEW c, c = calls, NEW c2, c2 = calls', NEW n, n = Len(calls),
           NEW f, f = calls'[Len(calls) + 1]
    PROVE  Called(c, c2, n, f)
<1>1. calls # << >> /\ Top.todo # << >> /\ Step.do = "codegen"
  BY DEF Calls, Running
<1>2. /\ n \in Nat /\ n >= 1 /\ DOMAIN c = 1 .. n /\ Top = c[n] /\ FrameOK(c[n])
  BY <1>1, TopFacts
<1>3. PICK k : k = Top.node.kids[Step.child] /\ k \in Nodes /\ f = Frame(k)
  BY DEF Calls
<1>4. /\ IsList(c2) /\ Len(c2) = n + 1 /\ \A i \in 1 .. n : c2[i] = c[i]
  BY DEF Calls, FirstFrames
<1>5. DOMAIN c2 = 1 .. n + 1
  BY <1>4, ListFacts
<1>6. /\ f.node = k /\ f.label = 0 /\ f.todo = codegen(k) /\ IsList(f.todo)
  <2>1. f.node = k /\ f.label = 0 /\ f.todo = codegen(k)
    BY <1>3 DEF Frame
  <2>2. FrameOK(f)
    BY <1>3, NewFrame
  <2> QED
    BY <2>1, <2>2 DEF FrameOK
<1>7. Starts(f.node, f.todo)
  <2>1. lValueGen \in BOOLEAN
    BY DEF TypingInv
  <2> QED
    BY <1>3, <1>6, <2>1, CodegenStarts
<1>8. Step = c[n].todo[1] /\ 1 \in DOMAIN c[n].todo
  <2>1. Step = c[n].todo[1]
    BY <1>1, <1>2 DEF Step, Head
  <2>2. IsList(c[n].todo) /\ c[n].todo # << >>
    BY <1>1, <1>2 DEF FrameOK
  <2> QED
    BY <2>1, <2>2, ListFacts
<1>9. Step.child \in 1 .. Len(c[n].node.kids)
  BY <1>1, <1>2, ChildIsNode DEF Step
<1>10. c2 # << >>
  <2>1. Len(c2) # 0
    BY <1>2, <1>4
  <2> QED
    BY <2>1
<1>11. f = c2[n + 1] /\ c # << >>
  BY <1>1
<1> QED
  BY <1>1, <1>2, <1>3, <1>4, <1>5, <1>6, <1>7, <1>8, <1>9, <1>10, <1>11 DEF Called

-----------------------------------------------------------------------------
WellNow == Well(calls, blocks, insertAt, labelNum)

LEMMA WellInit == Init => WellNow
<1> SUFFICES ASSUME Init PROVE WellNow
  OBVIOUS
<1>1. Len(calls) = 1 /\ Stack
  BY StackInit
<1>2. PICK p \in Programs : calls[1] = Frame(p)
  BY StackInit
<1>3. PICK f : f = Frame(p)
  OBVIOUS
<1>4. DOMAIN calls = 1 .. 1
  BY <1>1, ListFacts DEF Stack
<1>5. p \in Nodes /\ p.cls = "ASTProgram"
  BY NodesAssumption
<1>6. f.node = p /\ f.label = 0 /\ f.todo = codegen(p)
  BY <1>3 DEF Frame
<1>7. f.todo = ASTProgram(f.node)
  BY <1>5, <1>6, CodegenCases
<1>8. Starts(f.node, f.todo)
  <2>1. lValueGen \in BOOLEAN
    BY DEF Init
  <2> QED
    BY <1>5, <1>6, <2>1, CodegenStarts
<1>9. DOMAIN blocks = {} /\ insertAt = NoBlock /\ labelNum = 0
  BY DEF Init
<1>10. Well(calls, blocks, insertAt, 0)
  <2>1. /\ f.node \in Nodes /\ f.node.cls = "ASTProgram" /\ calls[1] = f
    BY <1>2, <1>3, <1>5, <1>6
  <2> QED
    BY <1>1, <1>4, <1>6, <1>7, <1>8, <1>9, <2>1, WellStart
<1> QED
  BY <1>9, <1>10 DEF WellNow

(* A step that makes no block and moves nowhere.                             *)
LEMMA QuietNow ==
    ASSUME Stack, TypingInv, WellNow, NEW d, Running(d),
           d \notin {"codegen", "enter", "blocks", "place", "at", "terminate"},
           NEW v, Advance(v), UNCHANGED <<blocks, insertAt, labelNum>>
    PROVE  WellNow'
<1>1. PICK c, c2, m, s, l : c = calls /\ c2 = calls' /\ m = Len(calls) /\ s = Step /\ l = Top.label
  OBVIOUS
<1>2. Onward(c, c2, m, s, l, l) /\ s.do = d
  BY <1>1, AdvanceOnward
<1>3. Frames(c) /\ Well(c, blocks, insertAt, labelNum)
  BY <1>1, FramesFollow DEF WellNow
<1>4. Well(c2, blocks, insertAt, labelNum)
  BY <1>2, <1>3, WellQuiet
<1> QED
  BY <1>1, <1>4 DEF WellNow

LEMMA ReturnNow ==
    ASSUME Stack, TypingInv, WellNow, ReturnValue PROVE WellNow'
<1>1. Returns /\ UNCHANGED <<blocks, insertAt, labelNum>>
  BY ReturnShape DEF ReturnValue
<1>2. calls # << >> /\ Top.todo = << >>
  BY DEF ReturnValue
<1>3. PICK c, c2 : c = calls /\ c2 = calls'
  OBVIOUS
<1>4. Frames(c) /\ Well(c, blocks, insertAt, labelNum)
  BY <1>3, FramesFollow DEF WellNow
<1>5. PICK k \in Nat : k = Len(c) /\ k >= 1 /\ c[k].todo = << >>
  BY <1>2, <1>3, TopFacts
<1>6. CASE k = 1
  <2>1. calls' = << >>
    BY <1>3, <1>5, <1>6 DEF ReturnValue
  <2>2. Well(<< >>, blocks, insertAt, labelNum)
    BY <1>4, <1>5, <1>6, WellEmptied
  <2> QED
    BY <1>1, <2>1, <2>2 DEF WellNow
<1>7. CASE k # 1
  <2>1. PICK m, s, l : m = Len(calls) - 1 /\ s = c[m].todo[1] /\ l = c[m].label
    OBVIOUS
  <2>2. Len(calls) > 1
    BY <1>3, <1>5, <1>7
  <2>3. Onward(c, c2, m, s, l, l) /\ s.do = "codegen"
    BY <1>1, <1>3, <2>1, <2>2, ReturnOnward
  <2>4. Well(c2, blocks, insertAt, labelNum)
    BY <1>4, <2>3, WellQuiet
  <2> QED
    BY <1>1, <1>3, <2>4 DEF WellNow
<1> QED
  BY <1>6, <1>7

LEMMA CallNow ==
    ASSUME Stack, TypingInv, Stack', TypingInv', WellNow, CallCodegen PROVE WellNow'
<1>1. Calls /\ UNCHANGED <<blocks, insertAt, labelNum>>
  BY CallShape DEF CallCodegen
<1>2. PICK c, c2, n, f : c = calls /\ c2 = calls' /\ n = Len(calls) /\ f = calls'[Len(calls) + 1]
  OBVIOUS
<1>3. Called(c, c2, n, f)
  BY <1>1, <1>2, CallCalled
<1>4. Frames(c) /\ Frames(c2) /\ Well(c, blocks, insertAt, labelNum)
  BY <1>2, FramesFollow, FramesFollowNext DEF WellNow
<1>5. Well(c2, blocks, insertAt, labelNum)
  BY <1>3, <1>4, WellCall
<1> QED
  BY <1>1, <1>2, <1>5 DEF WellNow

LEMMA EnterNow ==
    ASSUME Stack, TypingInv, WellNow, StartFunction PROVE WellNow'
<1>1. Running("enter") /\ Advance(Top.local) /\ UNCHANGED labelNum
  BY DEF StartFunction
<1>2. PICK c, c2, m, s, l, bl, bl2, ia, ia2 :
         /\ c = calls /\ c2 = calls' /\ m = Len(calls) /\ s = Step /\ l = Top.label
         /\ bl = blocks /\ bl2 = blocks' /\ ia = insertAt /\ ia2 = insertAt'
  OBVIOUS
<1>3. Onward(c, c2, m, s, l, l) /\ s.do = "enter"
  BY <1>1, <1>2, AdvanceOnward
<1>4. Frames(c) /\ Well(c, bl, ia, labelNum)
  BY <1>2, FramesFollow DEF WellNow
<1>5. ia2 = OwnBlock(s.name, 0, "entry") /\ bl2 = Assign(bl, ia2, OpenBlock(TRUE))
  BY <1>2 DEF StartFunction, OwnBlock
<1>6. Made(bl, {ia2}, ia2, bl2)
  <2>1. PICK r : r = OpenBlock(TRUE)
    OBVIOUS
  <2>2. r.ends = 0 /\ r.next = {} /\ r = Block3(r) /\ r.placed
    BY <2>1, OpenFields
  <2>3. DOMAIN bl2 = DOMAIN bl \cup {ia2} /\ bl2[ia2] = r /\ \A b \in DOMAIN bl : b # ia2 => bl2[b] = bl[b]
    BY <1>5, <2>1 DEF Assign
  <2> QED
    BY <2>2, <2>3 DEF Made
<1>7. Well(c2, bl2, ia2, labelNum)
  BY <1>3, <1>4, <1>5, <1>6, WellEnter
<1> QED
  BY <1>1, <1>2, <1>7 DEF WellNow

LEMMA BlocksNow ==
    ASSUME Stack, TypingInv, WellNow, CreateBlocks PROVE WellNow'
<1>1. PICK c, c2, m, s, b, l, bl, bl2, ia :
         /\ c = calls /\ c2 = calls' /\ m = Len(calls) /\ s = Step /\ b = Top.label /\ l = labelNum'
         /\ bl = blocks /\ bl2 = blocks' /\ ia = insertAt
  OBVIOUS
<1>2. Running("blocks") /\ Relabel(l) /\ insertAt' = ia /\ l = labelNum + 1
  BY <1>1 DEF CreateBlocks, Relabel
<1>3. Onward(c, c2, m, s, b, l) /\ s.do = "blocks"
  BY <1>1, <1>2, AdvanceOnward
<1>4. Frames(c) /\ Well(c, bl, ia, labelNum)
  BY <1>1, FramesFollow DEF WellNow
<1>5. PICK made : made = {OwnBlock(ia.fn, l, x) : x \in {s.first} \cup s.others}
  OBVIOUS
<1>6. bl2 = [x \in DOMAIN bl \cup made |-> IF x \in made THEN OpenBlock(x = OwnBlock(ia.fn, l, s.first)) ELSE bl[x]]
  BY <1>1, <1>5 DEF CreateBlocks, OwnBlock
<1>7. Made(bl, made, OwnBlock(ia.fn, l, s.first), bl2)
  <2>1. DOMAIN bl2 = DOMAIN bl \cup made /\ \A x \in DOMAIN bl : x \notin made => bl2[x] = bl[x]
    BY <1>6
  <2>2. ASSUME NEW x \in made
        PROVE  /\ bl2[x].ends = 0 /\ bl2[x].next = {} /\ bl2[x] = Block3(bl2[x])
               /\ x = OwnBlock(ia.fn, l, s.first) => bl2[x].placed
    <3>1. PICK p, r : p = (x = OwnBlock(ia.fn, l, s.first)) /\ r = OpenBlock(p)
      OBVIOUS
    <3>2. bl2[x] = r
      BY <1>6, <3>1
    <3>3. r.ends = 0 /\ r.next = {} /\ r = Block3(r) /\ (p => r.placed)
      BY <3>1, OpenFields
    <3>4. x = OwnBlock(ia.fn, l, s.first) => p
      BY <3>1, Zenon
    <3>5. bl2[x].ends = 0 /\ bl2[x].next = {} /\ bl2[x] = Block3(bl2[x])
      BY <3>2, <3>3
    <3>6. p => bl2[x].placed
      BY <3>2, <3>3
    <3> QED
      BY <3>4, <3>5, <3>6, Zenon
  <2> QED
    BY <2>1, <2>2 DEF Made
<1>8. Well(c2, bl2, ia, l)
  BY <1>2, <1>3, <1>4, <1>5, <1>7, WellBlocks
<1> QED
  BY <1>1, <1>2, <1>8 DEF WellNow

LEMMA PlaceNow ==
    ASSUME Stack, TypingInv, WellNow, PlaceBlock PROVE WellNow'
<1>1. PICK c, c2, m, s, l, bl, bl2, ia :
         /\ c = calls /\ c2 = calls' /\ m = Len(calls) /\ s = Step /\ l = Top.label
         /\ bl = blocks /\ bl2 = blocks' /\ ia = insertAt
  OBVIOUS
<1>2. Running("place") /\ Advance(Top.local) /\ UNCHANGED <<insertAt, labelNum>>
  BY DEF PlaceBlock
<1>3. Onward(c, c2, m, s, l, l) /\ s.do = "place"
  BY <1>1, <1>2, AdvanceOnward
<1>4. Frames(c) /\ Well(c, bl, ia, labelNum)
  BY <1>1, FramesFollow DEF WellNow
<1>5. bl2 = [bl EXCEPT ![OwnBlock(ia.fn, l, s.block)].placed = TRUE]
  BY <1>1 DEF PlaceBlock, Block, OwnBlock
<1>6. Well(c2, bl2, ia, labelNum)
  BY <1>3, <1>4, <1>5, WellPlace
<1> QED
  BY <1>1, <1>2, <1>6 DEF WellNow

LEMMA AtNow ==
    ASSUME Stack, TypingInv, WellNow, SetInsertPoint PROVE WellNow'
<1>1. PICK c, c2, m, s, l, ia, ia2 :
         /\ c = calls /\ c2 = calls' /\ m = Len(calls) /\ s = Step /\ l = Top.label
         /\ ia = insertAt /\ ia2 = insertAt'
  OBVIOUS
<1>2. Running("at") /\ Advance(Top.local) /\ UNCHANGED <<blocks, labelNum>>
  BY DEF SetInsertPoint
<1>3. Onward(c, c2, m, s, l, l) /\ s.do = "at"
  BY <1>1, <1>2, AdvanceOnward
<1>4. Frames(c) /\ Well(c, blocks, ia, labelNum)
  BY <1>1, FramesFollow DEF WellNow
<1>5. ia2 = OwnBlock(ia.fn, l, s.block)
  BY <1>1 DEF SetInsertPoint, Block, OwnBlock
<1>6. Well(c2, blocks, ia2, labelNum)
  BY <1>3, <1>4, <1>5, WellAt
<1> QED
  BY <1>1, <1>2, <1>6 DEF WellNow

LEMMA TerminateNow ==
    ASSUME Stack, TypingInv, WellNow, EmitTerminator PROVE WellNow'
<1>1. PICK c, c2, m, s, l, bl, bl2, ia, to :
         /\ c = calls /\ c2 = calls' /\ m = Len(calls) /\ s = Step /\ l = Top.label
         /\ bl = blocks /\ bl2 = blocks' /\ ia = insertAt /\ to = {Block(x) : x \in Step.to}
  OBVIOUS
<1>2. Running("terminate") /\ Advance(Top.local) /\ UNCHANGED <<insertAt, labelNum>>
  BY DEF EmitTerminator
<1>3. Onward(c, c2, m, s, l, l) /\ s.do = "terminate"
  BY <1>1, <1>2, AdvanceOnward
<1>4. Frames(c) /\ Well(c, bl, ia, labelNum)
  BY <1>1, FramesFollow DEF WellNow
<1>5. to = {OwnBlock(ia.fn, l, x) : x \in s.to}
  BY <1>1 DEF Block, OwnBlock
<1>6. EndsIn(bl, ia, to, bl2)
  <2>1. bl2 = [bl EXCEPT ![ia].ends = @ + 1, ![ia].next = @ \cup to]
    BY <1>1 DEF EmitTerminator
  <2>2. bl2 = [bl EXCEPT ![ia] = Ended(bl[ia], to)]
    <3>1. PICK r, e : r = bl[ia] /\ e = [r EXCEPT !.ends = @ + 1, !.next = @ \cup to]
      OBVIOUS
    <3>2. bl2 = [bl EXCEPT ![ia] = e]
      BY <2>1, <3>1
    <3>3. e = Ended(r, to)
      BY <3>1 DEF Ended
    <3> QED
      BY <3>1, <3>2, <3>3
  <2>3. ia \in DOMAIN bl => bl[ia] = Block3(bl[ia])
    BY <1>4 DEF Well, BlocksTyped
  <2> QED
    BY <2>2, <2>3, TerminatingIn
<1>7. Well(c2, bl2, ia, labelNum)
  BY <1>3, <1>4, <1>5, <1>6, WellTerminate
<1> QED
  BY <1>1, <1>2, <1>7 DEF WellNow

LEMMA WellStep == Stack /\ TypingInv /\ Stack' /\ TypingInv' /\ WellNow /\ [Next]_vars => WellNow'
<1> SUFFICES ASSUME Stack, TypingInv, Stack', TypingInv', WellNow, [Next]_vars PROVE WellNow'
  OBVIOUS
<1>1. CASE CallCodegen
  BY <1>1, CallNow
<1>2. CASE ReturnValue
  BY <1>2, ReturnNow
<1>3. ASSUME NEW d, Running(d), d \notin {"codegen", "enter", "blocks", "place", "at", "terminate"},
             NEW v, Advance(v), UNCHANGED <<blocks, insertAt, labelNum>>
      PROVE  WellNow'
  BY <1>3, QuietNow
<1>4. CASE SetLValueGen
  BY <1>3, <1>4 DEF SetLValueGen
<1>5. CASE SetAllocFlag
  BY <1>3, <1>5 DEF SetAllocFlag
<1>6. CASE UseKnownValue
  BY <1>3, <1>6 DEF UseKnownValue
<1>7. CASE EmitInstruction
  BY <1>3, <1>7 DEF EmitInstruction
<1>8. CASE EmitStore
  BY <1>3, <1>8 DEF EmitStore
<1>9. CASE AddLocal
  BY <1>3, <1>9 DEF AddLocal
<1>10. CASE StartFunction
  BY <1>10, EnterNow
<1>11. CASE CreateBlocks
  BY <1>11, BlocksNow
<1>12. CASE PlaceBlock
  BY <1>12, PlaceNow
<1>13. CASE SetInsertPoint
  BY <1>13, AtNow
<1>14. CASE EmitTerminator
  BY <1>14, TerminateNow
<1>15. CASE UNCHANGED vars
  BY <1>15 DEF WellNow, vars
<1>16. CASE Done
  BY <1>15, <1>16 DEF Done
<1> QED
  BY <1>1, <1>2, <1>4, <1>5, <1>6, <1>7, <1>8, <1>9, <1>10, <1>11, <1>12, <1>13, <1>14, <1>15, <1>16 DEF Next

-----------------------------------------------------------------------------
(* Induction over the naturals as a statement about sets, from the least     *)
(* element of a set that is not empty.                                       *)
Less == {p \in Nat \X Nat : p[1] < p[2]}

LEMMA Induction ==
    ASSUME NEW S, 0 \in S, \A n \in Nat : n \in S => n + 1 \in S
    PROVE  Nat \subseteq S
<1> SUFFICES ASSUME Nat \ S # {} PROVE FALSE
  OBVIOUS
<1>1. OpToRel(<, Nat) = Less
  BY DEF OpToRel, Less
<1>2. PICK n \in Nat \ S : \A m \in Nat \ S : ~(<<m, n>> \in Less)
  BY <1>1, NatLessThanWellFounded, WFMin
<1>3. n # 0 /\ n - 1 \in Nat
  BY <1>2
<1>4. <<n - 1, n>> \in Less
  BY <1>3 DEF Less
<1>5. n - 1 \in S
  BY <1>2, <1>3, <1>4
<1> QED
  BY <1>2, <1>3, <1>5

(* From collects what branches lead to in as many rounds as there are blocks. *)
More(bl, a, S) == S \cup ((UNION {bl[x].next : x \in S}) \ {a})

LEMMA MoreFacts ==
    ASSUME NEW bl, NEW a, a \notin DOMAIN bl, \A x \in DOMAIN bl : bl[x].next \subseteq DOMAIN bl,
           NEW S, S \subseteq DOMAIN bl
    PROVE  /\ S \subseteq More(bl, a, S) /\ More(bl, a, S) \subseteq DOMAIN bl
           /\ \A x \in S : bl[x].next \subseteq More(bl, a, S)
           /\ \A y \in More(bl, a, S) : y \in S \/ \E x \in S : y \in bl[x].next
<1>1. ASSUME NEW y PROVE y \in More(bl, a, S) <=> (y \in S \/ (y # a /\ \E x \in S : y \in bl[x].next))
  <2>1. PICK Z : Z = {bl[x].next : x \in S}
    OBVIOUS
  <2>2. \A z : z \in Z <=> \E x \in S : z = bl[x].next
    BY <2>1, Zenon
  <2>3. y \in UNION Z <=> \E x \in S : y \in bl[x].next
    <3>1. y \in UNION Z <=> \E z \in Z : y \in z
      OBVIOUS
    <3>2. (\E z \in Z : y \in z) => \E x \in S : y \in bl[x].next
      BY <2>2
    <3>3. (\E x \in S : y \in bl[x].next) => \E z \in Z : y \in z
      BY <2>2
    <3> QED
      BY <3>1, <3>2, <3>3, Zenon
  <2>4. More(bl, a, S) = S \cup ((UNION Z) \ {a})
    BY <2>1, Zenon DEF More
  <2>5. y \in More(bl, a, S) <=> y \in S \/ (y \in UNION Z /\ y # a)
    <3>1. PICK W : W = UNION Z
      OBVIOUS
    <3>2. More(bl, a, S) = S \cup (W \ {a})
      BY <2>4, <3>1, Zenon
    <3> QED
      BY <3>1, <3>2
  <2> QED
    BY <2>3, <2>5, Zenon
<1>2. ASSUME NEW x \in S, NEW y \in bl[x].next PROVE y \in DOMAIN bl /\ y # a
  OBVIOUS
<1> QED
  BY <1>1, <1>2

InRounds(f, n, bl, b, a) == f = [k \in 0 .. n |-> IF k = 0 THEN {b} \ {a} ELSE More(bl, a, f[k - 1])]

LEMMA RoundsExist == ASSUME NEW bl, NEW b, NEW a PROVE \A n \in Nat : \E f : InRounds(f, n, bl, b, a)
<1> DEFINE S == {n \in Nat : \E f : InRounds(f, n, bl, b, a)}
<1>1. 0 \in S
  <2>1. InRounds([k \in 0 .. 0 |-> {b} \ {a}], 0, bl, b, a)
    BY DEF InRounds
  <2> QED
    BY <2>1
<1>2. ASSUME NEW n \in Nat, n \in S PROVE n + 1 \in S
  <2>1. PICK f : InRounds(f, n, bl, b, a)
    BY <1>2
  <2>2. PICK g : g = [k \in 0 .. n + 1 |-> IF k = 0 THEN {b} \ {a} ELSE More(bl, a, f[k - 1])]
    OBVIOUS
  <2>3. ASSUME NEW k \in 0 .. n PROVE g[k] = f[k]
    <3>1. f[k] = IF k = 0 THEN {b} \ {a} ELSE More(bl, a, f[k - 1])
      BY <2>1 DEF InRounds
    <3>2. k \in 0 .. n + 1
      OBVIOUS
    <3> QED
      BY <2>2, <3>1, <3>2
  <2>4. \A k \in 0 .. n + 1 : k # 0 => k - 1 \in 0 .. n
    OBVIOUS
  <2>5. g = [k \in 0 .. n + 1 |-> IF k = 0 THEN {b} \ {a} ELSE More(bl, a, g[k - 1])]
    BY <2>2, <2>3, <2>4
  <2>6. InRounds(g, n + 1, bl, b, a)
    BY <2>5 DEF InRounds
  <2> QED
    BY <2>6
<1> HIDE DEF S
<1>3. Nat \subseteq S
  BY <1>1, <1>2, Induction
<1> QED
  BY <1>3 DEF S

(* After the last round nothing more is found: each round before found a      *)
(* block, and there are no more than the rounds.                             *)
LEMMA RoundsClosed ==
    ASSUME NEW bl, IsFiniteSet(DOMAIN bl), NEW b \in DOMAIN bl, NEW a, a \notin DOMAIN bl,
           \A x \in DOMAIN bl : bl[x].next \subseteq DOMAIN bl,
           NEW n, n = Cardinality(DOMAIN bl), NEW f, InRounds(f, n, bl, b, a)
    PROVE  b \in f[n] /\ ClosedIn(bl, f[n])
<1>1. n \in Nat
  BY FS_CardinalityType
<1> DEFINE S == {k \in Nat : k <= n => /\ b \in f[k] /\ f[k] \subseteq DOMAIN bl
                                       /\ ClosedIn(bl, f[k]) \/ Cardinality(f[k]) >= k + 1}
<1>2. 0 \in S
  <2>1. f[0] = {b}
    BY <1>1 DEF InRounds
  <2>2. Cardinality({b}) = 1
    BY FS_Singleton
  <2>3. b \in f[0] /\ f[0] \subseteq DOMAIN bl
    BY <2>1
  <2>4. Cardinality(f[0]) >= 0 + 1
    BY <2>1, <2>2
  <2> QED
    BY <2>3, <2>4
<1>3. ASSUME NEW k \in Nat, k \in S PROVE k + 1 \in S
  <2>1. SUFFICES ASSUME k + 1 <= n
                 PROVE  /\ b \in f[k + 1] /\ f[k + 1] \subseteq DOMAIN bl
                        /\ ClosedIn(bl, f[k + 1]) \/ Cardinality(f[k + 1]) >= (k + 1) + 1
    OBVIOUS
  <2>2. PICK T : T = f[k] /\ b \in T /\ T \subseteq DOMAIN bl /\ (ClosedIn(bl, T) \/ Cardinality(T) >= k + 1)
    BY <1>1, <1>3, <2>1
  <2>3. PICK U : U = f[k + 1]
    OBVIOUS
  <2>4. U = More(bl, a, T)
    <3>1. k + 1 \in 0 .. n /\ k + 1 # 0 /\ (k + 1) - 1 = k
      BY <1>1, <2>1
    <3> QED
      BY <2>2, <2>3, <3>1 DEF InRounds
  <2>5. /\ T \subseteq U /\ U \subseteq DOMAIN bl /\ \A x \in T : bl[x].next \subseteq U
        /\ \A y \in U : y \in T \/ \E x \in T : y \in bl[x].next
    BY <2>2, <2>4, MoreFacts
  <2>6. U \subseteq DOMAIN bl /\ T \subseteq U /\ b \in U
    BY <2>2, <2>5
  <2>7. CASE U = T
    <3>1. ClosedIn(bl, U)
      BY <2>5, <2>6, <2>7 DEF ClosedIn
    <3> QED
      BY <2>3, <2>6, <3>1
  <2>8. CASE U # T
    <3>1. ~ClosedIn(bl, T)
      BY <2>5, <2>6, <2>8 DEF ClosedIn
    <3>2. IsFiniteSet(U)
      BY <2>6, FS_Subset
    <3>3. Cardinality(T) <= Cardinality(U) /\ Cardinality(U) # Cardinality(T) /\ IsFiniteSet(T)
      BY <2>6, <2>8, <3>2, FS_Subset
    <3>4. Cardinality(T) \in Nat /\ Cardinality(U) \in Nat
      BY <3>2, <3>3, FS_CardinalityType
    <3>5. Cardinality(U) >= (k + 1) + 1
      BY <2>2, <3>1, <3>3, <3>4
    <3> QED
      BY <2>3, <2>6, <3>5
  <2> QED
    BY <2>7, <2>8
<1>4. n \in S
  <2> HIDE DEF S
  <2> QED
    BY <1>1, <1>2, <1>3, Induction
<1>5. PICK T : T = f[n] /\ b \in T /\ T \subseteq DOMAIN bl /\ (ClosedIn(bl, T) \/ Cardinality(T) >= n + 1)
  BY <1>1, <1>4
<1>6. Cardinality(T) <= n /\ Cardinality(T) \in Nat
  BY <1>5, FS_Subset, FS_CardinalityType
<1>7. ClosedIn(bl, T)
  BY <1>1, <1>5, <1>6
<1> QED
  BY <1>5, <1>7

LEMMA FromClosed ==
    ASSUME IsFiniteSet(DOMAIN blocks), NEW b \in DOMAIN blocks, NEW a, a \notin DOMAIN blocks,
           \A x \in DOMAIN blocks : blocks[x].next \subseteq DOMAIN blocks
    PROVE  b \in From(b, a) /\ ClosedIn(blocks, From(b, a))
<1>1. PICK n \in Nat : n = Cardinality(DOMAIN blocks)
  BY FS_CardinalityType
<1>2. PICK f : f = CHOOSE g : InRounds(g, n, blocks, b, a)
  OBVIOUS
<1>3. From(b, a) = f[n]
  BY <1>1, <1>2 DEF From, InRounds, More
<1>4. InRounds(f, n, blocks, b, a)
  BY <1>2, RoundsExist
<1> QED
  BY <1>1, <1>3, <1>4, RoundsClosed

-----------------------------------------------------------------------------
LEMMA BlocksFollow == Stack /\ TypingInv /\ WellNow => BlocksWellFormed
<1> SUFFICES ASSUME Stack, TypingInv, WellNow PROVE BlocksWellFormed
  OBVIOUS
<1>1. PICK c, bl, ia, ln : c = calls /\ bl = blocks /\ ia = insertAt /\ ln = labelNum
  OBVIOUS
<1>2. /\ BlocksTyped(bl, ia, ln) /\ FramesFlow(c, bl, ia) /\ PlacedInTime(c, bl, ia)
      /\ EndedInTime(c, bl, ia) /\ Reached(c, bl, ia) /\ Leaving(bl)
  BY <1>1 DEF WellNow, Well
<1>3. ASSUME Appending PROVE bl[ia].placed /\ bl[ia].ends = 0
  <2>1. calls # << >> /\ Top.todo # << >> /\ Step.do \in {"emit", "store", "terminate"}
    BY <1>3 DEF Appending, Running
  <2>2. PICK m : m = Len(c) /\ m \in DOMAIN c /\ Top = c[m] /\ FrameOK(c[m])
    BY <1>1, <2>1, TopFacts
  <2>3. PICK n, t : n = c[m].node /\ t = c[m].todo
    OBVIOUS
  <2>4. 1 \in DOMAIN t /\ t[1] = Step
    <3>1. IsList(t) /\ t # << >>
      BY <2>1, <2>2, <2>3 DEF FrameOK
    <3>2. t[1] = Step
      BY <2>1, <2>2, <2>3 DEF Step, Head
    <3> QED
      BY <3>1, <3>2, ListFacts
  <2>5. PICK dead : Flows(n, t, dead) /\ (1 \in dead <=> ~Live(bl, ia))
    BY <1>2, <2>2, <2>3 DEF FramesFlow
  <2>6. NeedsOpen(n, t[1])
    BY <2>1, <2>4 DEF NeedsOpen
  <2>7. Live(bl, ia)
    BY <2>4, <2>5, <2>6 DEF Flows
  <2> QED
    BY <1>2, <2>7 DEF Live, PlacedInTime
<1>4. ASSUME c = << >>, NEW b \in DOMAIN bl
      PROVE  /\ bl[b].placed
             /\ bl[b].ends = 1
             /\ \A x \in bl[b].next : bl[x].placed /\ x.fn = b.fn
             /\ b \in From(Entry(b), NoBlock)
             /\ \E x \in From(b, NoBlock) : bl[x].next = {}
  <2>1. \A fn, x : ~Pending(c, fn, x) /\ ~Unplaced(c, fn, x)
    BY <1>4 DEF Pending, Unplaced
  <2>2. \A x \in DOMAIN bl : bl[x].placed
    BY <1>2, <2>1 DEF PlacedInTime
  <2>3. bl[b].ends = 1
    <3>1. ~Live(bl, ia)
      BY <1>2, <1>4 DEF FramesFlow
    <3>2. bl[b].ends = 0 => b = ia
      BY <1>2, <1>4, <2>1 DEF EndedInTime
    <3>3. bl[b].ends \in {0, 1}
      BY <1>2, <1>4 DEF BlocksTyped
    <3> QED
      BY <1>4, <3>1, <3>2, <3>3 DEF Live
  <2>4. /\ \A x \in bl[b].next : x \in DOMAIN bl /\ x.fn = b.fn
        /\ \A x \in DOMAIN bl : bl[x].next \subseteq DOMAIN bl
        /\ IsFiniteSet(DOMAIN bl)
    BY <1>2, <1>4 DEF BlocksTyped
  <2>5. NoBlock \notin DOMAIN bl
    BY <1>2 DEF BlocksTyped, NoBlock
  <2>6. PICK e : e = OwnBlock(b.fn, 0, "entry") /\ e \in DOMAIN bl /\ e = Entry(b)
    <3>1. b = OwnBlock(b.fn, b.label, b.name) /\ OwnBlock(b.fn, 0, "entry") \in DOMAIN bl
      BY <1>2, <1>4 DEF BlocksTyped
    <3>2. Entry(b) = OwnBlock(b.fn, 0, "entry")
      <4>1. PICK f, l, x : b = [fn |-> f, label |-> l, name |-> x]
        BY <3>1 DEF OwnBlock
      <4>2. b.fn = f
        BY <4>1
      <4>3. Entry(b) = [fn |-> f, label |-> 0, name |-> "entry"]
        <5>1. PICK r : r = [fn |-> f, label |-> 0, name |-> x]
          OBVIOUS
        <5>2. [b EXCEPT !.label = 0] = r
          BY <4>1, <5>1
        <5>3. [r EXCEPT !.name = "entry"] = [fn |-> f, label |-> 0, name |-> "entry"]
          BY <5>1
        <5> QED
          BY <5>2, <5>3 DEF Entry
      <4> QED
        BY <4>2, <4>3 DEF OwnBlock
    <3> QED
      BY <3>1, <3>2
  <2>7. e \in From(e, NoBlock) /\ ClosedIn(bl, From(e, NoBlock))
    BY <1>1, <2>4, <2>5, <2>6, FromClosed
  <2>8. b \in From(b, NoBlock) /\ ClosedIn(bl, From(b, NoBlock))
    BY <1>1, <1>4, <2>4, <2>5, FromClosed
  <2>9. b \in From(e, NoBlock)
    <3>1. LeadsTo(bl, e, b)
      BY <1>2, <1>4, <2>1, <2>6 DEF Reached
    <3> QED
      BY <2>7, <3>1 DEF LeadsTo, ClosedIn
  <2>10. \E x \in From(b, NoBlock) : bl[x].next = {}
    BY <1>2, <2>8 DEF Leaving, ClosedIn
  <2> QED
    BY <2>2, <2>3, <2>4, <2>6, <2>9, <2>10
<1> QED
  BY <1>1, <1>3, <1>4 DEF BlocksWellFormed

(* Whatever program is compiled, nothing is appended to a block that is       *)
(* terminated or in no function, and in the module every block is in its      *)
(* function, ends in one terminator that branches within the function, can be *)
(* reached from the entry and leads to a return, however the codegen()s of    *)
(* nested statements and expressions move the insert point.                  *)
THEOREM BlocksStayWellFormed == Spec => []BlocksWellFormed
<1>1. Spec => []AllocInv
  BY AllocInit, AllocStep, PTL DEF Spec
<1>2. AllocInv => Stack
  BY DEF AllocInv
<1>3. Spec => []TypingInv
  BY <1>1, <1>2, TypingInit, TypingStep, PTL DEF Spec
<1>4. Spec => []WellNow
  BY <1>1, <1>2, <1>3, WellInit, WellStep, PTL DEF Spec
<1> QED
  BY <1>1, <1>2, <1>3, <1>4, BlocksFollow, PTL
=============================================================================
