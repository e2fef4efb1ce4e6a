------------------------------ MODULE Containers ------------------------------
(***************************************************************************)
(* A program with an object of one type: a queue, a binary search tree or  *)
(* a graph of util, a list, tuple or str that is indexed, or a range.      *)
(* They share nothing, so one is there at a time.                          *)
(***************************************************************************)
EXTENDS Integers, Sequences

CONSTANTS
    Value, Iter, Cell, NULL, MaxPop,    \* of Queue
    Key, Val, Caller,                   \* of SearchTree
    Name, MaxDegree, MaxAdded,          \* of Graph
    MaxLen, MaxIndex, MaxStep,          \* of Indexing
    Half, Beyond, MaxStride, MaxGiven   \* of Ranges

ASSUME KeyAssumption == Key \subseteq Int
ASSUME BoundsAssumption ==
    /\ {MaxPop, MaxDegree, MaxAdded, MaxLen, MaxIndex, MaxStep, Beyond, MaxGiven} \subseteq Nat
    /\ {Half, MaxStride} \subseteq Nat \ {0}

VARIABLES
    object,
    list, cur, passed, given,
    root, items, call, answer, walk, begun, seen,
    nodes, before, how, start, todo, visited, found, over, added,
    kind, widths, asked, parts, pos,
    range, use_ci, counter, done, yielded

Q == INSTANCE Queue
T == INSTANCE SearchTree
G == INSTANCE Graph
I == INSTANCE Indexing
R == INSTANCE Ranges

queueVars == <<list, cur, passed, given>>
treeVars == <<root, items, call, answer, walk, begun, seen>>
graphVars == <<nodes, before, how, start, todo, visited, found, over, added>>
sequenceVars == <<kind, widths, asked, parts, pos>>
rangeVars == <<range, use_ci, counter, done, yielded>>
vars == <<object, queueVars, treeVars, graphVars, sequenceVars, rangeVars>>

(* A graph without nodes, whose walk has ended; an empty list; a range that *)
(* has been iterated over                                                  *)
NoGraph ==
    /\ nodes = <<>> /\ before = <<>> /\ how = "bfs" /\ start = NULL /\ todo = <<>>
    /\ visited = {} /\ found = <<>> /\ over = TRUE /\ added = 0
NoSequence == kind = "array" /\ widths = <<>> /\ asked = I!Nothing /\ parts = <<>> /\ pos = 0
NoRange ==
    /\ range = [start |-> 0, end |-> 0, step |-> 1] /\ use_ci = TRUE
    /\ counter = 0 /\ done = TRUE /\ yielded = <<>>

Init ==
    /\ Q!Init /\ T!Init
    /\ \/ object \in {"Queue", "BST"} /\ NoGraph /\ NoSequence /\ NoRange
       \/ object = "Graph" /\ G!Init /\ NoSequence /\ NoRange
       \/ object = "sequence" /\ I!Init /\ NoGraph /\ NoRange
       \/ object = "range" /\ R!Init /\ NoGraph /\ NoSequence

QueueStep ==
    object = "Queue" /\ Q!Next /\ UNCHANGED <<object, treeVars, graphVars, sequenceVars, rangeVars>>
TreeStep ==
    object = "BST" /\ T!Next /\ UNCHANGED <<object, queueVars, graphVars, sequenceVars, rangeVars>>
GraphStep ==
    object = "Graph" /\ G!Next /\ UNCHANGED <<object, queueVars, treeVars, sequenceVars, rangeVars>>
SequenceStep ==
    object = "sequence" /\ I!Next /\ UNCHANGED <<object, queueVars, treeVars, graphVars, rangeVars>>
RangeStep ==
    object = "range" /\ R!Next /\ UNCHANGED <<object, queueVars, treeVars, graphVars, sequenceVars>>

Next == QueueStep \/ TreeStep \/ GraphStep \/ SequenceStep \/ RangeStep

Spec == Init /\ [][Next]_vars

(* A program goes on asking for the next node until there is none. *)
WalkStep ==
    /\ object = "Graph" /\ (G!TB_next \/ G!TD_next)
    /\ UNCHANGED <<object, queueVars, treeVars, sequenceVars, rangeVars>>

FairSpec == Spec /\ WF_vars(WalkStep)

-----------------------------------------------------------------------------
(* What the modules say of themselves. *)
ImplementsFifo == Q!ImplementsFifo
ImplementsSortedMap == T!ImplementsSortedMap
SearchesAll == object = "Graph" => G!SearchesAll
WalkEnds == G!WalkEnds
PartsAsMeant == object = "sequence" => I!PartsAsMeant
RangesAsMeant == object = "range" => R!RangesAsMeant
=============================================================================
