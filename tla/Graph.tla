--------------------------------- MODULE Graph --------------------------------
(***************************************************************************)
(* The walks over a util.Graph, src/src/modules/util/graph.c: iterators    *)
(* for breadth first and depth first search, over nodes whose neighbours   *)
(* may become more between two calls, and need not be nodes.               *)
(***************************************************************************)
EXTENDS Integers, FiniteSets, Sequences, SequencesExt

CONSTANTS Name,         \* what may be a node
          MaxDegree,    \* neighbours of a node at the beginning
          MaxAdded      \* neighbours are added this many times

VARIABLES
    nodes,      \* the neighbours of each node, in the order they were added
    before,     \* the same, when the walk began
    how,        \* it goes: "bfs" or "dfs"
    start,      \* where from
    todo,       \* its queue or stack
    visited,    \* its set
    found,      \* what it has given
    over,       \* it has ended
    added       \* how often a neighbour was added

vars == <<nodes, before, how, start, todo, visited, found, over, added>>

(* Sequences of some of Name *)
Neighbours == UNION {SetToSeqs(s) : s \in {t \in SUBSET Name : Cardinality(t) <= MaxDegree}}

(* The constructor takes edges to what is no node, too. *)
Init ==
    /\ \E present \in SUBSET Name : nodes \in [present -> Neighbours]
    /\ before = nodes
    /\ how \in {"bfs", "dfs"}
    /\ start \in Name
    /\ todo \in {<<start>>} \cup (IF nodes = <<>> THEN {<<>>} ELSE {})
    /\ visited = {} /\ found = <<>> /\ over = FALSE /\ added = 0

(* g[u][v] = val *)
Link(u, v) ==
    /\ added < MaxAdded /\ ~over
    /\ u \in DOMAIN nodes /\ v \notin ToSet(nodes[u])
    /\ nodes' = [nodes EXCEPT ![u] = Append(@, v)]
    /\ added' = added + 1
    /\ UNCHANGED <<before, how, start, todo, visited, found, over>>

Unvisited(n, but) == SelectSeq(nodes[n], LAMBDA x : x \notin visited \cup but)

Ends == over' = TRUE /\ UNCHANGED <<todo, visited, found>>

(* Mutant: it is looked at, and not taken. *)
FailsKeeps(rest) == UNCHANGED <<todo, visited, found, over>>

(* What comes next is no node, and KeyError is thrown. *)
Fails(rest) == todo' = rest /\ UNCHANGED <<visited, found, over>>

Gives(n, rest, marked) ==
    /\ found' = Append(found, n)
    /\ visited' = visited \cup marked
    /\ todo' = rest
    /\ UNCHANGED over

(* The neighbours are marked, not the node: where the walk starts it may   *)
(* come again (graph.c:404-453).                                           *)
TB_next ==
    /\ how = "bfs" /\ ~over
    /\ IF todo = <<>> THEN Ends
       ELSE LET n == Head(todo)
            IN IF n \notin DOMAIN nodes THEN Fails(Tail(todo))
               ELSE Gives(n, Tail(todo) \o Unvisited(n, {}), ToSet(nodes[n]))
    /\ UNCHANGED <<nodes, before, how, start, added>>

RECURSIVE Unseen(_)
(* The stack without the visited nodes on its top. *)
Unseen(stk) ==
    IF stk # <<>> /\ Last(stk) \in visited THEN Unseen(Front(stk)) ELSE stk

(* Mutant: what was put on the stack is not asked for again. *)
TD_nextSeen ==
    /\ how = "dfs" /\ ~over
    /\ IF todo = <<>> THEN Ends
       ELSE LET n == Last(todo)
            IN IF n \notin DOMAIN nodes THEN Fails(Front(todo))
               ELSE Gives(n, Front(todo) \o Unvisited(n, {n}), {n})
    /\ UNCHANGED <<nodes, before, how, start, added>>

TD_next ==
    /\ how = "dfs" /\ ~over
    /\ LET stk == Unseen(todo)
       IN IF stk = <<>> THEN Ends
          ELSE LET n == Last(stk)
               IN IF n \notin DOMAIN nodes THEN Fails(Front(stk))
                  ELSE Gives(n, Front(stk) \o Unvisited(n, {n}), {n})
    /\ UNCHANGED <<nodes, before, how, start, added>>

Next ==
    \/ \E u, v \in Name : Link(u, v)
    \/ TB_next
    \/ TD_next

Spec == Init /\ [][Next]_vars

-----------------------------------------------------------------------------
Onward(g, s) == s \cup {n \in DOMAIN g : \E m \in s \cap DOMAIN g : n \in ToSet(g[m])}

RECURSIVE Within(_, _)
(* The nodes that d edges from the start, or fewer, lead to. *)
Within(g, d) == IF d = 0 THEN {start} \cap DOMAIN g ELSE Onward(g, Within(g, d - 1))

Reached(g) == Within(g, Cardinality(Name))
Distance(n) == CHOOSE d \in 0 .. Cardinality(Name) :
    n \in Within(nodes, d) /\ (d > 0 => n \notin Within(nodes, d - 1))

RECURSIVE Preorder(_, _)
(* What was given, and then all that the nodes in s, from the last to the  *)
(* first, lead to.                                                         *)
Preorder(s, given) ==
    IF s = <<>> THEN given
    ELSE LET n == Last(s)
             rest == Front(s)
         IN IF n \in ToSet(given) \/ n \notin DOMAIN nodes THEN Preorder(rest, given)
            ELSE Preorder(rest, Preorder(nodes[n], Append(given, n)))

Times(n) == Cardinality({i \in DOMAIN found : found[i] = n})

(* A walk gives nothing twice, but for the start of a search in breadth,   *)
(* and when it ends it has given every node that could be reached when it  *)
(* began, and none that cannot be now.  If no edge came meanwhile, a       *)
(* search in depth went down before it went on, and a search in breadth    *)
(* went from near to far (graph.c:404-556).                                *)
SearchesAll ==
    /\ \A n \in ToSet(found) : Times(n) <= IF how = "bfs" /\ n = start THEN 2 ELSE 1
    /\ over => Reached(before) \subseteq ToSet(found) /\ ToSet(found) \subseteq Reached(nodes)
    /\ (added = 0 /\ how = "dfs" /\ over) => found = Preorder(<<start>>, <<>>)
    /\ (added = 0 /\ how = "bfs") =>
          \A i, j \in DOMAIN found : i < j /\ found[j] # start => Distance(found[i]) <= Distance(found[j])

(* Every walk ends, whatever circles the edges make and whatever is added  *)
(* to them, at most MaxAdded times.                                        *)
WalkEnds == <>over
=============================================================================
