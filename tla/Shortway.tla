------------------------------ MODULE Shortway ------------------------------
(***************************************************************************)
(* The path finder of creatures (TShortway): a search from the destination *)
(* back to the creature, which stands at the origin of the coordinates.    *)
(* A step costs the waypoints of the field it leads to, a diagonal step    *)
(* three times as much.  Fields that cannot be walked on have -1           *)
(* waypoints, and the destination may be one of them.                      *)
(***************************************************************************)
EXTENDS Integers, Sequences, FiniteSets, SequencesExt

CONSTANTS
    VisibleX, VisibleY,
    Slow,                   \* waypoints of a field that is not a fast one
    MaxUneven,              \* bound: fields that are blocked or slow
    Infinity,               \* INT_MAX
    Few                     \* a number of steps after which an attacker looks again

VARIABLES
    Waypoints,
    Waylength, Heuristic, Predecessor,
    ToExpand,               \* the list at FirstToExpand
    dest, MustReach, MaxSteps,
    goPath,                 \* the TDGo entries
    searching,
    notInList               \* history: "Node is not in the ExpandList."

mapVars == <<Waypoints, dest, MustReach, MaxSteps>>
shortVars == <<Waypoints, Waylength, Heuristic, Predecessor, ToExpand, dest, MustReach, MaxSteps,
               goPath, searching, notInList>>

Abs(n) == IF n < 0 THEN -n ELSE n
Larger(a, b) == IF a > b THEN a ELSE b
Field == (-VisibleX .. VisibleX) \X (-VisibleY .. VisibleY)
Point == (-VisibleX - 1 .. VisibleX + 1) \X (-VisibleY - 1 .. VisibleY + 1)
Origin == <<0, 0>>
Null == <<>>
Distance(p, q) == Larger(Abs(p[1] - q[1]), Abs(p[2] - q[2]))
Passable == {p \in Field : Waypoints[p] # -1}
MinWaypoints ==
    LET W == {Waypoints[p] : p \in Passable}
    IN IF W = {} THEN 1000 ELSE CHOOSE w \in W : \A v \in W : w <= v

\* FillMap and ClearMap.  The points around the visible fields keep the values
\* of their constructor.
FillMap(blocked, slow) ==
    [p \in Point |-> IF p \in blocked \/ p \notin Field THEN -1 ELSE IF p \in slow THEN Slow ELSE 1]

ClearMap(first) ==
    /\ Waylength = [p \in Point |-> CASE p = first -> 0 [] p \in Field -> Infinity [] OTHER -> -1]
    /\ Heuristic = [p \in Point |-> IF p \in Field THEN Infinity ELSE -1]
    /\ Predecessor = [p \in Point |-> Null]

\* The calls of ToDoGo that get to Calculate.  With MustReach the destination is
\* one of search_flight_field, a diagonal step away, which MovePossible allows as
\* it does in FillMap: all others are one straight step away and need no path.  A
\* monster that flees passes INT_MAX, TCombat -1.  Without MustReach the
\* destination may be blocked, as that of an attack is by its target, and the
\* limit is 3, the distance less 4, or none.  A destination out of sight fails
\* at once.
ToDoGo ==
    \/ /\ MustReach
       /\ Distance(Origin, dest) = 1 /\ Waypoints[dest] # -1
       /\ MaxSteps \in {-1, Infinity}
    \/ /\ ~MustReach
       /\ Distance(Origin, dest) > 1
       /\ MaxSteps \in {Few, Infinity}

ShortInit ==
    /\ dest \in {p \in Field : p[1] >= 0 /\ p[2] >= 0 /\ p[1] + p[2] >= 2}
    /\ \E uneven \in {S \in SUBSET Field : Cardinality(S) <= MaxUneven} :
          \E blocked \in SUBSET uneven : Waypoints = FillMap(blocked, uneven \ blocked)
    /\ MustReach \in BOOLEAN /\ MaxSteps \in {-1, Few, Infinity}
    /\ ToDoGo
    /\ ClearMap(dest)
    /\ ToExpand = <<dest>>
    /\ goPath = <<>> /\ searching = TRUE /\ notInList = FALSE

-----------------------------------------------------------------------------
Offsets == << <<-1, -1>>, <<-1, 0>>, <<-1, 1>>, <<0, -1>>, <<0, 1>>, <<1, -1>>, <<1, 0>>, <<1, 1>> >>

\* The list is kept in the order of the heuristic.
Insert(list, h, p) ==
    LET before == SelectSeq(list, LAMBDA q : h[q] < h[p])
    IN before \o <<p>> \o SubSeq(list, Len(before) + 1, Len(list))

\* A neighbour that is reached on a shorter way.  s is the state of the search.
Improve(s, node, p, length) ==
    LET h == [s.Heuristic EXCEPT ![p] =
                 length + Waypoints[p] + MinWaypoints * (Abs(p[1]) + Abs(p[2]) - 1)]
        t == [s EXCEPT !.Waylength[p] = length, !.Predecessor[p] = node]
        rest == SelectSeq(s.list, LAMBDA q : q # p)
    IN IF p # Origin /\ Waypoints[p] # -1
       THEN [t EXCEPT !.Heuristic = h, !.list = Insert(rest, h, p),
                      !.missing = @ \/ (s.Heuristic[p] # Infinity /\ rest = s.list)]
       ELSE t

\* Mutant: a diagonal step costs no more than a straight one.
BugNeighbor(s, node, o) ==
    LET p == <<node[1] + o[1], node[2] + o[2]>>
        length == Waylength[node] + Waypoints[node]
    IN IF length < s.Waylength[p] THEN Improve(s, node, p, length) ELSE s

Neighbor(s, node, o) ==
    LET p == <<node[1] + o[1], node[2] + o[2]>>
        length == Waylength[node] + Waypoints[node] * (IF o[1] # 0 /\ o[2] # 0 THEN 3 ELSE 1)
    IN IF length < s.Waylength[p] THEN Improve(s, node, p, length) ELSE s

Expand ==
    /\ ToExpand # <<>>
    /\ LET node == Head(ToExpand)
           s == [Waylength |-> Waylength, Heuristic |-> Heuristic, Predecessor |-> Predecessor,
                 list |-> Tail(ToExpand), missing |-> notInList]
           t == IF Waylength[node] + Waypoints[node] >= Waylength[Origin] THEN s
                ELSE FoldLeft(LAMBDA u, o : Neighbor(u, node, o), s, Offsets)
       IN /\ Waylength' = t.Waylength /\ Heuristic' = t.Heuristic /\ Predecessor' = t.Predecessor
          /\ ToExpand' = t.list /\ notInList' = t.missing
    /\ UNCHANGED <<mapVars, goPath, searching>>

Here == IF goPath = <<>> THEN Origin ELSE goPath[Len(goPath)]

\* The walk along the predecessors; the search fails if the origin was not
\* reached.
WalkBack ==
    /\ ToExpand = <<>> /\ searching
    /\ IF /\ Waylength[Origin] # Infinity
          /\ Predecessor[Here] # Null /\ Len(goPath) < MaxSteps
          /\ MustReach \/ Distance(Here, dest) > 1
       THEN goPath' = Append(goPath, Predecessor[Here]) /\ UNCHANGED searching
       ELSE searching' = FALSE /\ UNCHANGED goPath
    /\ UNCHANGED <<mapVars, Waylength, Heuristic, Predecessor, ToExpand, notInList>>

ShortNext == Expand \/ WalkBack

-----------------------------------------------------------------------------
\* The cost of the cheapest way from every point, by relaxation over all steps
\* until nothing changes: the reference for the search.
Cheapest ==
    LET Around == [p \in Field |-> {q \in {dest} \cup (Passable \ {Origin}) : Distance(p, q) = 1}]
        Step[d \in [Field -> Int], n \in 0 .. Cardinality(Field)] ==
          IF n = 0 THEN d
          ELSE LET e == [p \in Field |->
                  LET Cost == {d[q] + Waypoints[q] * (IF p[1] # q[1] /\ p[2] # q[2] THEN 3 ELSE 1) :
                               q \in {q \in Around[p] : d[q] # Infinity}}
                  IN IF p = dest \/ Cost = {} THEN d[p] ELSE CHOOSE c \in Cost : \A k \in Cost : c <= k]
               IN IF e = d THEN d ELSE Step[e, n - 1]
    IN Step[[p \in Field |-> IF p = dest THEN 0 ELSE Infinity], Cardinality(Field)]

PathCost(path) ==
    FoldLeft(LAMBDA c, i :
        LET p == IF i = 1 THEN Origin ELSE path[i - 1]
        IN c + Waypoints[path[i]] * (IF p[1] # path[i][1] /\ p[2] # path[i][2] THEN 3 ELSE 1),
        0, [i \in 1 .. Len(path) |-> i])

\* The path finder finds a way if there is one.  Its steps lie on a cheapest
\* way, over fields that can be walked on and none of them twice, so that the
\* walk along the predecessors comes to an end although a blocked destination has
\* negative waypoints; and they end at the destination, or beside it if it need
\* not be reached, unless their number is limited.  The list of points is never
\* corrupt: the error message of Expand does not appear.
ShortestWay ==
    /\ ~notInList
    /\ \A i, j \in 1 .. Len(goPath) : goPath[i] = goPath[j] => i = j
    /\ ~searching =>
          LET cost == Cheapest
          IN /\ Waylength[Origin] = cost[Origin]
             /\ Waylength[Origin] # Infinity =>
                   /\ \A i \in 1 .. Len(goPath) : goPath[i] \in Passable
                   /\ PathCost(goPath) + cost[Here] = cost[Origin]
                   /\ \/ IF MustReach THEN Here = dest ELSE Distance(Here, dest) <= 1
                      \/ Len(goPath) >= MaxSteps

=============================================================================
