------------------------------ MODULE Operate -------------------------------
(***************************************************************************)
(* Operations on objects (operate.cpp, map.cpp): objects lie in fields, in *)
(* the hands of players and in containers, are moved, split, merged,       *)
(* created and deleted, and two players exchange two of them.  Players     *)
(* refer to objects beyond a single operation: to the container in their   *)
(* window and to the object they offer in a trade.  Each operation has to  *)
(* tell everybody whose references it makes invalid.                       *)
(*                                                                         *)
(* A field stands for all fields that a player there reaches: whoever is   *)
(* there can take what lies there and trade with whoever is there too.     *)
(* There are two types of objects, a container and a cumulative object.    *)
(***************************************************************************)
EXTENDS Integers, Sequences, FiniteSets, FiniteSetsExt, SequencesExt

CONSTANTS
    Trader, Bag, Coin,
    Field,           \* where objects lie and players stand
    Nothing,         \* NONE, nobody and nowhere
    Hands,           \* bound: number of hands of a player
    Capacity,        \* CAPACITY of a container
    MaxAmount,       \* the most parts of a cumulative object (100)
    CarryStrength,   \* weight that a player carries
    MaxParts         \* bound: parts of cumulative objects in the game

VARIABLES
    world,           \* contents, containers, amounts, positions, windows and offers
    made,            \* history: parts created less parts deleted
    due              \* history: who has to hold what after this step

operateVars == <<world, made, due>>

Thing == Bag \cup Coin
Slot == Trader \X (1..Hands)
Place == Field \cup Slot \cup Bag

NoOffer == [obj |-> Nothing, partner |-> Nothing, accepted |-> FALSE, shown |-> {}]

OperateInit ==
    \E f \in Field :
        /\ world = [content |-> [c \in Place |-> IF c = f THEN SetToSeq(Bag) ELSE <<>>],
                    con     |-> [o \in Thing |-> IF o \in Bag THEN f ELSE Nothing],
                    amount  |-> [c \in Coin |-> 0],
                    pos     |-> [p \in Trader |-> f],
                    open    |-> [p \in Trader |-> Nothing],
                    offer   |-> [p \in Trader |-> NoOffer]]
        /\ made = 0 /\ due = {}

-----------------------------------------------------------------------------
(* Where objects are.                                                      *)

Exists(s, o) == s.con[o] # Nothing

\* The object and all containers around it.
Around(s, o) ==
    LET Out(C) == C \cup {s.con[x] : x \in C \cap Thing}
        up[n \in Nat] == IF n = 0 THEN {o, s.con[o]} ELSE Out(up[n - 1])
    IN IF s.con[o] \in Bag THEN up[Cardinality(Bag)] ELSE {o, s.con[o]}

\* is_held_by_container
HeldBy(s, o, c) == c \in Around(s, o)

Inside(s, o) == {x \in Thing : Exists(s, x) /\ HeldBy(s, x, o)}

\* get_object_creature_id
Owner(s, o) ==
    LET hands == Around(s, o) \cap Slot
    IN IF hands = {} THEN Nothing ELSE (CHOOSE c \in hands : TRUE)[1]

\* object_accessible
Accessible(s, p, o) ==
    LET owner == Owner(s, o)
    IN IF owner # Nothing THEN owner = p ELSE s.pos[p] \in Around(s, o)

\* get_weight: a container and each part of a cumulative object weigh 1.
Weight(s, o) == IF o \in Coin THEN s.amount[o] ELSE 1

WeightOf(s, O) == MapThenSumSet(LAMBDA x : Weight(s, x), O)

\* get_complete_weight and get_inventory_weight
CompleteWeight(s, o) == WeightOf(s, Inside(s, o))
InventoryWeight(s, p) == WeightOf(s, {x \in Thing : Exists(s, x) /\ Owner(s, x) = p})

-----------------------------------------------------------------------------
(* Who is told of a change.                                                *)

Online(s) == {p \in Trader : s.pos[p] # Nothing}

Partners(s, p, q) ==
    /\ s.offer[p].obj # Nothing /\ s.offer[p].partner = q
    /\ s.offer[q].obj # Nothing /\ s.offer[q].partner = p

\* TPlayer::RejectTrade of each of P.
RejectTrade(s, P) ==
    [s EXCEPT !.offer = [p \in Trader |->
        IF p \in P \/ \E q \in P : Partners(s, p, q) /\ {p, q} \subseteq Online(s)
        THEN NoOffer ELSE @[p]]]

NotifyTrades(s, o) ==
    RejectTrade(s, {p \in Online(s) : LET t == s.offer[p].obj IN
                        /\ t # Nothing
                        /\ HeldBy(s, o, t) \/ HeldBy(s, t, o)})

\* close_container
CloseContainer(s, con, force) ==
    [s EXCEPT !.open = [p \in Trader |->
        IF /\ @[p] # Nothing /\ HeldBy(s, @[p], con)
           /\ force \/ ~Accessible(s, p, con)
        THEN Nothing ELSE @[p]]]

-----------------------------------------------------------------------------
(* Moves.                                                                  *)

\* cut_object and place_object: new objects come first.
Cut(s, o) == [s EXCEPT !.content[s.con[o]] = SelectSeq(@, LAMBDA x : x # o), !.con[o] = Nothing]
PlaceObject(s, o, c) == [s EXCEPT !.content[c] = <<o>> \o @, !.con[o] = c]
MoveObject(s, o, c) == PlaceObject(Cut(s, o), o, c)

\* check_top_move_object and check_move_object; the server may do anything.
CheckMove(s, id, o) ==
    id # Nothing => /\ s.con[o] \in Field => o = Head(s.content[s.con[o]])
                    /\ Accessible(s, id, o)

\* check_weight of object o, or of n parts of it, for the owner of a place.
CheckWeight(s, owner, o, n) ==
    \/ owner \in {Nothing, Owner(s, o)}
    \/ InventoryWeight(s, owner) + (IF o \in Coin THEN n ELSE CompleteWeight(s, o)) <= CarryStrength

\* check_inventory_destination: the model's objects fit in a hand.
CheckInventoryDestination(s, c) == s.content[c] = <<>>

\* Mutant: a container may be put into itself.
BugCheckContainerDestination(s, o, c) == Len(s.content[c]) < Capacity

\* check_container_destination and check_container_place
CheckContainerDestination(s, o, c) == ~HeldBy(s, c, o) /\ Len(s.content[c]) < Capacity

CheckDestination(s, o, c) ==
    CASE c \in Slot -> CheckInventoryDestination(s, c)
      [] c \in Bag -> CheckContainerDestination(s, o, c)
      [] OTHER -> TRUE  \* check_map_destination: the fields of the model are free and in reach

PlaceOwner(s, c) == IF c \in Slot THEN c[1] ELSE IF c \in Bag THEN Owner(s, c) ELSE Nothing

MayMove(s, id, o, c, n) ==
    /\ CheckMove(s, id, o)
    /\ CheckDestination(s, o, c)
    /\ CheckWeight(s, PlaceOwner(s, c), o, n)

\* move of a whole object.
MoveWhole(s, id, o, c) ==
    LET told   == NotifyTrades(s, o)
        closed == IF o \in Bag /\ id = Nothing THEN CloseContainer(told, o, TRUE) ELSE told
        moved  == NotifyTrades(MoveObject(closed, o, c), o)
    IN IF o \in Bag THEN CloseContainer(moved, o, FALSE) ELSE moved

\* move of n parts, which split_object makes the object new.
MoveParts(s, o, c, n, new) ==
    LET split == [PlaceObject(s, new, c) EXCEPT !.amount[new] = n, !.amount[o] = @ - n]
    IN NotifyTrades(NotifyTrades(split, new), o)

MayMerge(s, id, o, dest, n) ==
    /\ o # dest /\ {o, dest} \subseteq Coin
    /\ n + s.amount[dest] <= MaxAmount
    /\ CheckMove(s, id, o)
    /\ s.con[dest] \in Field \/ CheckWeight(s, Owner(s, dest), o, n)

\* delete_object: with everything in it.
DeleteObject(s, o) ==
    LET gone == Inside(s, o)
    IN [s EXCEPT !.content = [c \in Place |-> SelectSeq(@[c], LAMBDA x : x \notin gone)],
                 !.con     = [x \in Thing |-> IF x \in gone THEN Nothing ELSE @[x]],
                 !.amount  = [c \in Coin |-> IF c \in gone THEN 0 ELSE @[c]]]

Merge(s, o, dest, n) ==
    LET told  == NotifyTrades(s, o)
        moved == IF n < s.amount[o] THEN [told EXCEPT !.amount[o] = @ - n] ELSE DeleteObject(told, o)
    IN NotifyTrades([moved EXCEPT !.amount[dest] = @ + n], dest)

-----------------------------------------------------------------------------
(* What clients do.                                                        *)

\* The places that a client can name: its hands, its window and the map.
Named(p) == Field \cup ({p} \X (1..Hands)) \cup ({world.open[p]} \ {Nothing})

\* Where it can move an object: also into a container that it holds or sees in its
\* window, and out of the window into what is around it.
MoveTargets(p) ==
    Named(p) \cup {b \in Bag : world.con[b] \in Named(p) \ Field}
             \cup (IF world.open[p] = Nothing THEN {} ELSE {world.con[world.open[p]]})

\* The object on a field into which move merges o; o if there is none.
MergeTop(s, o, c) ==
    IF c \in Field /\ o \in Coin /\ s.con[o] # c /\ s.content[c] # <<>> THEN Head(s.content[c]) ELSE o

\* CMoveObject and TCreature::Move.
Move(p, o) ==
    /\ p \in Online(world) /\ world.con[o] \in Named(p)
    /\ \E c \in MoveTargets(p), n \in 1..Weight(world, o) :
           LET top == MergeTop(world, o, c)
           IN IF MayMerge(world, p, o, top, n)
              THEN world' = Merge(world, o, top, n)
              ELSE /\ MayMove(world, p, o, c, n)
                   /\ IF n < Weight(world, o)
                      THEN \E new \in {x \in Coin : ~Exists(world, x)} :
                               world' = MoveParts(world, o, c, n, new)
                      ELSE world' = MoveWhole(world, p, o, c)
    /\ due' = {} /\ UNCHANGED made

\* The destination is an object of the same type.
MoveOnto(p, o, dest) ==
    /\ p \in Online(world)
    /\ world.con[o] \in Named(p) /\ world.con[dest] \in Named(p) \ Field
    /\ \E n \in 1..Weight(world, o) :
           /\ MayMerge(world, p, o, dest, n)
           /\ world' = Merge(world, o, dest, n)
    /\ due' = {} /\ UNCHANGED made

\* The destination is a hand with an object of another type: the two change
\* places in two moves.  The second one may fail, as the first does not look
\* whether o is too heavy.
ExchangeHand(p, o, dest) ==
    /\ p \in Online(world)
    /\ world.con[o] \in Named(p) /\ CheckMove(world, p, o)
    /\ world.con[dest] \in {p} \X (1..Hands)
    /\ MayMove(world, p, dest, world.con[o], Weight(world, dest))
    /\ LET c == world.con[dest]
           first == MoveWhole(world, p, dest, world.con[o])
       IN world' = IF CheckDestination(first, o, c) /\ CheckWeight(first, p, o, 1)
                   THEN MoveWhole(first, p, o, c) ELSE first
    /\ due' = {} /\ UNCHANGED made

\* use_container
UseContainer(p, b) ==
    /\ p \in Online(world)
    /\ world.con[b] \in Named(p) /\ Accessible(world, p, b)
    /\ world' = [world EXCEPT !.open[p] = IF @ = b THEN Nothing ELSE b]
    /\ due' = {} /\ UNCHANGED made

\* CCloseContainer and CUpContainer.
LeaveContainer(p) ==
    /\ world.open[p] # Nothing
    /\ LET up == world.con[world.open[p]]
       IN world' \in {[world EXCEPT !.open[p] = Nothing],
                      [world EXCEPT !.open[p] = IF up \in Bag THEN up ELSE Nothing]}
    /\ due' = {} /\ UNCHANGED made

\* TCreature::NotifyGo of a player who has been moved to field f.
NotifyGo(s, p, f) ==
    LET there  == [s EXCEPT !.pos[p] = f]
        closed == IF s.open[p] # Nothing /\ ~Accessible(there, p, s.open[p])
                  THEN [there EXCEPT !.open[p] = Nothing] ELSE there
        t == s.offer[p]
    IN IF t.obj # Nothing /\ \/ t.partner \notin Online(s) \/ s.pos[t.partner] # f
                             \/ ~Accessible(there, p, t.obj)
       THEN RejectTrade(closed, {p}) ELSE closed

\* The player walks, or is pushed or teleported.
Go(p, f) ==
    /\ p \in Online(world) /\ f # world.pos[p]
    /\ world' = NotifyGo(world, p, f)
    /\ due' = {} /\ UNCHANGED made

\* NotifyDelete; the hands are emptied into the player's file.
Leave(p) ==
    /\ p \in Online(world)
    /\ world' = [RejectTrade(world, {p}) EXCEPT !.pos[p] = Nothing, !.open[p] = Nothing]
    /\ due' = {} /\ UNCHANGED made

Arrive(p, f) ==
    /\ p \notin Online(world)
    /\ world' = [world EXCEPT !.pos[p] = f]
    /\ due' = {} /\ UNCHANGED made

\* TPlayer::TakeOver
TakeOver(p) ==
    /\ p \in Online(world)
    /\ world' = [RejectTrade(world, {p}) EXCEPT !.open[p] = Nothing]
    /\ due' = {} /\ UNCHANGED made

-----------------------------------------------------------------------------
(* Trades.                                                                 *)

\* What a partner sees of an object.
Shown(s, o) == {<<x, Weight(s, x)>> : x \in Inside(s, o)}

\* TCreature::Trade
Trade(p, o, q) ==
    /\ p \in Online(world) /\ q \in Online(world) /\ p # q
    /\ world.con[o] \in Named(p) /\ Accessible(world, p, o)
    /\ world.offer[p].obj = Nothing
    /\ world.pos[p] = world.pos[q]
    /\ LET t == world.offer[q] IN
           t.obj # Nothing => /\ t.partner = p
                              /\ ~HeldBy(world, t.obj, o) /\ ~HeldBy(world, o, t.obj)
    /\ world' = [world EXCEPT !.offer[p] = [obj |-> o, partner |-> q, accepted |-> FALSE,
                                            shown |-> Shown(world, o)]]
    /\ due' = {} /\ UNCHANGED made

\* The places where AcceptTrade may put object o for player q, who gives away
\* object other: a free hand, or else a container in a hand.
Destinations(s, q, o, other) ==
    LET free == {h \in 1..Hands : s.content[<<q, h>>] = <<>>}
        bags == {h \in 1..Hands :
                    /\ s.content[<<q, h>>] # <<>>
                    /\ LET b == Head(s.content[<<q, h>>]) IN
                        /\ b \in Bag \ {other}
                        /\ Len(s.content[b]) + (IF s.con[other] = b THEN 0 ELSE 1) <= Capacity}
        First(H) == CHOOSE h \in H : \A k \in H : h <= k
    IN IF free # {} THEN {<<q, First(free)>>}
       ELSE IF bags # {} THEN {Head(s.content[<<q, First(bags)>>])} ELSE {}

\* Mutant: the weight of what is given away is not checked against the hands.
BugMayReceive(s, p, o, q, other) ==
    /\ Accessible(s, p, o)
    /\ Destinations(s, q, o, other) # {}

\* The checks of AcceptTrade for the object o of p, which q receives.
MayReceive(s, p, o, q, other) ==
    /\ Accessible(s, p, o)
    /\ InventoryWeight(s, q) + CompleteWeight(s, o)
         - (IF Owner(s, other) = q THEN CompleteWeight(s, other) ELSE 0) <= CarryStrength
    /\ Destinations(s, q, o, other) # {}

\* A move of the server, which an exception ends before it begins.
ServerMove(s, o, c) ==
    IF MayMove(s, Nothing, o, c, Weight(s, o)) THEN MoveWhole(s, Nothing, o, c) ELSE s

\* TPlayer::AcceptTrade.  The first of the four moves that throws is the last.
AcceptTrade(p, q) ==
    /\ p \in Online(world) /\ q \in Online(world) /\ Partners(world, p, q)
    /\ LET ended == [world EXCEPT !.offer[p] = NoOffer, !.offer[q] = NoOffer]
           x == world.offer[p].obj
           y == world.offer[q].obj
       IN IF ~world.offer[q].accepted
          THEN world' = [world EXCEPT !.offer[p].accepted = TRUE] /\ due' = {}
          ELSE IF ~MayReceive(world, p, x, q, y) \/ ~MayReceive(world, q, y, p, x)
          THEN world' = ended /\ due' = {}
          ELSE \E toQ \in Destinations(world, q, x, y), toP \in Destinations(world, p, y, x) :
                   LET s2 == ServerMove(ServerMove(ended, x, world.pos[q]), y, world.pos[p])
                       s3 == ServerMove(s2, x, toQ)
                   IN /\ world' = IF s3 = s2 THEN s2 ELSE ServerMove(s3, y, toP)
                      /\ due' = {<<q, x, world.offer[p].shown>>, <<p, y, world.offer[q].shown>>}
    /\ UNCHANGED made

CancelTrade(p) ==
    /\ world.offer[p].obj # Nothing
    /\ world' = RejectTrade(world, {p})
    /\ due' = {} /\ UNCHANGED made

-----------------------------------------------------------------------------
(* What the server does.                                                   *)

\* create of n parts in place c, where the map merges them with the top object.
Create(s, c, n, new) ==
    LET top == IF c \in Field /\ s.content[c] # <<>> THEN Head(s.content[c]) ELSE Nothing
    IN IF top \in Coin /\ s.amount[top] + n <= MaxAmount
       THEN NotifyTrades([s EXCEPT !.amount[top] = @ + n], top)
       ELSE NotifyTrades([PlaceObject(s, new, c) EXCEPT !.amount[new] = n], new)

\* create_at_creature
CreateAtCreature(p, n) ==
    /\ p \in Online(world) /\ made + n <= MaxParts
    /\ \E new \in {x \in Coin : ~Exists(world, x)} :
           LET free == {h \in 1..Hands : world.content[<<p, h>>] = <<>>}
               bags == {b \in Bag : /\ \E h \in 1..Hands : world.content[<<p, h>>] = <<b>>
                                    /\ Len(world.content[b]) < Capacity}
               First == CHOOSE h \in free : \A k \in free : h <= k
           IN \E c \in IF InventoryWeight(world, p) + n > CarryStrength THEN {world.pos[p]}
                       ELSE IF free # {} THEN {<<p, First>>}
                       ELSE IF bags # {} THEN bags ELSE {world.pos[p]} :
                  world' = Create(world, c, n, new)
    /\ made' = made + n /\ due' = {}

\* delete_op of n parts, or of the whole object with everything in it.
DeleteOp(s, o, n) ==
    IF n < Weight(s, o) THEN NotifyTrades([s EXCEPT !.amount[o] = @ - n], o)
    ELSE LET told == NotifyTrades(s, o)
         IN DeleteObject(IF o \in Bag THEN CloseContainer(told, o, TRUE) ELSE told, o)

\* Food is eaten, a rune is used up, money is paid.
Delete(p, o) ==
    /\ p \in Online(world) /\ world.con[o] \in Named(p) /\ Accessible(world, p, o)
    /\ \E n \in 1..world.amount[o] :
           world' = DeleteOp(world, o, n) /\ made' = made - n
    /\ due' = {}

\* empty: objects are moved to where the container is until remainder are left, or
\* until one cannot be moved.
Empty(s, b, remainder) ==
    LET content == s.content[b]
        Out(t, o) == LET top == MergeTop(t, o, s.con[b]) IN
                     IF MayMerge(t, Nothing, o, top, Weight(t, o)) THEN Merge(t, o, top, Weight(t, o))
                     ELSE ServerMove(t, o, s.con[b])
        E[n \in 0..Len(content)] ==
            IF n = 0 THEN CloseContainer(s, b, TRUE)
            ELSE IF n > Len(content) - remainder \/ (n > 1 /\ E[n - 1].con[content[n - 1]] = b) THEN E[n - 1]
            ELSE Out(E[n - 1], content[n])
    IN E[Len(content)]

\* process_cron_system: a container decays, to nothing or to one that has room for
\* `remainder' objects.  What could not be moved out of the way goes with it.
Decay(b) ==
    /\ Exists(world, b)
    /\ Owner(world, b) \in Online(world) \cup {Nothing}
    /\ \E remainder \in 0..Capacity :
          LET emptied == Empty(world, b, remainder)
          IN \/ /\ Len(emptied.content[b]) <= remainder
                /\ world' = NotifyTrades(emptied, b)
                /\ UNCHANGED made
             \/ /\ remainder = 0 \/ Len(emptied.content[b]) > remainder
                /\ world' = DeleteOp(emptied, b, 1)
                /\ made' = made - WeightOf(emptied, Inside(emptied, b) \cap Coin)
    /\ due' = {}

OperateNext ==
    \/ \E p \in Trader :
           \/ \E o \in Thing : Move(p, o)
           \/ \E o \in Bag, dest \in Coin : ExchangeHand(p, o, dest)
           \/ \E o, dest \in Coin : MoveOnto(p, o, dest)
           \/ \E o \in Coin : Delete(p, o)
           \/ \E n \in 1..MaxAmount : CreateAtCreature(p, n)
           \/ \E b \in Bag : UseContainer(p, b)
           \/ \E f \in Field : Go(p, f) \/ Arrive(p, f)
           \/ LeaveContainer(p) \/ Leave(p) \/ TakeOver(p) \/ CancelTrade(p)
           \/ \E q \in Trader : AcceptTrade(p, q) \/ \E o \in Thing : Trade(p, o, q)
    \/ \E b \in Bag : Decay(b)

-----------------------------------------------------------------------------
(* Properties.                                                             *)

\* Objects form a forest within the capacities, and no operation makes or loses
\* parts of cumulative objects except those that create and delete them (move,
\* merge, split_object, AcceptTrade, empty).
ObjectsKept ==
    /\ \A c \in Place : Len(world.content[c]) <= (IF c \in Bag THEN Capacity
                                                 ELSE IF c \in Slot THEN 1 ELSE 100)
    /\ \A o \in Thing : {c \in Place : Contains(world.content[c], o)} = {world.con[o]} \ {Nothing}
    /\ \A o \in Thing : Exists(world, o) =>
           Around(world, o) \cap (Field \cup Slot) # {}
    /\ \A b \in Bag : world.content[b] # <<>> => Exists(world, b)
    /\ \A c \in Coin : world.amount[c] \in (IF Exists(world, c) THEN 1..MaxAmount ELSE {0})
    /\ WeightOf(world, Coin) = made

\* Every reference that a player keeps is good: the container in its window
\* exists and is in reach, the offered object is in reach and still as it was
\* shown, and a trade that both accept gives each what it has been shown
\* (notify_trades, close_container, NotifyGo, AcceptTrade).
ReferencesValid ==
    /\ \A p \in Trader :
           /\ world.open[p] # Nothing =>
                  Exists(world, world.open[p]) /\ Accessible(world, p, world.open[p])
           /\ LET t == world.offer[p] IN
                  t.obj # Nothing => /\ Exists(world, t.obj) /\ Accessible(world, p, t.obj)
                                     /\ Shown(world, t.obj) = t.shown
    /\ \A d \in due : Owner(world, d[2]) = d[1] /\ Shown(world, d[2]) = d[3]

OperateSpec == OperateInit /\ [][OperateNext]_operateVars

=============================================================================
