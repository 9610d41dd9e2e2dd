------------------------------- MODULE Objects -------------------------------
(***************************************************************************)
(* Objects in the game thread: how they are moved, stacked and traded      *)
(* (Operate), owned with a house (Houses) and kept in memory or swapped    *)
(* out to a file (Sectors); and the clients of the query manager, which    *)
(* keeps the owners of the houses (Query).                                 *)
(*                                                                         *)
(* The parts share no state that their properties are about: one part is   *)
(* at work in a behaviour; the clients of the query manager then stay in   *)
(* an initial state, the variables of the others are unused (0).           *)
(***************************************************************************)
EXTENDS Query

CONSTANTS
    Topic,     \* the parts of a run
    Trader, Bag, Coin, Field, Nothing, Hands, Capacity, MaxAmount, CarryStrength, MaxParts,
    House, Person, Nobody, Premium, Lists, Rent, Price, Base, Purse, Furnished, Month, Week, MaxDays,
    Sectors, Slots, HashTableSize, LastFile, MaxObjects, MaxObjectID, MaxVisit

VARIABLES
    topic,     \* the part that is at work
    world, made, due,
    estate, person, registry, auctions, phase, today, books,
    memory, tree, visit

O == INSTANCE Operate
H == INSTANCE Houses
S == INSTANCE Sectors

operateVars == <<world, made, due>>
houseVars == <<estate, person, registry, auctions, phase, today, books>>
sectorVars == <<memory, tree, visit>>

objectVars == <<topic, operateVars, houseVars, sectorVars, queryVars>>

\* Operate, Houses and Sectors have no state when they are not at work.
ObjectsInit ==
    /\ topic \in Topic
    /\ \/ topic = "operate" /\ O!OperateInit
       \/ topic # "operate" /\ world = 0 /\ made = 0 /\ due = 0
    /\ \/ topic = "houses" /\ H!HousesInit
       \/ /\ topic # "houses" /\ estate = 0 /\ person = 0 /\ registry = 0 /\ auctions = 0
          /\ phase = 0 /\ today = 0 /\ books = 0
    /\ \/ topic = "sectors" /\ S!SectorsInit
       \/ topic # "sectors" /\ memory = 0 /\ tree = 0 /\ visit = 0
    /\ QueryInit

ObjectsNext ==
    /\ \/ topic = "operate" /\ O!OperateNext /\ UNCHANGED <<houseVars, sectorVars, queryVars>>
       \/ topic = "houses" /\ H!HousesNext /\ UNCHANGED <<operateVars, sectorVars, queryVars>>
       \/ topic = "sectors" /\ S!SectorsNext /\ UNCHANGED <<operateVars, houseVars, queryVars>>
       \/ topic = "query" /\ QueryNext /\ UNCHANGED <<operateVars, houseVars, sectorVars>>
    /\ UNCHANGED topic

ObjectsSpec == ObjectsInit /\ [][ObjectsNext]_objectVars

-----------------------------------------------------------------------------
\* No operation loses or doubles an object, see Operate (move, merge, AcceptTrade).
ObjectsKept == topic = "operate" => O!ObjectsKept
\* Windows and trade offers show what their owner still reaches, see Operate
\* (close_container, RejectTrade).
ReferencesValid == topic = "operate" => O!ReferencesValid
\* The map is what was put into it, wherever its sectors are, see Sectors
\* (swap_sector, unswap_sector).
MapKept == topic = "sectors" => S!MapKept

=============================================================================
