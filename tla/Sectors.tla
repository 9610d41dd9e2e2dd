------------------------------ MODULE Sectors -------------------------------
(***************************************************************************)
(* The storage of the map (map.cpp): objects are known by numbers, which a *)
(* hash table leads to one of a fixed number of slots.  When no slot is    *)
(* free, the sector that has not been visited for longest is written to a  *)
(* file; an access to any of its objects brings it back, at the price of   *)
(* another one.  Every access in the middle of an operation may do so.     *)
(*                                                                         *)
(* A sector has one field here.  Objects are boxes, which contain others,  *)
(* and clips, which lie under everything else on a field.                  *)
(***************************************************************************)
EXTENDS Integers, Sequences, SequencesExt, FiniteSetsExt

CONSTANTS
    Sectors,        \* number of sectors
    Slots,          \* objects that fit into memory
    HashTableSize,
    LastFile,       \* the number of a file after which they start again: 99999999
    MaxObjects,     \* bound on the objects besides the fields
    MaxObjectID,    \* bound on the numbers of objects
    MaxVisit        \* bound on RoundNr

VARIABLES
    memory,     \* the hash table, the slots, the sectors and the files
    tree,       \* history: of every object its kind and what is in it, in order
    visit       \* RoundNr

sectorVars == <<memory, tree, visit>>

NONE == 0
Absent == [id |-> NONE, kind |-> "none", content |-> NONE, next |-> NONE, con |-> NONE]   \* HashTableData[0]
Sector == 1 .. Sectors
Index(id) == id % HashTableSize
Priority == [clip |-> 1, box |-> 5]

\* init_map with init_sector: the field of a sector has its number.
SectorsInit ==
    /\ visit = 1
    /\ memory = [type   |-> [i \in 0 .. HashTableSize - 1 |-> IF i = 0 THEN "permanent" ELSE IF i \in Sector THEN "loaded" ELSE "free"],
                 data   |-> [i \in 0 .. HashTableSize - 1 |-> IF i \in Sector THEN i ELSE 0],
                 slot   |-> [i \in 0 .. Slots |-> IF i \in Sector THEN [Absent EXCEPT !.id = i, !.kind = "field"] ELSE Absent],
                 free   |-> (1 .. Slots) \ Sector,
                 sector |-> [s \in Sector |-> [status |-> "loaded", stamp |-> 1]],
                 file   |-> [f \in 1 .. LastFile |-> <<>>],
                 number |-> 0, next |-> Sectors + 1, aborted |-> FALSE]
    /\ tree = [s \in Sector |-> [kind |-> "field", con |-> NONE, content |-> <<>>]]

-----------------------------------------------------------------------------
(* Slots and files.                                                        *)

Entry(m, id) == m.slot[m.data[Index(id)]]

\* An object with its content and what follows it, all of them in memory.
RECURSIVE Walk(_, _)
Walk(m, id) ==
    IF id = NONE THEN <<>>
    ELSE <<Entry(m, id)>> \o Walk(m, Entry(m, id).content) \o Walk(m, Entry(m, id).next)

\* The number of the next file that does not exist.
RECURSIVE NextFile(_, _)
NextFile(m, f) == LET n == (f % LastFile) + 1 IN IF m.file[n] = <<>> THEN n ELSE NextFile(m, n)

\* swap_sector and swap_object, for the sector of the lowest time stamp.
swap_sector(m) ==
    LET loaded == {s \in Sector : m.sector[s].status = "loaded"}
        oldest == Min({s \in loaded : \A t \in loaded : m.sector[s].stamp <= m.sector[t].stamp})
        f == NextFile(m, m.number)
        objects == Walk(m, oldest)
        indices == {Index(o.id) : o \in ToSet(objects)}
    IN IF loaded = {} THEN [m EXCEPT !.aborted = TRUE]
       ELSE [m EXCEPT !.file[f] = objects, !.number = f,
                      !.free = @ \cup {m.data[i] : i \in indices},
                      !.slot = [i \in DOMAIN @ |-> IF @[i] \in ToSet(objects) THEN Absent ELSE @[i]],
                      !.type = [i \in DOMAIN @ |-> IF i \in indices THEN "swapped" ELSE @[i]],
                      !.data = [i \in DOMAIN @ |-> IF i \in indices THEN f ELSE @[i]],
                      !.sector[oldest].status = "swapped"]

\* GetFreeObjectSlot, given an object; which slot it is does not matter.
Store(m, o) ==
    LET room == IF m.free = {} THEN swap_sector(m) ELSE m
        slot == Min(room.free)
    IN IF room.aborted THEN room
       ELSE [room EXCEPT !.free = @ \ {slot}, !.slot[slot] = o,
                         !.type[Index(o.id)] = "loaded", !.data[Index(o.id)] = slot]

\* Mutant: the sector counts as loaded before its objects are.
Bugunswap_sector(m, f) ==
    LET begun == [m EXCEPT !.sector[m.file[f][1].id].status = "loaded"]
    IN [FoldLeft(Store, begun, m.file[f]) EXCEPT !.file[f] = <<>>]

\* unswap_sector: room for the objects may be made by swapping out another one.
unswap_sector(m, f) ==
    [FoldLeft(Store, m, m.file[f]) EXCEPT !.sector[m.file[f][1].id].status = "loaded", !.file[f] = <<>>]

\* access_object and Object::exists: whatever has the index is brought back.
access_object(m, id) ==
    IF id # NONE /\ m.type[Index(id)] = "swapped" THEN unswap_sector(m, m.data[Index(id)]) ELSE m

-----------------------------------------------------------------------------
(* An operation is a run of accesses, each of which decides on the ones    *)
(* that follow it: a is an access to the object a.id, and o what it finds. *)

Set(id, field, value) == [op |-> "set", id |-> id, field |-> field, value |-> value]
Cut(id) == [op |-> "cut", id |-> id]
Place(id, con, append) == [op |-> "place", id |-> id, con |-> con, append |-> append]

\* cut_object: to the container, along its list up to the object, and past it.
cut_object(a, o) ==
    CASE a.op = "cut" -> <<[op |-> "first", id |-> o.con, cut |-> a.id]>>
      [] a.op = "first" /\ o.content # a.cut -> <<[op |-> "before", id |-> o.content, cut |-> a.cut]>>
      [] a.op = "before" /\ o.next # a.cut -> <<[op |-> "before", id |-> o.next, cut |-> a.cut]>>
      [] a.op = "first" /\ o.content = a.cut -> <<[op |-> "splice", id |-> a.cut, to |-> a.id, field |-> "content"]>>
      [] a.op = "before" /\ o.next = a.cut -> <<[op |-> "splice", id |-> a.cut, to |-> a.id, field |-> "next"]>>
      [] a.op = "splice" -> <<Set(a.to, a.field, o.next), Set(a.id, "next", NONE), Set(a.id, "con", NONE)>>

\* The search of place_object goes past the object it is at, on a field or in a box.
Behind(a, o) ==
    IF a.con \notin Sector THEN a.append
    ELSE IF a.append \/ a.kind # "box" THEN Priority[o.kind] <= Priority[a.kind]
    ELSE Priority[o.kind] < Priority[a.kind]

place_object(a, o) ==
    LET search(prev, cur) == [op |-> "search", id |-> cur, obj |-> a.obj, kind |-> a.kind, con |-> a.con, append |-> a.append, prev |-> prev]
    IN CASE a.op = "place" -> <<[op |-> "into", id |-> a.con, obj |-> a.id, kind |-> o.kind, con |-> a.con, append |-> a.append]>>
         [] a.op = "into" -> <<search(NONE, o.content)>>
         [] a.op = "search" /\ a.id # NONE /\ Behind(a, o) -> <<search(a.id, o.next)>>
         [] OTHER -> <<IF a.prev # NONE THEN Set(a.prev, "next", a.obj) ELSE Set(a.con, "content", a.obj),
                       Set(a.obj, "next", a.id), Set(a.obj, "con", a.con)>>

\* delete_object, and DestroyObject with the content first.
delete_object(id) == <<Cut(id), [op |-> "destroy", id |-> id]>>
DestroyObject(a, o) == IF o.content = NONE THEN <<>> ELSE Append(delete_object(o.content), a)

\* refresh_sector deletes what lies on the field.
refresh_sector(a, o) ==
    LET rest == IF a.op = "clear" THEN o.content ELSE o.next
        go == IF rest = NONE THEN <<>> ELSE <<[op |-> "empty", id |-> rest]>>
    IN IF a.op = "clear" THEN go ELSE delete_object(a.id) \o go

\* create_object takes the next number whose index is free.
RECURSIVE NextID(_, _)
NextID(m, id) == IF m.type[Index(id)] = "free" THEN id ELSE NextID(m, id + 1)

create_object(m, kind) ==
    LET id == NextID(m, m.next) IN Store([m EXCEPT !.next = id], [Absent EXCEPT !.id = id, !.kind = kind])

\* What an access does to memory: a field of the object, or its slot and index.
Changed(m, a, o) ==
    LET i == Index(a.id) IN
    CASE a.op = "set" -> [m EXCEPT !.slot[m.data[i]] = [o EXCEPT ![a.field] = a.value]]
      [] a.op = "destroy" /\ o.content = NONE ->
             [m EXCEPT !.free = @ \cup {m.data[i]}, !.slot[m.data[i]] = Absent, !.type[i] = "free", !.data[i] = 0]
      [] a.op = "create" -> create_object(m, a.kind)
      [] OTHER -> m

Following(m, a, o) ==
    CASE a.op \in {"cut", "first", "before", "splice"} -> cut_object(a, o)
      [] a.op \in {"place", "into", "search"} -> place_object(a, o)
      [] a.op = "destroy" -> DestroyObject(a, o)
      [] a.op \in {"clear", "empty"} -> refresh_sector(a, o)
      [] a.op = "create" -> <<Place(m.next, a.con, a.append)>>
      [] a.op \in {"set", "get"} -> <<>>

\* The memory after all of the accesses; what is out of memory ends the program.
After(m, a, o, rest) == [m |-> m, todo |-> IF m.aborted THEN <<>> ELSE Following(m, a, o) \o rest]
Access(m, a, rest) == IF m.aborted THEN [m |-> m, todo |-> <<>>] ELSE After(Changed(m, a, Entry(m, a.id)), a, Entry(m, a.id), rest)

RECURSIVE Run(_)
Run(job) == IF job.todo = <<>> THEN job.m
            ELSE Run(Access(access_object(job.m, Head(job.todo).id), Head(job.todo), Tail(job.todo)))

Done(m, todo) == Run([m |-> m, todo |-> todo])

-----------------------------------------------------------------------------
(* The same on the tree: what an operation means.                          *)

\* The position of a new object in a container.
Insert(con, id, kind, append) ==
    LET rank(k) == IF con \notin Sector THEN IF append THEN 0 ELSE 1
                   ELSE IF append \/ kind = "clip" THEN Priority[k] - Priority[kind] ELSE Priority[k] - Priority[kind] + 1
        before == SelectSeq(tree[con].content, LAMBDA i : rank(tree[i].kind) <= 0)
    IN before \o <<id>> \o SelectSeq(tree[con].content, LAMBDA i : rank(tree[i].kind) > 0)

RECURSIVE Inside(_)
Inside(id) == {id} \cup UNION {Inside(i) : i \in ToSet(tree[id].content)}

Objects == DOMAIN tree \ Sector
Container == {id \in DOMAIN tree : tree[id].kind # "clip"}

Pruned(ids) ==
    [i \in DOMAIN tree \ ids |-> [tree[i] EXCEPT !.content = SelectSeq(@, LAMBDA j : j \notin ids)]]

-----------------------------------------------------------------------------
(* Operations.                                                             *)

\* set_object and append_object.
Create(con, kind, append) ==
    LET id == memory'.next IN
    /\ Cardinality(Objects) < MaxObjects
    /\ memory' = Done(memory, <<[op |-> "create", id |-> NONE, kind |-> kind, con |-> con, append |-> append]>>)
    /\ id <= MaxObjectID
    /\ tree' = [i \in DOMAIN tree \cup {id} |->
                   IF i = id THEN [kind |-> kind, con |-> con, content |-> <<>>]
                   ELSE IF i = con THEN [tree[i] EXCEPT !.content = Insert(con, id, kind, append)] ELSE tree[i]]
    /\ UNCHANGED visit

\* move_object: not into itself, as operate.cpp sees to, nor within a container.
MoveObject(id, con) ==
    /\ con \notin Inside(id) /\ con # tree[id].con
    /\ memory' = Done(memory, <<Cut(id), Place(id, con, FALSE)>>)
    /\ tree' = [tree EXCEPT ![id].con = con,
                            ![con].content = Insert(con, id, tree[id].kind, FALSE),
                            ![tree[id].con].content = SelectSeq(@, LAMBDA j : j # id)]
    /\ UNCHANGED visit

Delete(id) ==
    /\ memory' = Done(memory, delete_object(id))
    /\ tree' = Pruned(Inside(id))
    /\ UNCHANGED visit

\* get_map_container and get_first_object of a field.
Visit(s) ==
    /\ memory' = Done([memory EXCEPT !.sector[s].stamp = visit], <<[op |-> "get", id |-> s]>>)
    /\ UNCHANGED <<tree, visit>>

\* refresh_sector when no player is near: what lies on the field is replaced by
\* what load_objects makes, a clip.
Refresh(s) ==
    LET id == memory'.next
    IN /\ Cardinality(Objects \ Inside(s)) < MaxObjects
       /\ memory' = Done(memory, <<[op |-> "clear", id |-> s],
                                   [op |-> "create", id |-> NONE, kind |-> "clip", con |-> s, append |-> TRUE]>>)
       /\ id <= MaxObjectID
       /\ tree' = [i \in {id} \cup (DOMAIN tree \ (Inside(s) \ {s})) |->
                      IF i = id THEN [kind |-> "clip", con |-> s, content |-> <<>>]
                      ELSE IF i = s THEN [tree[s] EXCEPT !.content = <<id>>] ELSE tree[i]]
       /\ UNCHANGED visit

NextVisit == visit < MaxVisit /\ visit' = visit + 1 /\ UNCHANGED <<memory, tree>>

SectorsNext ==
    /\ ~memory.aborted
    /\ \/ \E con \in Container, kind \in DOMAIN Priority, append \in BOOLEAN : Create(con, kind, append)
       \/ \E id \in Objects : Delete(id) \/ \E con \in Container : MoveObject(id, con)
       \/ \E s \in Sector : Visit(s) \/ Refresh(s)
       \/ NextVisit

SectorsSpec == SectorsInit /\ [][SectorsNext]_sectorVars

-----------------------------------------------------------------------------
\* An object wherever it is: in a slot or in a file.
Stored(id) ==
    IF memory.type[Index(id)] = "loaded" THEN {Entry(memory, id)}
    ELSE IF memory.type[Index(id)] = "swapped" THEN ToSet(memory.file[memory.data[Index(id)]])
    ELSE {}

RECURSIVE Chain(_)
Chain(id) == IF id = NONE THEN <<>>
             ELSE LET o == CHOOSE o \in Stored(id) : o.id = id IN <<id>> \o Chain(o.next)

\* Swapping is invisible: every object is there with its container and with its
\* content in order, and no two of them share a slot, whatever was swapped out in
\* the middle of what happened to it; and memory does not run out while a sector
\* fits into it (access_object, swap_sector, unswap_sector, GetFreeObjectSlot).
MapKept ==
    /\ ~memory.aborted
    /\ \A id \in DOMAIN tree : \E o \in Stored(id) :
           o.id = id /\ o.kind = tree[id].kind /\ o.con = tree[id].con /\ Chain(o.content) = tree[id].content
    /\ LET loaded == {i \in DOMAIN memory.type : memory.type[i] = "loaded"}
       IN /\ memory.free \cap {memory.data[i] : i \in loaded} = {}
          /\ Cardinality({memory.data[i] : i \in loaded}) = Cardinality(loaded)
          /\ Cardinality(loaded) + Cardinality(memory.free) = Slots

=============================================================================
