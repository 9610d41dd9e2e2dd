-------------------------------- MODULE Cron --------------------------------
(***************************************************************************)
(* The cron system (map.cpp): objects that expire wait in a heap ordered   *)
(* by the round in which they do.  To find the entry of an object there is *)
(* a hash table, whose chains are doubly linked through the positions of   *)
(* the entries in the heap: whatever moves an entry has to mend the links. *)
(* Position 0 of the heap is the temporary of an exchange.                 *)
(***************************************************************************)
EXTENDS Integers, FiniteSets

CONSTANTS
    Decaying,      \* object numbers
    Buckets,       \* size of the hash table
    Delays,        \* bound: delays with which objects are entered
    MaxRound       \* bound: last round

VARIABLES
    cron,          \* CronEntryArray, CronEntries and CronHashTable
    roundNr,       \* RoundNr
    expires        \* history: the round in which each object has to expire, or 0

cronVars == <<cron, roundNr, expires>>

\* An object has a number, and 0 is none.
CronAssumption ==
    /\ IsFiniteSet(Decaying) /\ Decaying \subseteq Nat \ {0}
    /\ Buckets \in Nat \ {0} /\ Delays \subseteq Nat /\ MaxRound \in Nat

CronSize == Cardinality(Decaying)
Link == -1..CronSize
CronEntry == [obj : Decaying \cup {0}, round : Nat, prev : Link, next : Link]
CronState == [entry : [0..CronSize -> CronEntry], entries : 0..CronSize, table : [0..(Buckets - 1) -> Link]]

NoEntry == [obj |-> 0, round |-> 0, prev |-> -1, next |-> -1]

CronInit ==
    /\ cron = [entry |-> [i \in 0..CronSize |-> NoEntry], entries |-> 0,
               table |-> [b \in 0..(Buckets - 1) |-> -1]]
    /\ roundNr = 1
    /\ expires = [o \in Decaying |-> 0]

Hash(o) == o % Buckets

\* The neighbours of e find prev and next where they found e.
Relink(c, e, prev, next) ==
    LET d == IF e.next # -1 THEN [c EXCEPT !.entry[e.next].prev = prev] ELSE c
    IN IF e.prev # -1 THEN [d EXCEPT !.entry[e.prev].next = next]
       ELSE [d EXCEPT !.table[Hash(e.obj)] = next]

\* Mutant: the first entry of a chain is moved without its bucket.
BugCronMove(c, dest, source) ==
    LET e == c.entry[source]
        d == [c EXCEPT !.entry[dest] = e]
        f == IF e.next # -1 THEN [d EXCEPT !.entry[e.next].prev = dest] ELSE d
    IN IF e.prev # -1 THEN [f EXCEPT !.entry[e.prev].next = dest] ELSE f

CronMove(c, dest, source) ==
    LET e == c.entry[source] IN Relink([c EXCEPT !.entry[dest] = e], e, dest, dest)

Exchange(c, i, j) == CronMove(CronMove(CronMove(c, 0, i), i, j), j, 0)

\* The two loops of CronHeapify.
SiftUp(c, i) ==
    LET up[t \in CronState \X (1..CronSize)] ==
          LET d == t[1]
              k == t[2]
          IN IF k > 1 /\ d.entry[k \div 2].round > d.entry[k].round
             THEN up[<<Exchange(d, k, k \div 2), k \div 2>>] ELSE t
    IN up[<<c, i>>]

SiftDown(c, i) ==
    LET down[t \in CronState \X (1..CronSize)] ==
          LET d == t[1]
              k == t[2]
              l == 2 * k
              s == IF l < d.entries /\ d.entry[l + 1].round < d.entry[l].round THEN l + 1 ELSE l
          IN IF l <= d.entries /\ d.entry[k].round > d.entry[s].round
             THEN down[<<Exchange(d, k, s), s>>] ELSE d
    IN down[<<c, i>>]

CronHeapify(c, i) == LET up == SiftUp(c, i) IN SiftDown(up[1], up[2])

CronSet(c, o, delay) ==
    LET n == c.entries + 1
        first == c.table[Hash(o)]
        e == [obj |-> o, round |-> roundNr + delay, prev |-> -1, next |-> first]
    IN CronHeapify(Relink([c EXCEPT !.entries = n, !.entry[n] = e], e, n, n), n)

CronDelete(c, i) ==
    LET e == c.entry[i]
        d == [Relink(c, e, e.prev, e.next) EXCEPT !.entries = @ - 1]
    IN IF i = c.entries THEN d ELSE CronHeapify(CronMove(d, i, c.entries), i)

\* The search of cron_change and cron_info along a chain; -1 if there is none.
Position(o) ==
    LET find[i \in Link] == IF i = -1 \/ cron.entry[i].obj = o THEN i ELSE find[cron.entry[i].next]
    IN find[cron.table[Hash(o)]]

\* Entries above the last one and the temporary are not read again.
Tidy(c) == [c EXCEPT !.entry = [i \in DOMAIN @ |-> IF i \in 1..c.entries THEN @[i] ELSE NoEntry]]

-----------------------------------------------------------------------------

\* An object that expires is created, or becomes one that does: change_object.
cron_expire(o, delay) ==
    /\ expires[o] = 0
    /\ cron' = Tidy(CronSet(cron, o, delay))
    /\ expires' = [expires EXCEPT ![o] = roundNr + delay]
    /\ UNCHANGED roundNr

cron_change(o, delay) ==
    /\ expires[o] # 0
    /\ LET i == Position(o)
       IN cron' = IF i = -1 THEN cron
                  ELSE Tidy(CronHeapify([cron EXCEPT !.entry[i].round = roundNr + delay], i))
    /\ expires' = [expires EXCEPT ![o] = roundNr + delay]
    /\ UNCHANGED roundNr

\* cron_info with deletion: the object is deleted, or becomes one that does
\* not expire.
cron_stop(o) ==
    /\ expires[o] # 0
    /\ LET i == Position(o) IN cron' = IF i = -1 THEN cron ELSE Tidy(CronDelete(cron, i))
    /\ expires' = [expires EXCEPT ![o] = 0]
    /\ UNCHANGED roundNr

cron_check == IF cron.entries # 0 /\ cron.entry[1].round <= roundNr THEN cron.entry[1].obj ELSE 0

\* process_cron_system: each object that is due leaves the system and may
\* enter it again as another type.  The round ends when none is due.
CronRound ==
    IF cron_check # 0
    THEN cron_stop(cron_check)
    ELSE /\ roundNr < MaxRound /\ roundNr' = roundNr + 1
         /\ UNCHANGED <<cron, expires>>

CronNext ==
    \/ CronRound
    \/ \E o \in Decaying : cron_stop(o) \/ \E d \in Delays : cron_expire(o, d) \/ cron_change(o, d)

-----------------------------------------------------------------------------
(* Properties.                                                             *)

\* The entries are those of the objects that have to expire, each once and
\* with its round; every one of them is found through its bucket and mended
\* both ways; and the first of the heap is due before all others, so that
\* cron_check misses none (CronMove, CronHeapify, CronSet, CronDelete).
CronOrdered ==
    /\ {<<cron.entry[i].obj, cron.entry[i].round>> : i \in 1..cron.entries}
         = {<<o, expires[o]>> : o \in {o \in Decaying : expires[o] # 0}}
    /\ cron.entries = Cardinality({o \in Decaying : expires[o] # 0})
    /\ \A i \in 1..cron.entries :
           /\ Position(cron.entry[i].obj) = i
           /\ cron.entry[i].next # -1 => cron.entry[cron.entry[i].next].prev = i
           /\ cron.entry[1].round <= cron.entry[i].round

CronSpec == CronInit /\ [][CronNext]_cronVars

=============================================================================
