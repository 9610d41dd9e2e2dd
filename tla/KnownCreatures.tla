--------------------------- MODULE KnownCreatures ---------------------------
(***************************************************************************)
(* What a client knows of the creatures.  A creature is described once     *)
(* (command 97), refreshed (98) or only named (99); the server keeps a     *)
(* table of what the client knows (TConnection::KnownCreatureTable), whose *)
(* entries are chained to their creatures (FirstKnowingConnection), so     *)
(* that a change reaches those who know and can see the creature.          *)
(*                                                                         *)
(* A packet may be lost: begin_send_data refuses it when the output buffer *)
(* is full, and then nothing is done for it; finish_send_data drops it     *)
(* when it has not fitted, after the table was changed for it.  Nothing is *)
(* taken back in the table, so that a client shows such a creature wrongly *)
(* until it is described to it again.                                      *)
(*                                                                         *)
(* A creature has one property here, which has two values.  The client is  *)
(* external; it is what the commands make of it.                           *)
(***************************************************************************)
EXTENDS Integers, FiniteSets, FiniteSetsExt

CONSTANTS
    Link,           \* connections
    Beast,          \* creatures; a player comes back under the same number
    NoBeast,
    TableSize,      \* NARRAY(KnownCreatureTable): 150
    MaxMissed       \* bound: creatures that clients have missed a packet about

ASSUME KnownAssumption == TableSize \in Nat \ {0} /\ NoBeast \notin Beast

VARIABLES
    table,      \* KnownCreatureTable of a connection
    state,      \* of a connection: "game", "logout" or "free"
    beast,      \* of a creature: alive, its property, its chain of entries
    view,       \* the creatures a player sees
    client      \* of a client: the creatures it knows, with the property it shows;
                \* those it has missed a packet about since they were described;
                \* whether a command named one of the others that it does not know

knownVars == <<table, state, beast, view, client>>

Entry == 1 .. TableSize
Cleared == [i \in Entry |-> [State |-> "FREE", CreatureID |-> NoBeast]]
NewClient == [knows |-> [b \in {} |-> FALSE], missed |-> {}, lost |-> FALSE]

KnownInit ==
    /\ table = [l \in Link |-> Cleared]
    /\ state = [l \in Link |-> "free"]
    /\ beast = [b \in Beast |-> [alive |-> FALSE, look |-> FALSE, chain |-> {}]]
    /\ view = [l \in Link |-> {}]
    /\ client = [l \in Link |-> NewClient]

-----------------------------------------------------------------------------
(* TConnection.                                                            *)

Entries(l, b) == {i \in Entry : table[l][i].CreatureID = b}
FreeEntries(l) == {i \in Entry : table[l][i].State = "FREE"}
Invisible(l) == {i \in Entry : table[l][i].CreatureID \notin view[l]}

\* known_creature
known_creature(l, b) == IF Entries(l, b) = {} THEN "FREE" ELSE table[l][Min(Entries(l, b))].State

\* Mutant: any entry is taken when the table is full.
BugSlot(l, b) ==
    IF Entries(l, b) # {} THEN Min(Entries(l, b))
    ELSE IF FreeEntries(l) # {} THEN Min(FreeEntries(l)) ELSE 1

\* new_known_creature: the entry of the creature, a free one, or the one of a
\* creature out of sight; 0 when there is none.
Slot(l, b) ==
    IF Entries(l, b) # {} THEN Min(Entries(l, b))
    ELSE IF FreeEntries(l) # {} THEN Min(FreeEntries(l))
    ELSE IF Invisible(l) # {} THEN Min(Invisible(l)) ELSE 0

\* unchain_known_creature: the first link of this connection is taken out.
Unchain(bs, l, b) == [bs EXCEPT ![b].chain = {e \in @ : e[1] # l}]

-----------------------------------------------------------------------------
(* Commands, as functions of what the clients know.                        *)

\* 97: the client forgets one creature and learns another.
Introduce(cs, l, old, b) ==
    [cs EXCEPT ![l].knows = [c \in (DOMAIN @ \ {old}) \cup {b} |-> IF c = b THEN beast[b].look ELSE @[c]],
               ![l].missed = @ \ {b}]

\* 99: the client has to know the creature.
Name(cs, l, b) ==
    IF b \in DOMAIN cs[l].knows THEN cs ELSE [cs EXCEPT ![l].lost = @ \/ b \notin cs[l].missed]

\* The changes of a creature.
Update(cs, l, b, look) ==
    IF b \in DOMAIN cs[l].knows THEN [cs EXCEPT ![l].knows[b] = look] ELSE Name(cs, l, b)

\* 98: everything but the name.
Refresh(cs, l, b) ==
    IF b \in DOMAIN cs[l].knows
    THEN [Update(cs, l, b, beast[b].look) EXCEPT ![l].missed = @ \ {b}]
    ELSE Name(cs, l, b)

\* begin_send_data has refused the packet, or finish_send_data has dropped it.
Miss(cs, l, b) == [cs EXCEPT ![l].missed = @ \cup {b}]
Bounded(cs) == Cardinality({p \in Link \X Beast : p[2] \in cs[p[1]].missed}) =< MaxMissed

\* send_map_object, what it writes into the packet.
Described(l, b) ==
    LET known == known_creature(l, b)
        i == Slot(l, b)
    IN CASE known = "UPTODATE" -> Name(client, l, b)
         [] known = "OUTDATED" -> Refresh(client, l, b)
         [] known = "FREE" -> Introduce(client, l, IF i = 0 THEN NoBeast ELSE table[l][i].CreatureID, b)

\* send_map_object, what it does to the table.
send_map_object(l, b) ==
    LET known == known_creature(l, b)
        i == Slot(l, b)
        e == table[l][i]
    IN \/ /\ known = "UPTODATE" \/ (known = "FREE" /\ i = 0)
          /\ UNCHANGED <<table, beast>>
       \/ /\ known = "OUTDATED"
          /\ table' = [table EXCEPT ![l][Min(Entries(l, b))].State = "UPTODATE"]
          /\ UNCHANGED beast
       \/ /\ known = "FREE" /\ i # 0
          /\ table' = [table EXCEPT ![l][i] = [State |-> "UPTODATE", CreatureID |-> b]]
          /\ beast' = [(IF e.State = "FREE" THEN beast ELSE Unchain(beast, l, e.CreatureID))
                          EXCEPT ![b].chain = @ \cup {<<l, i>>}]

\* A creature comes into view, or its field is sent again.
Appear(l, b) ==
    /\ state[l] = "game" /\ beast[b].alive
    /\ \/ client' = Miss(client, l, b) /\ UNCHANGED <<table, beast>>
       \/ send_map_object(l, b) /\ client' \in {Described(l, b), Miss(client, l, b)}
    /\ Bounded(client')
    /\ view' = [view EXCEPT ![l] = @ \cup {b}]
    /\ UNCHANGED state

\* The creature or the player moves away.
Vanish(l, b) ==
    /\ b \in view[l]
    /\ view' = [view EXCEPT ![l] = @ \ {b}]
    /\ UNCHANGED <<table, state, beast, client>>

\* announce_changed_creature
Change(b) ==
    LET look == ~beast[b].look
        told(l) == \E i \in Entry : <<l, i>> \in beast[b].chain /\ state[l] = "game" /\ table[l][i].State # "OUTDATED"
    IN /\ beast[b].alive
       /\ beast' = [beast EXCEPT ![b].look = look]
       /\ \E arrives \in SUBSET {l \in Link : told(l) /\ b \in view[l]} :
             client' = [l \in Link |-> IF l \in arrives THEN Update(client, l, b, look)[l]
                                      ELSE IF told(l) /\ b \in view[l] THEN Miss(client, l, b)[l]
                                      ELSE client[l]]
       /\ Bounded(client')
       /\ table' = [l \in Link |-> [i \in Entry |->
                       IF <<l, i>> \in beast[b].chain /\ told(l) /\ b \notin view[l]
                       THEN [table[l][i] EXCEPT !.State = "OUTDATED"] ELSE table[l][i]]]
       /\ UNCHANGED <<state, view>>

-----------------------------------------------------------------------------
(* Creatures and connections come and go.                                  *)

Born(b) ==
    /\ ~beast[b].alive
    /\ beast' = [beast EXCEPT ![b].alive = TRUE]
    /\ UNCHANGED <<table, state, view, client>>

\* ~TCreature: the entries become free but keep the number, which the client
\* still knows.
DeleteCreature(b) ==
    /\ beast[b].alive
    /\ table' = [l \in Link |-> [i \in Entry |->
                    IF <<l, i>> \in beast[b].chain THEN [table[l][i] EXCEPT !.State = "FREE"] ELSE table[l][i]]]
    /\ beast' = [beast EXCEPT ![b] = [@ EXCEPT !.alive = FALSE, !.chain = {}]]
    /\ view' = [l \in Link |-> view[l] \ {b}]
    /\ UNCHANGED <<state, client>>

\* join_game: the table is cleared, nothing is chained.
Join(l) ==
    /\ state[l] = "free"
    /\ state' = [state EXCEPT ![l] = "game"]
    /\ table' = [table EXCEPT ![l] = Cleared]
    /\ client' = [client EXCEPT ![l] = NewClient]
    /\ UNCHANGED <<beast, view>>

LogoutGame(l) ==
    /\ state[l] = "game"
    /\ state' = [state EXCEPT ![l] = "logout"]
    /\ UNCHANGED <<table, beast, view, client>>

\* TConnection::disconnect: clear_known_creature_table(true).
Disconnect(l) ==
    /\ state[l] # "free"
    /\ state' = [state EXCEPT ![l] = "free"]
    /\ beast' = [b \in Beast |-> IF \E i \in Entries(l, b) : table[l][i].State # "FREE" THEN Unchain(beast, l, b)[b] ELSE beast[b]]
    /\ table' = [table EXCEPT ![l] = Cleared]
    /\ view' = [view EXCEPT ![l] = {}]
    /\ client' = [client EXCEPT ![l] = NewClient]

KnownNext ==
    \/ \E l \in Link : \/ Join(l) \/ LogoutGame(l) \/ Disconnect(l)
                       \/ \E b \in Beast : Appear(l, b) \/ Vanish(l, b)
    \/ \E b \in Beast : Born(b) \/ DeleteCreature(b) \/ Change(b)

KnownSpec == KnownInit /\ [][KnownNext]_knownVars

-----------------------------------------------------------------------------
\* The table and the client agree, through evictions, deaths, returns and lost
\* packets.  A lost packet harms no other creature than the one it was about,
\* and that one until it is described again: but for these, no command names a
\* creature the client does not know, and the client knows every creature it
\* sees and shows it as it is if the table had room for it.  An entry is in the
\* chain of its creature and of no other, whatever is lost (new_known_creature,
\* finish_send_data, announce_changed_creature, ~TCreature).
ClientKnows ==
    \A l \in Link :
        /\ ~client[l].lost
        /\ state[l] = "game" => \A b \in view[l] \ client[l].missed :
               /\ b \in DOMAIN client[l].knows
               /\ Entries(l, b) # {} => client[l].knows[b] = beast[b].look
        /\ \A b \in Beast, i \in Entry :
               <<l, i>> \in beast[b].chain <=> table[l][i].CreatureID = b /\ table[l][i].State # "FREE"

=============================================================================
