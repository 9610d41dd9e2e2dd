------------------------------- MODULE Houses -------------------------------
(***************************************************************************)
(* Houses (houses.cpp): who may be in them, and the business that is done  *)
(* with them each time the server starts (process_houses): auctions end,   *)
(* houses change hands, tenants are evicted and pay their rent out of the  *)
(* depot, and the tables of the query manager are brought into line.       *)
(*                                                                         *)
(* The query manager answers from its own tables, which are older than     *)
(* what the functions before have just done.  Each of its answers may fail *)
(* to come.  Players are in the game only after the business is done.      *)
(***************************************************************************)
EXTENDS Integers, Sequences, FiniteSets, FiniteSetsExt, TLC

CONSTANTS
    House, Person, Nobody,
    Premium,       \* those with a premium account
    Lists,         \* access lists: sequences of rules
    Rent, Price,   \* of a house: the monthly rent; a bid or the price of a transfer
    Base,          \* coins of one kind that make one of the next (100)
    Purse,         \* bound: coins of each person at the beginning
    Furnished,     \* bound: those who have a thing to put into a house
    Month, Week,   \* lengths of the period of rent and of the notice
    MaxDays        \* bound: time of the last start

VARIABLES
    estate,        \* HouseArray
    person,        \* of each person: place, time of the last logout, depot
    registry,      \* external: the table HouseOwners
    auctions,      \* external: the table Auctions
    phase, today,  \* where the server is; time(NULL)
    books          \* history: gold that left the game, and whether all queries succeeded

houseVars == <<estate, person, registry, auctions, phase, today, books>>

Vacant == [owner |-> Nobody, since |-> 0, paid |-> 0, subowners |-> <<>>, guests |-> <<>>,
           things |-> 0, help |-> 0]
Unregistered == [owner |-> Nobody, paid |-> 0]
Forever == MaxDays + Month + 1   \* INT_MAX

HousesInit ==
    /\ estate = [h \in House |-> Vacant]
    /\ person = [p \in Person |-> [online |-> FALSE, at |-> Nobody, left |-> 0,
                                   money |-> Purse, things |-> IF p \in Furnished THEN 1 ELSE 0]]
    /\ registry = [h \in House |-> Unregistered]
    /\ auctions = {}
    /\ phase = "start" /\ today = 1
    /\ books = [taken |-> 0, told |-> TRUE]

-----------------------------------------------------------------------------
(* Access.                                                                 *)

\* check_access_right for the rules of a list: the first that applies decides.
Access(list, p) ==
    LET applies == {i \in 1..Len(list) : p \in list[i].who}
    IN applies # {} /\ ~list[Min(applies)].negate

is_owner(h, p) == estate[h].owner = p

is_subowner(h, p, time) == estate[h].since <= time /\ Access(estate[h].subowners, p)

is_guest(h, p, time) == estate[h].since <= time /\ Access(estate[h].guests, p)

is_invited(h, p, time) == is_owner(h, p) \/ is_subowner(h, p, time) \/ is_guest(h, p, time)

-----------------------------------------------------------------------------
(* process_houses.  A step of a function is a function of what it changes. *)

Ledger == [estate |-> estate, person |-> person, taken |-> books.taken]

\* The coins that make up an amount, as create_money makes them.
Coins(n) == [gold |-> n % Base, platinum |-> (n % Base^2) \div Base, crystal |-> n \div Base^2]

\* count_money
Worth(m) == m.crystal * Base^2 + m.platinum * Base + m.gold


\* calculate_change: the coins of m with which n is paid.  Negative numbers are
\* coins that are given back; the division truncates.
CalculateChange(n, m) ==
    LET large == n \div Base^2
        rest == n % Base^2
        left == IF m.crystal < large THEN n - m.crystal * Base^2 ELSE rest
    IN IF m.platinum * Base + m.gold < rest
       THEN [crystal |-> large + 1, platinum |-> -((Base^2 - rest) \div Base),
             gold |-> -((Base^2 - rest) % Base)]
       ELSE [crystal |-> Min({m.crystal, large})] @@
            (IF m.gold < left % Base
             THEN [platinum |-> (left \div Base) + 1, gold |-> (left % Base) - Base]
             ELSE IF m.platinum < left \div Base
             THEN [platinum |-> m.platinum, gold |-> left - m.platinum * Base]
             ELSE [platinum |-> left \div Base, gold |-> left % Base])

\* DeleteMoney and create_money in the depot that load_depot brings and
\* save_depot takes back.
Debit(s, p, n) ==
    LET c == CalculateChange(n, s.person[p].money)
    IN [s EXCEPT !.person[p].money = [k \in DOMAIN @ |-> @[k] - c[k]]]
Credit(s, p, n) == [s EXCEPT !.person[p].money = [k \in DOMAIN @ |-> @[k] + Coins(n)[k]]]

\* clean_house moves all things into the depot of the owner.  They stay where they
\* are when there is no owner, or no slot for its data.
clean_house(s, h) ==
    IF s.estate[h].owner = Nobody THEN s
    ELSE [s EXCEPT !.person[s.estate[h].owner].things = @ + s.estate[h].things,
                   !.estate[h].things = 0]

clear_house(s, h) ==
    [s EXCEPT !.estate[h] = [@ EXCEPT !.owner = Nobody, !.subowners = <<>>, !.guests = <<>>]]

\* A function whose query fails returns at once.
QueryFails(next) ==
    /\ phase' = next
    /\ books' = [books EXCEPT !.told = FALSE]
    /\ UNCHANGED <<estate, person, registry, auctions, today>>

Completed(s, next) ==
    /\ estate' = s.estate /\ person' = s.person
    /\ books' = [books EXCEPT !.taken = s.taken]
    /\ phase' = next

\* The auction of a house, which winner has won.  One without the money owns
\* the house until the second loop clears it.
FinishAuction(s, h, winner) ==
    IF winner = Nobody \/ s.estate[h].owner # Nobody THEN s
    ELSE IF Worth(s.person[winner].money) < Rent + Price THEN [s EXCEPT !.estate[h].paid = 0]
    ELSE [Debit(s, winner, Rent + Price) EXCEPT
             !.taken = @ + Rent + Price,
             !.estate[h] = [@ EXCEPT !.owner = winner, !.since = today, !.paid = today + Month]]

\* finish_auctions: the query manager ends any of the auctions.  One whose winner's
\* data cannot be loaded ends without a winner.
finish_auctions ==
    /\ phase = "start"
    /\ \/ QueryFails("transfer")
       \/ /\ \E won \in [auctions -> Person \cup {Nobody}], loaded \in SUBSET auctions :
                 /\ Completed(FoldSet(LAMBDA h, s : FinishAuction(s, h, won[h]), Ledger, loaded),
                              "transfer")
                 /\ auctions' = {h \in auctions : won[h] = Nobody}
          /\ UNCHANGED <<registry, today>>

\* The new owner of a house pays the old one.  When the data of the old owner
\* cannot be loaded, or there is none, the price has been taken.
PayPrice(s, h, new, loaded) ==
    IF loaded THEN Credit(Debit(s, new, Price), s.estate[h].owner, Price)
    ELSE [Debit(s, new, Price) EXCEPT !.taken = @ + Price]

HandOver(s, h, new) ==
    [clear_house(s, h) EXCEPT
        !.estate[h] = [@ EXCEPT !.owner = new, !.help = 1, !.since = IF new = Nobody THEN @ ELSE today]]

\* One house of transfer_houses: it is given up, given away or sold to a new
\* owner, who has to have the price.
Transfer(s, h, new, price, loaded) ==
    IF new = Nobody THEN HandOver(IF loaded THEN clean_house(s, h) ELSE s, h, Nobody)
    ELSE IF price = 0 THEN HandOver(s, h, new)
    ELSE IF Worth(s.person[new].money) < price THEN s
    ELSE IF loaded THEN HandOver(PayPrice(s, h, new, TRUE), h, new) ELSE PayPrice(s, h, new, FALSE)

Registered == {h \in House : registry[h].owner # Nobody}

\* transfer_houses, of at most one house, whose tenant, according to the table, has
\* asked for it.
transfer_houses ==
    /\ phase = "transfer"
    /\ \/ QueryFails("auctions")
       \/ /\ \/ Completed(Ledger, "free")
             \/ \E h \in Registered, price \in {0, Price}, loaded \in BOOLEAN :
                \E new \in (Person \cup {Nobody}) \ {registry[h].owner} :
                    /\ loaded => estate[h].owner # Nobody
                    /\ Completed(Transfer(Ledger, h, new, price, loaded), "free")
          /\ UNCHANGED <<registry, auctions, today>>

Evict(s, h, loaded) == [clear_house(IF loaded THEN clean_house(s, h) ELSE s, h) EXCEPT !.estate[h].help = 1]

EvictAll(H, next) ==
    \E loaded \in SUBSET H : Completed(FoldSet(LAMBDA h, s : Evict(s, h, h \in loaded), Ledger, H), next)

\* evict_free_accounts: only if the house has not just been transferred.
evict_free_accounts ==
    /\ phase = "free"
    /\ \/ QueryFails("auctions")
       \/ /\ \E H \in SUBSET Registered :
                 EvictAll({h \in H : registry[h].owner = estate[h].owner}, "deleted")
          /\ UNCHANGED <<registry, auctions, today>>

\* evict_deleted_characters: whoever owns the house now.
evict_deleted_characters ==
    /\ phase = "deleted"
    /\ \/ QueryFails("auctions")
       \/ /\ \E H \in SUBSET Registered : EvictAll(H, "guilds")
          /\ UNCHANGED <<registry, auctions, today>>

\* evict_ex_guild_leaders, and the loop of process_rent that takes the houses
\* with a mark off the table, each with a query.
evict_ex_guild_leaders ==
    /\ phase = "guilds"
    /\ \/ QueryFails("auctions")
       \/ /\ \E H \in SUBSET {h \in House : estate[h].owner # Nobody} : EvictAll(H, "rent")
          /\ \E done \in SUBSET House :
                registry' = [h \in House |-> IF estate'[h].help = 1 /\ h \in done THEN Unregistered ELSE registry[h]]
          /\ UNCHANGED <<auctions, today>>

\* The rent of a house: the tenant pays, is warned or is evicted.
CollectRent(s, h) ==
    LET e == s.estate[h]
    IN IF e.owner = Nobody \/ e.paid > today THEN s
       ELSE IF Worth(s.person[e.owner].money) >= Rent
       THEN [Debit(s, e.owner, Rent) EXCEPT !.estate[h].paid = @ + Month, !.taken = @ + Rent]
       ELSE IF today < e.paid + Week THEN s ELSE clear_house(clean_house(s, h), h)

\* collect_rent, from those whose data can be loaded.
collect_rent ==
    /\ phase = "rent"
    /\ \E loaded \in SUBSET House :
           Completed(FoldSet(LAMBDA h, s : CollectRent(s, h), Ledger, loaded), "auctions")
    /\ UNCHANGED <<registry, auctions, today>>

\* Queries for single houses, which go on after one that fails.
Told(H, done) == books' = [books EXCEPT !.told = @ /\ H \subseteq done]

\* start_auctions
start_auctions ==
    /\ phase = "auctions"
    /\ \/ QueryFails("owners")
       \/ /\ \E done \in SUBSET House :
                LET free == {h \in House : estate[h].owner = Nobody}
                IN auctions' = auctions \cup (free \cap done) /\ Told(free \ auctions, done)
          /\ phase' = "owners"
          /\ UNCHANGED <<estate, person, registry, today>>

\* update_house_owners: rows are removed, inserted and changed.  When the house
\* has no owner the row is removed first, and the update finds none.
update_house_owners ==
    /\ phase = "owners"
    /\ \/ QueryFails("run")
       \/ /\ \E done \in SUBSET House :
                LET row(h) == IF estate[h].owner = Nobody THEN Unregistered
                              ELSE [owner |-> estate[h].owner, paid |-> estate[h].paid]
                IN /\ registry' = [h \in House |-> IF h \in done THEN row(h) ELSE registry[h]]
                   /\ Told({h \in House : registry[h] # row(h)}, done)
          /\ phase' = "run"
          /\ UNCHANGED <<estate, person, auctions, today>>

-----------------------------------------------------------------------------
(* The game.                                                               *)

\* kick_guests: whoever is not invited is moved to the exit.
kick_guests(es, h) ==
    [p \in Person |->
        IF person[p].online /\ person[p].at = h
           /\ ~(es[h].owner = p \/ Access(es[h].subowners, p) \/ Access(es[h].guests, p))
        THEN [person[p] EXCEPT !.at = Nobody] ELSE person[p]]

\* change_subowners and change_guests, which CEditList calls.
ChangeList(h, list, rules) ==
    LET es == [estate EXCEPT ![h][list] = rules]
    IN /\ estate' = es
       /\ person' = kick_guests(es, h)
       /\ UNCHANGED phase

MayChange(h, p, list) ==
    \/ is_owner(h, p)
    \/ list = "guests" /\ is_subowner(h, p, Forever) /\ p \in Premium

\* CEditList: nobody catches the exception NOTACCESSIBLE before the game loop
\* is left (receive_data, LaunchGame), so that the game ends.
CEditList(p, h, list, rules) ==
    /\ phase = "run" /\ person[p].online
    /\ \/ MayChange(h, p, list) /\ ChangeList(h, list, rules)
       \/ /\ ~MayChange(h, p, list)
          /\ phase' = "exit" /\ UNCHANGED <<estate, person>>
    /\ UNCHANGED <<registry, auctions, today, books>>

\* kick_guest of a host.
KickGuest(p, q, h) ==
    /\ phase = "run" /\ person[p].online /\ person[q].online /\ person[q].at = h
    /\ p # q => (is_owner(h, p) \/ is_subowner(h, p, Forever)) /\ ~is_owner(h, q)
    /\ person' = [person EXCEPT ![q].at = Nobody]
    /\ UNCHANGED <<estate, registry, auctions, phase, today, books>>

\* The player walks or is pushed: TPlayer::MovePossible.
Walk(p, h) ==
    /\ phase = "run" /\ person[p].online /\ person[p].at # h
    /\ h # Nobody => is_invited(h, p, Forever)
    /\ person' = [person EXCEPT ![p].at = h]
    /\ UNCHANGED <<estate, registry, auctions, phase, today, books>>

\* A thing is carried between the house and the depot.
Carry(p, h) ==
    /\ phase = "run" /\ person[p].online /\ person[p].at = h
    /\ \/ /\ person[p].things > 0
          /\ person' = [person EXCEPT ![p].things = @ - 1]
          /\ estate' = [estate EXCEPT ![h].things = @ + 1]
       \/ /\ estate[h].things > 0
          /\ person' = [person EXCEPT ![p].things = @ + 1]
          /\ estate' = [estate EXCEPT ![h].things = @ - 1]
    /\ UNCHANGED <<registry, auctions, phase, today, books>>

\* TPlayer::TPlayer: in the house only if invited since before the last logout.
Login(p) ==
    /\ phase = "run" /\ ~person[p].online
    /\ LET h == person[p].at
       IN person' = [person EXCEPT ![p].online = TRUE,
                         ![p].at = IF h # Nobody /\ is_invited(h, p, person[p].left) THEN h ELSE Nobody]
    /\ UNCHANGED <<estate, registry, auctions, phase, today, books>>

Logout(p) ==
    /\ phase \in {"run", "exit"} /\ person[p].online
    /\ person' = [person EXCEPT ![p].online = FALSE, ![p].left = today]
    /\ UNCHANGED <<estate, registry, auctions, phase, today, books>>

Shutdown ==
    /\ phase = "run"
    /\ phase' = "exit"
    /\ UNCHANGED <<estate, person, registry, auctions, today, books>>

\* save_owners, and load_owners at the next start: a house without an owner is
\* not in the file.
Restart ==
    /\ phase = "exit" /\ \A p \in Person : ~person[p].online
    /\ today < MaxDays /\ today' = today + 1
    /\ estate' = [h \in House |-> [estate[h] EXCEPT !.help = 0,
                                     !.since = IF estate[h].owner = Nobody THEN 0 ELSE @,
                                     !.paid  = IF estate[h].owner = Nobody THEN 0 ELSE @]]
    /\ phase' = "start"
    /\ books' = [books EXCEPT !.told = TRUE]
    /\ UNCHANGED <<person, registry, auctions>>

HousesNext ==
    \/ finish_auctions \/ transfer_houses \/ evict_free_accounts \/ evict_deleted_characters
    \/ evict_ex_guild_leaders \/ collect_rent \/ start_auctions \/ update_house_owners
    \/ Shutdown \/ Restart
    \/ \E p \in Person :
           \/ Login(p) \/ Logout(p)
           \/ \E h \in House : Carry(p, h) \/ \E q \in Person : KickGuest(p, q, h)
           \/ \E h \in House \cup {Nobody} : Walk(p, h)
           \/ \E h \in House, list \in {"subowners", "guests"}, rules \in Lists : CEditList(p, h, list, rules)

-----------------------------------------------------------------------------
(* Properties.                                                             *)


HousesSpec == HousesInit /\ [][HousesNext]_houseVars

=============================================================================
