------------------------------- MODULE Magic --------------------------------
(***************************************************************************)
(* Spells, runes and potions (magic.cpp).  A spell is a function that      *)
(* checks, pays and acts; any of its steps may throw a RESULT, and what it *)
(* has done until then stays done.  The caller turns the exception into a  *)
(* message.  Nothing undoes a step, so it is the order of the steps that   *)
(* decides whether a failing spell takes mana, a charge or a servant.      *)
(*                                                                         *)
(* The state is what spells take and leave behind around one player.  The  *)
(* rest of the world appears as the RESULT with which it makes a check     *)
(* fail: only the first of several failing checks matters.                 *)
(***************************************************************************)
EXTENDS Integers, FiniteSets

CONSTANTS
    Prices,        \* mana and soul points of the spells in SpellList
    SummonCost,    \* get_race_summon_cost
    MaxMagic,      \* bound: mana and soul points
    MaxCharges,    \* bound: charges of a rune
    Slaves         \* bound: servants of the player

ASSUME MagicAssumption ==
    /\ Prices \subseteq [mana : Nat, soul : Nat]
    /\ SummonCost \in Nat /\ MaxMagic \in Nat /\ MaxCharges \in Nat /\ Slaves \in Nat

VARIABLES
    scene,         \* the player, its rune and the field it aims at
    cast           \* history: what the last command was and how it ended

magicVars == <<scene, cast>>

Idle == [result |-> "idle", mana |-> 0, soul |-> 0, charges |-> 0]

MagicInit ==
    /\ scene \in [mana : {MaxMagic}, soul : {MaxMagic}, unlimited : BOOLEAN, wait : {0},
                  right : {"blank"}, left : {"blank"},
                  charges : {MaxCharges}, lies : {"bag"},
                  servants : {0}, target : {"MONSTER"}, corpse : {TRUE},
                  effects : {{}}]
    /\ cast = Idle

\* How a step ends.
Done(s) == [s |-> s, result |-> "done"]
Throw(s) == [s |-> s, result |-> "failed"]

Effect(s, e) == [s EXCEPT !.effects = @ \cup {e}]

-----------------------------------------------------------------------------
(* Checks.                                                                 *)

\* The larger of the exhaustion that lasts and the one that begins.
Exhaust(s, delay) == [s EXCEPT !.wait = IF @ < delay THEN delay ELSE @]

\* Mutant: the mana is taken before the soul points are checked.
BugCheckMana(s, mana, soul, delay) ==
    IF mana < 0 THEN Done(s)
    ELSE IF s.unlimited THEN Done(Exhaust(s, delay))
    ELSE IF s.mana < mana THEN Throw(s)
    ELSE IF s.soul < soul THEN Throw([s EXCEPT !.mana = @ - mana])
    ELSE Done(Exhaust([s EXCEPT !.mana = @ - mana, !.soul = @ - soul], delay))

\* check_mana: the only check that takes something.
CheckMana(s, mana, soul, delay) ==
    IF mana < 0 THEN Done(s)
    ELSE IF s.unlimited THEN Done(Exhaust(s, delay))
    ELSE IF s.mana < mana \/ s.soul < soul THEN Throw(s)
    ELSE Done(Exhaust([s EXCEPT !.mana = @ - mana, !.soul = @ - soul], delay))

\* Most spells: some checks of the world, the payment, and what they do.
Spell(s, w, throws, p, delay, Act(_)) ==
    IF w \in throws THEN Throw(s)
    ELSE LET paid == CheckMana(s, p.mana, p.soul, delay)
         IN IF paid.result = "done" THEN Act(paid.s) ELSE paid

Aims == {"SECUREMODE", "CANNOTTHROW"}

-----------------------------------------------------------------------------
(* Spells that strike.                                                     *)

\* A dead monster leaves the field and a corpse.
Strike(s) ==
    IF s.target # "MONSTER" THEN Done(Effect(s, "damage"))
    ELSE Done([Effect(s, "damage") EXCEPT !.target = "nobody", !.corpse = TRUE])

mass_combat(s, w, p) == Spell(s, w, Aims, p, 2, Strike)

angle_combat(s, w, p) == Spell(s, w, {}, p, 2, Strike)

combat(s, w, p) == IF s.target = "nobody" THEN Throw(s) ELSE Spell(s, w, Aims, p, 2, Strike)

-----------------------------------------------------------------------------
(* Magic fields.                                                           *)

\* create_field of a field that field_possible allows; it replaces others.
PutField(s) == Done(Effect(s, "field"))

create_field(s, w, p) == Spell(s, w, Aims \cup {"NOROOM"}, p, 2, PutField)

\* In front of the player, where no protection zone may be.
CreateFieldAhead(s, w, p) == IF w = "PROTECTIONZONE" THEN Throw(s) ELSE create_field(s, w, p)

mass_create_field(s, w, p) == Spell(s, w, Aims, p, 2, PutField)

\* The wall stands across the way to the target, and there is no way to one's
\* own position: the function finds that out when it has paid.
create_field_wall(s, w, p) ==
    Spell(s, w, Aims, p, 2, LAMBDA t : IF w = "DIRECTION_NONE" THEN Throw(t) ELSE PutField(t))

delete_field(s, w, p) ==
    Spell(s, w, {"NOROOM"}, p, 1, LAMBDA t : Done(Effect(t, "field")))

\* Everything movable goes, a rune that lies there included.
cleanup_field(s, w, p) ==
    Spell(s, w, {"OUTOFRANGE"}, p, 1,
          LAMBDA t : Done([Effect(t, "field") EXCEPT
                             !.corpse = FALSE,
                             !.charges = IF t.lies = "target" THEN 0 ELSE @]))

-----------------------------------------------------------------------------
(* Monsters.                                                               *)

summon_creature(s, w, p) ==
    IF s.servants >= 2 THEN Throw(s)
    ELSE Spell(s, w, {"CREATURENOTEXISTING", "NOTACCESSIBLE", "NOROOM"},
               [mana |-> p.mana + SummonCost, soul |-> 0], 2,
               LAMBDA t : Done([t EXCEPT !.servants = @ + 1]))

\* No one counts the servants here.
raise_dead(s, w, p) ==
    IF ~s.corpse THEN Throw(s)
    ELSE Spell(s, w, {"OUTOFRANGE", "NOROOM"}, p, 2,
               LAMBDA t : Done([t EXCEPT !.corpse = FALSE, !.servants = @ + 1]))

mass_raise_dead(s, w, p) ==
    Spell(s, w, {"CANNOTTHROW"}, p, 2,
          LAMBDA t : Done(IF t.corpse /\ w # "NOROOM"
                          THEN [t EXCEPT !.corpse = FALSE, !.servants = @ + 1] ELSE t))

convince(s, w) ==
    IF s.target # "MONSTER" \/ s.servants >= 2 THEN Throw(s)
    ELSE Spell(s, w, {"ATTACKNOTALLOWED", "NOTACCESSIBLE"}, [mana |-> SummonCost, soul |-> 0], 2,
               LAMBDA t : Done([t EXCEPT !.servants = @ + 1, !.target = "nobody"]))

challenge(s, w, p) == Spell(s, w, {}, p, 1, LAMBDA t : Done(Effect(t, "challenge")))

-----------------------------------------------------------------------------
(* Spells that help.                                                       *)

heal(s, w, p) == Spell(s, w, {"NOTACCESSIBLE"}, p, 1, LAMBDA t : Done(Effect(t, "heal")))

mass_heal(s, w, p) == Spell(s, w, {"CANNOTTHROW"}, p, 1, LAMBDA t : Done(Effect(t, "heal")))

heal_friend(s, w, p) ==
    Spell(s, w, {"PLAYERNOTONLINE", "OUTOFRANGE"}, p, 1,
          LAMBDA t : Done(Effect(t, "heal")))

refresh_mana(s, w, p) ==
    Spell(s, w, {}, p, 1, LAMBDA t : Done([Effect(t, "mana") EXCEPT !.mana = MaxMagic]))

\* Haste, or with the rune of paralysis its contrary.
magic_go_strength(s, w, p) ==
    Spell(s, w, {"NOTACCESSIBLE", "ATTACKNOTALLOWED"}, p, 1, LAMBDA t : Done(Effect(t, "speed")))

shielding(s, w, p) == Spell(s, w, {}, p, 1, LAMBDA t : Done(Effect(t, "shield")))

negate_poison(s, w, p) == Spell(s, w, {}, p, 1, LAMBDA t : Done(Effect(t, "cure")))

enlight(s, w, p) == Spell(s, w, {}, p, 1, LAMBDA t : Done(Effect(t, "light")))

find_person(s, w, p) ==
    Spell(s, w, {"PLAYERNOTONLINE"}, p, 1, LAMBDA t : Done(Effect(t, "found")))

-----------------------------------------------------------------------------
(* Spells that hide and move.                                              *)

invisibility(s, w, p) == Spell(s, w, {}, p, 1, LAMBDA t : Done(Effect(t, "outfit")))

cancel_invisibility(s, w, p) ==
    Spell(s, w, {"CANNOTTHROW"}, p, 1, LAMBDA t : Done(Effect(t, "seen")))

creature_illusion(s, w, p) ==
    Spell(s, w, {"CREATURENOTEXISTING", "NOTACCESSIBLE"}, p, 1, LAMBDA t : Done(Effect(t, "outfit")))

object_illusion(s, w, p) == Spell(s, w, {"NOTMOVABLE"}, p, 1, LAMBDA t : Done(Effect(t, "outfit")))

magic_rope(s, w, p) == Spell(s, w, {"NOTACCESSIBLE"}, p, 1, LAMBDA t : Done(Effect(t, "moved")))

magic_climbing(s, w, p) == Spell(s, w, {"NOTACCESSIBLE"}, p, 1, LAMBDA t : Done(Effect(t, "moved")))

-----------------------------------------------------------------------------
(* Spells that make objects.  Where create_at_creature finds no room in    *)
(* the inventory it uses the field, so that none of them fails.            *)

create_food(s, w, p) == Spell(s, w, {}, p, 1, LAMBDA t : Done(Effect(t, "goods")))

create_arrows(s, w, p) == Spell(s, w, {}, p, 1, LAMBDA t : Done(Effect(t, "goods")))

enchant_object(s, w, p) == Spell(s, w, {"MAGICITEM"}, p, 1, LAMBDA t : Done(Effect(t, "goods")))

\* One blank rune in a hand becomes a rune of the spell.
EnchantRune(s, p, hand) ==
    IF s[hand] # "blank" THEN Throw(s)
    ELSE Spell(s, "NOERROR", {}, p, 1, LAMBDA t : Done([t EXCEPT ![hand] = "filled"]))

\* check_spellbook, check_account and check_level.
MayCast(s, w) == w # "SPELLUNKNOWN" /\ s.wait = 0

\* RuneSpell: an exception of the second hand counts only without a first.
RuneSpell(s, w, p) ==
    IF ~MayCast(s, w) THEN Throw(s)
    ELSE LET first  == EnchantRune(s, p, "right")
             second == EnchantRune(first.s, p, "left")
         IN IF s.right = "blank" /\ first.result = "failed" THEN first
            ELSE IF "done" \in {first.result, second.result} THEN Done(second.s) ELSE Throw(second.s)

-----------------------------------------------------------------------------
(* Commands.                                                               *)

Aggressive == {"mass_combat", "angle_combat", "combat", "create_field", "mass_create_field",
               "create_field_wall", "paralyze"}

Casts == {"heal", "mass_heal", "heal_friend", "haste", "summon_creature", "enlight", "angle_combat",
          "mass_combat", "find_person", "negate_poison", "creature_illusion", "create_food",
          "shielding", "invisibility", "create_arrows", "magic_rope", "magic_climbing",
          "mass_raise_dead", "cancel_invisibility", "enchant_object", "challenge", "CreateFieldAhead"}

\* The switch of CastSpell.
CastCase(s, w, p, spell) ==
    CASE spell = "heal" -> heal(s, w, p)
      [] spell = "mass_heal" -> mass_heal(s, w, p)
      [] spell = "heal_friend" -> heal_friend(s, w, p)
      [] spell = "haste" -> magic_go_strength(s, "NOERROR", p)
      [] spell = "summon_creature" -> summon_creature(s, w, p)
      [] spell = "enlight" -> enlight(s, w, p)
      [] spell = "angle_combat" -> angle_combat(s, w, p)
      [] spell = "mass_combat" -> mass_combat(s, w, p)
      [] spell = "find_person" -> find_person(s, w, p)
      [] spell = "negate_poison" -> negate_poison(s, w, p)
      [] spell = "creature_illusion" -> creature_illusion(s, w, p)
      [] spell = "create_food" -> create_food(s, w, p)
      [] spell = "shielding" -> shielding(s, w, p)
      [] spell = "invisibility" -> invisibility(s, w, p)
      [] spell = "create_arrows" -> create_arrows(s, w, p)
      [] spell = "magic_rope" -> magic_rope(s, w, p)
      [] spell = "magic_climbing" -> magic_climbing(s, w, p)
      [] spell = "mass_raise_dead" -> mass_raise_dead(s, w, p)
      [] spell = "cancel_invisibility" -> cancel_invisibility(s, w, p)
      [] spell = "enchant_object" -> enchant_object(s, w, p)
      [] spell = "challenge" -> challenge(s, w, p)
      [] spell = "CreateFieldAhead" -> CreateFieldAhead(s, w, p)

\* CastSpell
CastSpell(s, w, p, spell) ==
    IF ~MayCast(s, w) \/ (spell \in Aggressive /\ w = "PROTECTIONZONE") THEN Throw(s)
    ELSE CastCase(s, w, p, spell)

Runes == {"heal", "combat", "convince", "object_illusion", "mass_combat", "mass_create_field",
          "create_field", "create_field_wall", "delete_field", "negate_poison", "paralyze",
          "cleanup_field", "raise_dead"}

NoPrice == [mana |-> 0, soul |-> 0]

\* The switch of use_magic_item.  heal is given to the target, at no price.
RuneCase(s, w, p, spell) ==
    CASE spell = "heal" -> IF s.target = "nobody" THEN Throw(s)
                           ELSE heal(s, w, [mana |-> -1, soul |-> 0])
      [] spell = "combat" -> combat(s, w, NoPrice)
      [] spell = "convince" -> convince(s, w)
      [] spell = "object_illusion" -> object_illusion(s, w, NoPrice)
      [] spell = "mass_combat" -> mass_combat(s, w, NoPrice)
      [] spell = "mass_create_field" -> mass_create_field(s, w, NoPrice)
      [] spell = "create_field" -> create_field(s, w, NoPrice)
      [] spell = "create_field_wall" -> create_field_wall(s, w, NoPrice)
      [] spell = "delete_field" -> delete_field(s, w, NoPrice)
      [] spell = "negate_poison" -> IF s.target = "nobody" THEN Throw(s) ELSE negate_poison(s, w, NoPrice)
      [] spell = "paralyze" -> IF s.target = "nobody" \/ w = "NOTUSABLE" THEN Throw(s)
                               ELSE magic_go_strength(s, w, p)
      [] spell = "cleanup_field" -> cleanup_field(s, w, NoPrice)
      [] spell = "raise_dead" -> raise_dead(s, w, NoPrice)

\* DeleteRune, which takes a rune that no longer exists for an error.
DeleteRune(s) ==
    IF s.charges = 0 THEN [s |-> s, result |-> "error"] ELSE Done([s EXCEPT !.charges = @ - 1])

\* use_magic_item
UseMagicItem(s, w, p, spell) ==
    IF \/ w = "LOWMAGICLEVEL" \/ s.wait > 0
       \/ spell \in Aggressive /\ w \in {"PROTECTIONZONE", "NOTONMAP"}
    THEN Throw(s)
    ELSE LET r == RuneCase(s, w, p, spell) IN IF r.result = "done" THEN DeleteRune(r.s) ELSE r

\* drink_potion of mana or of life.
DrinkPotion(s, w, liquid) ==
    LET r == IF liquid = "LIQUID_MANA" THEN refresh_mana(s, w, NoPrice) ELSE heal(s, w, NoPrice)
    IN IF r.result = "done" THEN Done(Effect(r.s, "emptied")) ELSE r

-----------------------------------------------------------------------------
(* Commands of gamemasters: without the right nothing happens, and a wrong *)
(* argument (NOTUSABLE) is answered with a message.                        *)

WithRight(s, w, throws, Act(_)) ==
    IF w = "NORIGHT" THEN Done(s) ELSE IF w \in throws THEN Throw(s) ELSE Act(s)

Gives(s, w, e) == WithRight(s, w, {}, LAMBDA t : IF w = "NOTUSABLE" THEN Done(t) ELSE Done(Effect(t, e)))

create_thing(s, w) == Gives(s, w, "goods")
create_money(s, w) == Gives(s, w, "goods")
change_data(s, w) == Gives(s, w, "goods")
create_knowledge(s, w) == Gives(s, w, "skills")
set_quest_value(s, w) == Gives(s, w, "skills")
change_profession(s, w) == Gives(s, w, "skills")

teleport(s, w) == WithRight(s, w, {"NOROOM"}, LAMBDA t : Gives(t, w, "moved"))

teleport_to_creature(s, w) ==
    WithRight(s, w, {"PLAYERNOTONLINE", "NOROOM", "PROTECTIONZONE"}, LAMBDA t : Gives(t, w, "moved"))

teleport_player_to_me(s, w) ==
    WithRight(s, w, {"PLAYERNOTONLINE", "NOROOM"}, LAMBDA t : Gives(t, w, "moved"))

home_teleport(s, w) == WithRight(s, w, {"PLAYERNOTONLINE"}, LAMBDA t : Done(Effect(t, "moved")))

kick_player(s, w) == WithRight(s, w, {"PLAYERNOTONLINE"}, LAMBDA t : Done(Effect(t, "moved")))

\* The victim dies without damage, unless a protection zone is there.
kill_all_monsters(s, w) ==
    WithRight(s, w, {}, LAMBDA t : IF w \in {"PROTECTIONZONE", "CANNOTTHROW"} THEN Done(t) ELSE Strike(t))

Commands == {"create_thing", "create_money", "change_data", "create_knowledge", "set_quest_value",
             "change_profession", "teleport", "teleport_to_creature", "teleport_player_to_me",
             "home_teleport", "kick_player", "kill_all_monsters", "cleanup_field",
             "magic_climbing", "summon_creature"}

\* The switches of CharacterRightSpell and AccountRightSpell.  A gamemaster's
\* monster has no master, and a gamemaster pays nothing.
RightSpell(s, w, spell) ==
    CASE spell = "create_thing" -> create_thing(s, w)
      [] spell = "create_money" -> create_money(s, w)
      [] spell = "change_data" -> change_data(s, w)
      [] spell = "create_knowledge" -> create_knowledge(s, w)
      [] spell = "set_quest_value" -> set_quest_value(s, w)
      [] spell = "change_profession" -> change_profession(s, w)
      [] spell = "teleport" -> teleport(s, w)
      [] spell = "teleport_to_creature" -> teleport_to_creature(s, w)
      [] spell = "teleport_player_to_me" -> teleport_player_to_me(s, w)
      [] spell = "home_teleport" -> home_teleport(s, w)
      [] spell = "kick_player" -> kick_player(s, w)
      [] spell = "kill_all_monsters" -> kill_all_monsters(s, w)
      [] spell = "cleanup_field" -> WithRight(s, w, {}, LAMBDA t : cleanup_field(t, "NOERROR", NoPrice))
      [] spell = "magic_climbing" -> WithRight(s, w, {}, LAMBDA t : magic_climbing(t, w, NoPrice))
      [] spell = "summon_creature" ->
             WithRight(s, w, {"CREATURENOTEXISTING", "NOROOM"},
                       LAMBDA t : Done([t EXCEPT !.target = "MONSTER"]))

\* What the world may answer.  SPELLUNKNOWN stands for all that CastSpell asks
\* about the player, LOWMAGICLEVEL for all that use_magic_item does,
\* PLAYERNOTONLINE for a name that no player or more than one has.
World == {"NOERROR", "SPELLUNKNOWN", "LOWMAGICLEVEL",
          "PROTECTIONZONE", "SECUREMODE", "CANNOTTHROW", "NOROOM", "DIRECTION_NONE", "OUTOFRANGE",
          "CREATURENOTEXISTING", "NOTACCESSIBLE", "ATTACKNOTALLOWED", "PLAYERNOTONLINE",
          "NOTMOVABLE", "MAGICITEM", "NOTUSABLE", "NOTONMAP", "NORIGHT"}

\* check_for_spell and the callers of the others: an exception ends the command.
Ends(r, mana, soul, charges) ==
    /\ r.s.servants <= Slaves
    /\ scene' = r.s
    /\ cast' = [result |-> r.result, mana |-> mana, soul |-> soul, charges |-> charges]

Begin == [scene EXCEPT !.effects = {}]

MagicCommand ==
    /\ cast = Idle
    /\ \E w \in World, p \in Prices :
           \/ \E spell \in Casts :
                  Ends(CastSpell(Begin, w, p, spell),
                       IF spell = "summon_creature" THEN p.mana + SummonCost ELSE p.mana,
                       IF spell = "summon_creature" THEN 0 ELSE p.soul, 0)
           \/ /\ scene.charges > 0
              /\ \E spell \in Runes :
                     Ends(UseMagicItem(Begin, w, p, spell),
                          IF spell = "convince" THEN SummonCost ELSE IF spell = "paralyze" THEN p.mana ELSE 0,
                          IF spell = "paralyze" THEN p.soul ELSE 0, 1)
           \/ LET r == RuneSpell(Begin, w, p)
                  n == Cardinality({h \in {"left", "right"} : scene[h] # r.s[h]})
              IN Ends(r, n * p.mana, n * p.soul, 0)

MagicRight ==
    /\ cast = Idle
    /\ \E w \in World :
           \/ \E liquid \in {"LIQUID_MANA", "LIQUID_LIFE"} : Ends(DrinkPotion(Begin, w, liquid), 0, 0, 0)
           \/ \E spell \in Commands : Ends(RightSpell(Begin, w, spell), 0, 0, 0)

\* Time passes: exhaustion ends and points come back.
MagicRest ==
    /\ scene' \in {[Begin EXCEPT !.wait = IF @ = 0 THEN 0 ELSE @ - 1],
                   [Begin EXCEPT !.mana = IF @ = MaxMagic THEN @ ELSE @ + 1],
                   [Begin EXCEPT !.soul = IF @ = MaxMagic THEN @ ELSE @ + 1]}
    /\ cast' = Idle

\* The player moves its runes, a creature comes, servants die.
MagicScene ==
    /\ cast = Idle
    /\ \/ \E l \in {"bag", "target"} : scene' = [Begin EXCEPT !.charges = MaxCharges, !.lies = l]
       \/ \E r, l \in {"blank", "filled"} : scene' = [Begin EXCEPT !.right = r, !.left = l]
       \/ \E t \in {"nobody", "MONSTER", "PLAYER"} : scene' = [Begin EXCEPT !.target = t]
       \/ scene' = [Begin EXCEPT !.servants = 0]
    /\ cast' = Idle

MagicNext == MagicCommand \/ MagicRight \/ MagicRest \/ MagicScene

-----------------------------------------------------------------------------
(* Properties.                                                             *)

Paid ==
    LET before == [scene EXCEPT !.effects = {}]
        mana == IF scene.unlimited THEN 0 ELSE cast'.mana
        soul == IF scene.unlimited THEN 0 ELSE cast'.soul
    IN CASE cast'.result = "failed" -> [scene' EXCEPT !.wait = scene.wait] = before
         [] cast'.result = "done" -> /\ scene'.mana = scene.mana - mana \/ "mana" \in scene'.effects
                                     /\ scene'.soul = scene.soul - soul
                                     /\ cast'.charges = 1 => scene'.charges = scene.charges - 1
         [] cast'.result = "error" -> scene.lies = "target" /\ scene'.charges = 0
         [] OTHER -> TRUE

\* A spell that fails takes no mana, soul points, charge, rune or servant and
\* has no effect; one that succeeds takes its price once, for each rune that it
\* makes (check_mana before every effect and after every check, DeleteRune).
\* Only the rune that a spell has swept away is missing when it is to be
\* discharged: that is the one error.
SpellPaid == [][Paid]_magicVars

MagicSpec == MagicInit /\ [][MagicNext]_magicVars

=============================================================================
