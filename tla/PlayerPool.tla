----------------------------- MODULE PlayerPool -----------------------------
(***************************************************************************)
(* The player data pool (creature/player/player.cpp, "Player Pool") and    *)
(* the threads that share it.                                              *)
(*                                                                         *)
(* A slot keeps one character's record in memory.  `Locked' names the      *)
(* thread that may touch the record, `Sticky' counts the parties that      *)
(* still need it, `Dirty' says that the file is older than the record.     *)
(*   - a communication thread assigns a slot during login, loads the       *)
(*     record, and hands the character over to the game thread;            *)
(*   - the game thread attaches the slot of an entering player, keeps it   *)
(*     locked while the player is online, writes it back at logout,        *)
(*     delivers mail and empties the pool at shutdown;                     *)
(*   - the reader thread loads the record of an offline addressee of mail; *)
(*   - the writer thread saves slots nobody uses.                          *)
(* Critical sections of PlayerDataPoolMutex are one step.  What the code   *)
(* does outside the mutex (loading, clearing a slot after a failed load,   *)
(* releasing the lock, saving) is a step of its own.                       *)
(***************************************************************************)
EXTENDS Integers, Sequences, FiniteSets

CONSTANTS
    Comm,           \* communication threads (one login attempt at a time each)
    Game, Reader, Writer, NoThread,
    Char, NoChar,   \* character ids; NoChar is CharacterID 0
    PoolSize,       \* NARRAY(PlayerDataPool)
    MaxLogins,      \* bound on the number of login attempts
    MaxWrites,      \* bound on mails sent and depots saved
    MaxSticky,      \* bound on the retries of the reader thread
    Unreadable      \* the characters whose file may turn out to be unreadable

Thread == Comm \cup {Game, Reader, Writer}
Worker == Comm \cup {Reader}      \* the threads that call assign_player_pool_slot
Slot == 1 .. PoolSize
NoSlot == 0

ASSUME PoolAssumption ==
    /\ PoolSize \in Nat \ {0}
    /\ MaxLogins \in Nat /\ MaxWrites \in Nat /\ MaxSticky \in Nat
    /\ Unreadable \subseteq Char
    /\ NoChar \notin Char
    /\ NoThread \notin Thread
    /\ Game \notin Worker \cup {Writer}
    /\ Reader \notin Comm
    /\ Writer \notin Worker

VARIABLES
    CharacterID, Locked, Sticky, Dirty, Data,   \* the slots; Data is a version number
    File,           \* the version on disk, 0 for a character without a file
    Truth,          \* history: the version every committed change has led to
    pc, ptr, who,   \* workers: control, their Slot pointer, the character asked for
    login,          \* the CharacterID a login packet carries to the game thread
    wpc, wslot,     \* writer thread
    gpc, gslot, gnext, gconn,   \* game thread: control, slot, return point, connection
    Player,         \* PlayerData of every online player, NoSlot when offline
    DelayedMails,   \* mails waiting for an offline addressee
    orders, replies,            \* LOADCHARACTER orders and CHARACTERDATA replies
    logins, writes  \* counters for the bounds

slots == <<CharacterID, Locked, Sticky, Dirty, Data>>
workers == <<pc, ptr, who, login>>
writer == <<wpc, wslot>>
game == <<gpc, gslot, gnext, gconn, Player>>
disk == <<File, Truth>>
mail == <<DelayedMails, orders, replies>>
bounds == <<logins, writes>>
vars == <<slots, workers, writer, game, disk, mail, bounds>>

SlotsOK ==
    /\ CharacterID \in [Slot -> Char \cup {NoChar}]
    /\ Locked \in [Slot -> Thread \cup {NoThread}]
    /\ Sticky \in [Slot -> Int]
    /\ Dirty \in [Slot -> BOOLEAN]
    /\ Data \in [Slot -> Nat]

WorkersOK ==
    /\ pc \in [Worker -> {"idle", "assign", "loading", "unload", "assigned",
                          "accepted", "submit", "reply", "waiting"}]
    /\ ptr \in [Worker -> Slot \cup {NoSlot}]
    /\ who \in [Worker -> Char \cup {NoChar}]
    /\ login \in [Comm -> Char \cup {NoChar}]

WriterOK ==
    /\ wpc \in {"idle", "attach", "save", "release"}
    /\ wslot \in Slot \cup {NoSlot}

GameOK ==
    /\ gpc \in {"idle", "attach", "decrease", "release", "ending", "exit",
                "drain", "exitattach", "free", "exited"}
    /\ gslot \in 0 .. PoolSize + 1
    /\ gnext \in {"idle", "ending", "drain", "exit"}
    /\ gconn \in Comm \cup {NoThread}
    /\ Player \in [Char -> Slot \cup {NoSlot}]

DiskOK == File \in [Char -> Nat] /\ Truth \in [Char -> Nat]

MailOK ==
    /\ DelayedMails \in [Char -> Nat]
    /\ orders \in Seq(Char)
    /\ replies \in Seq(Char)

BoundsOK == logins \in 0 .. MaxLogins /\ writes \in 0 .. MaxWrites

\* Every variable stays in its type; in particular send_mails never takes a
\* mail off an empty list and exit_player_pool never runs past the pool.
TypeOK == SlotsOK /\ WorkersOK /\ WriterOK /\ GameOK /\ DiskOK /\ MailOK /\ BoundsOK

Init ==
    /\ CharacterID = [s \in Slot |-> NoChar]
    /\ Locked = [s \in Slot |-> NoThread]
    /\ Sticky = [s \in Slot |-> 0]
    /\ Dirty = [s \in Slot |-> FALSE]
    /\ Data = [s \in Slot |-> 0]
    /\ File = [c \in Char |-> 0]
    /\ Truth = [c \in Char |-> 0]
    /\ pc = [t \in Worker |-> "idle"]
    /\ ptr = [t \in Worker |-> NoSlot]
    /\ who = [t \in Worker |-> NoChar]
    /\ login = [t \in Comm |-> NoChar]
    /\ wpc = "idle" /\ wslot = NoSlot
    /\ gpc = "idle" /\ gslot = NoSlot /\ gnext = "idle" /\ gconn = NoThread
    /\ Player = [c \in Char |-> NoSlot]
    /\ DelayedMails = [c \in Char |-> 0]
    /\ orders = <<>> /\ replies = <<>>
    /\ logins = 0 /\ writes = 0

-----------------------------------------------------------------------------
(* Operations on slots.  Definitions named Bug... are mutants: each is the *)
(* definition after it with a plausible mistake, and some property must    *)
(* fail when it takes that definition's place.                             *)

\* Mutant: a locked slot is not found.
BugSlotsOf(c) == {s \in Slot : CharacterID[s] = c /\ Locked[s] = NoThread}
SlotsOf(c) == {s \in Slot : CharacterID[s] = c}     \* get_player_pool_slot
First(S) == CHOOSE s \in S : \A r \in S : s <= r    \* the scan order of the pool

Unused(s) == Locked[s] = NoThread /\ Sticky[s] = 0

\* The slot a character that is not in the pool gets: an empty one, else a
\* clean unused one, else an unused one, which is saved on the way.
Candidates ==
    LET empty == {s \in Slot : CharacterID[s] = NoChar}
        clean == {s \in Slot : Unused(s) /\ ~Dirty[s]}
    IN  IF empty # {} THEN empty
        ELSE IF clean # {} THEN clean
        ELSE {s \in Slot : Unused(s)}

FileOf(c) == IF c = NoChar THEN 0 ELSE File[c]

\* SavePlayerData for a slot that is dirty.
FileAfterSave(s) ==
    IF Dirty[s] /\ CharacterID[s] # NoChar
    THEN [File EXCEPT ![CharacterID[s]] = Data[s]]
    ELSE File

Lock(s, t) == Locked' = [Locked EXCEPT ![s] = t]

\* Leaves the slot alone, with an error message, unless t holds it.
Release(s, t) ==
    Locked' = IF Locked[s] = t THEN [Locked EXCEPT ![s] = NoThread] ELSE Locked

AddSticky(s, n) == Sticky' = [Sticky EXCEPT ![s] = @ + n]

Goto(t, label) == pc' = [pc EXCEPT ![t] = label]

\* The thread is done with its slot.
Finish(t) ==
    /\ Goto(t, "idle")
    /\ ptr' = [ptr EXCEPT ![t] = NoSlot]
    /\ who' = [who EXCEPT ![t] = NoChar]

-----------------------------------------------------------------------------
(* assign_player_pool_slot(CharacterID, DontWait = true)                   *)

\* Mutant: the slot is taken whether or not it is locked.
BugAssignLock(t) ==
    /\ pc[t] = "assign"
    /\ \E s \in SlotsOf(who[t]) : Lock(s, t) /\ ptr' = [ptr EXCEPT ![t] = s]
    /\ Goto(t, "assigned")
    /\ UNCHANGED <<CharacterID, Sticky, Dirty, Data, who, login, writer, game, disk, mail, bounds>>

AssignLock(t) ==
    /\ pc[t] = "assign"
    /\ \E s \in SlotsOf(who[t]) :
          /\ s = First(SlotsOf(who[t]))
          /\ Locked[s] = NoThread
          /\ Lock(s, t)
          /\ ptr' = [ptr EXCEPT ![t] = s]
    /\ Goto(t, "assigned")
    /\ UNCHANGED <<CharacterID, Sticky, Dirty, Data, who, login, writer, game, disk, mail, bounds>>

AssignBusy(t) ==
    /\ pc[t] = "assign"
    /\ \E s \in SlotsOf(who[t]) :
          /\ s = First(SlotsOf(who[t]))
          /\ Locked[s] # NoThread
          /\ AddSticky(s, 1)
          /\ ptr' = [ptr EXCEPT ![t] = s]
    /\ Goto(t, "assigned")
    /\ UNCHANGED <<CharacterID, Locked, Dirty, Data, who, login, writer, game, disk, mail, bounds>>

AssignFresh(t) ==
    /\ pc[t] = "assign"
    /\ SlotsOf(who[t]) = {}
    /\ \E s \in Candidates :
          /\ s = First(Candidates)
          /\ File' = FileAfterSave(s)
          /\ CharacterID' = [CharacterID EXCEPT ![s] = who[t]]
          /\ Lock(s, t)
          /\ Sticky' = [Sticky EXCEPT ![s] = 0]
          /\ Dirty' = [Dirty EXCEPT ![s] = FALSE]
          /\ Data' = [Data EXCEPT ![s] = 0]
          /\ ptr' = [ptr EXCEPT ![t] = s]
    /\ Goto(t, "loading")
    /\ UNCHANGED <<Truth, who, login, writer, game, mail, bounds>>

\* "No more slots available": the login is refused, the order is dropped.
AssignNone(t) ==
    /\ pc[t] = "assign"
    /\ SlotsOf(who[t]) = {}
    /\ Candidates = {}
    /\ Finish(t)
    /\ UNCHANGED <<slots, login, writer, game, disk, mail, bounds>>

LoadPlayerData(t) ==
    /\ pc[t] = "loading"
    /\ Data' = [Data EXCEPT ![ptr[t]] = FileOf(CharacterID[ptr[t]])]
    /\ Goto(t, "assigned")
    /\ UNCHANGED <<CharacterID, Locked, Sticky, Dirty, ptr, who, login, writer, game, disk, mail, bounds>>

\* The file does not parse.  The two assignments that give the slot back are
\* made without the mutex, so another thread may see it between them.
LoadFails(t) ==
    /\ who[t] \in Unreadable
    /\ pc[t] = "loading"
    /\ CharacterID' = [CharacterID EXCEPT ![ptr[t]] = NoChar]
    /\ Goto(t, "unload")
    /\ UNCHANGED <<Locked, Sticky, Dirty, Data, ptr, who, login, writer, game, disk, mail, bounds>>

Unload(t) ==
    /\ pc[t] = "unload"
    /\ Lock(ptr[t], NoThread)
    /\ Finish(t)
    /\ UNCHANGED <<CharacterID, Sticky, Dirty, Data, login, writer, game, disk, mail, bounds>>

Assign(t) ==
    \/ AssignLock(t) \/ AssignBusy(t) \/ AssignFresh(t) \/ AssignNone(t)
    \/ LoadPlayerData(t) \/ LoadFails(t) \/ Unload(t)

-----------------------------------------------------------------------------
(* Communication threads: the end of perform_registration and handle_login. *)

\* The query manager accepted the login of character c.
PerformRegistration(t, c) ==
    /\ pc[t] = "idle"
    /\ logins < MaxLogins
    /\ logins' = logins + 1
    /\ who' = [who EXCEPT ![t] = c]
    /\ Goto(t, "assign")
    /\ UNCHANGED <<slots, ptr, login, writer, game, disk, mail, writes>>

\* Premium-only world or waiting list: give the slot back.
BlockLogin(t) ==
    /\ pc[t] = "assigned"
    /\ IF Locked[ptr[t]] = t
       THEN Release(ptr[t], t) /\ UNCHANGED Sticky
       ELSE AddSticky(ptr[t], -1) /\ UNCHANGED Locked
    /\ Finish(t)
    /\ UNCHANGED <<CharacterID, Dirty, Data, login, writer, game, disk, mail, bounds>>

\* Mutant: the slot is not marked before it is released.
BugAcceptLogin(t) ==
    /\ pc[t] = "assigned"
    /\ Goto(t, IF Locked[ptr[t]] = t THEN "accepted" ELSE "submit")
    /\ UNCHANGED <<slots, ptr, who, login, writer, game, disk, mail, bounds>>

\* SlotLocked: the slot was locked by this thread, so it has no mark of this
\* thread yet.  Otherwise assign_player_pool_slot has left the mark.
AcceptLogin(t) ==
    /\ pc[t] = "assigned"
    /\ IF Locked[ptr[t]] = t
       THEN AddSticky(ptr[t], 1) /\ Goto(t, "accepted")
       ELSE UNCHANGED Sticky /\ Goto(t, "submit")
    /\ UNCHANGED <<CharacterID, Locked, Dirty, Data, ptr, who, login, writer, game, disk, mail, bounds>>

\* Mutant: the slot stays locked.
BugReleaseSlot(t) ==
    /\ pc[t] = "accepted"
    /\ Goto(t, IF t = Reader THEN "reply" ELSE "submit")
    /\ UNCHANGED <<slots, ptr, who, login, writer, game, disk, mail, bounds>>

ReleaseSlot(t) ==
    /\ pc[t] = "accepted"
    /\ Release(ptr[t], t)
    /\ Goto(t, IF t = Reader THEN "reply" ELSE "submit")
    /\ UNCHANGED <<CharacterID, Sticky, Dirty, Data, ptr, who, login, writer, game, disk, mail, bounds>>

\* The packet for the game thread carries Slot->CharacterID, read now.
SubmitLogin(t) ==
    /\ pc[t] = "submit"
    /\ login' = [login EXCEPT ![t] = CharacterID[ptr[t]]]
    /\ ptr' = [ptr EXCEPT ![t] = NoSlot]
    /\ Goto(t, "waiting")
    /\ UNCHANGED <<slots, who, writer, game, disk, mail, bounds>>

CommStep(t) ==
    \/ Assign(t)
    \/ BlockLogin(t) \/ AcceptLogin(t) \/ ReleaseSlot(t) \/ SubmitLogin(t)

-----------------------------------------------------------------------------
(* Reader thread: process_load_character_order.                            *)

GetOrder ==
    /\ pc[Reader] = "idle"
    /\ orders # <<>>
    /\ who' = [who EXCEPT ![Reader] = Head(orders)]
    /\ orders' = Tail(orders)
    /\ Goto(Reader, "assign")
    /\ UNCHANGED <<slots, ptr, login, writer, game, disk, DelayedMails, replies, bounds>>

\* The game thread has the slot: the mail is delivered by it.
OrderSuperseded ==
    /\ pc[Reader] = "assigned"
    /\ Locked[ptr[Reader]] = Game
    /\ Finish(Reader)
    /\ UNCHANGED <<slots, login, writer, game, disk, mail, bounds>>

OrderLoaded ==
    /\ pc[Reader] = "assigned"
    /\ Locked[ptr[Reader]] = Reader
    /\ AddSticky(ptr[Reader], 1)
    /\ Goto(Reader, "accepted")
    /\ UNCHANGED <<CharacterID, Locked, Dirty, Data, ptr, who, login, writer, game, disk, mail, bounds>>

\* Any other holder, or none any more: wait a second and assign again.
OrderRetry ==
    /\ pc[Reader] = "assigned"
    /\ Locked[ptr[Reader]] \notin {Game, Reader}
    /\ Locked[ptr[Reader]] = NoThread \/ Sticky[ptr[Reader]] < MaxSticky
    /\ ptr' = [ptr EXCEPT ![Reader] = NoSlot]
    /\ Goto(Reader, "assign")
    /\ UNCHANGED <<slots, who, login, writer, game, disk, mail, bounds>>

CharacterReply ==
    /\ pc[Reader] = "reply"
    /\ replies' = Append(replies, who[Reader])
    /\ Finish(Reader)
    /\ UNCHANGED <<slots, login, writer, game, disk, DelayedMails, orders, bounds>>

ReaderStep ==
    \/ GetOrder \/ Assign(Reader)
    \/ OrderSuperseded \/ OrderLoaded \/ OrderRetry
    \/ ReleaseSlot(Reader) \/ CharacterReply

-----------------------------------------------------------------------------
(* Writer thread: save_player_pool_slots, one iteration of its loop.  The  *)
(* test is made without the mutex; whether the character has been logged   *)
(* out for 15 minutes is left open.                                        *)

SaveCheck(s) ==
    /\ wpc = "idle"
    /\ CharacterID[s] # NoChar /\ Locked[s] = NoThread /\ Sticky[s] <= 0 /\ Dirty[s]
    /\ wslot' = s /\ wpc' = "attach"
    /\ UNCHANGED <<slots, workers, game, disk, mail, bounds>>

SaveAttach ==
    /\ wpc = "attach"
    /\ IF Locked[wslot] = NoThread
       THEN Lock(wslot, Writer) /\ wpc' = "save" /\ UNCHANGED wslot
       ELSE wpc' = "idle" /\ wslot' = NoSlot /\ UNCHANGED Locked
    /\ UNCHANGED <<CharacterID, Sticky, Dirty, Data, workers, game, disk, mail, bounds>>

SaveSlot ==
    /\ wpc = "save"
    /\ File' = FileAfterSave(wslot)
    /\ Dirty' = [Dirty EXCEPT ![wslot] = FALSE]
    /\ wpc' = "release"
    /\ UNCHANGED <<CharacterID, Locked, Sticky, Data, Truth, wslot, workers, game, mail, bounds>>

SaveRelease ==
    /\ wpc = "release"
    /\ Release(wslot, Writer)
    /\ wpc' = "idle" /\ wslot' = NoSlot
    /\ UNCHANGED <<CharacterID, Sticky, Dirty, Data, workers, game, disk, mail, bounds>>

WriterStep == SaveAttach \/ SaveSlot \/ SaveRelease

-----------------------------------------------------------------------------
(* Game thread: entering, online and leaving players.                      *)

\* send_mails: all delayed mail of the slot's character goes to its depot.
SendMails(s) ==
    LET c == CharacterID[s] IN
    IF c # NoChar /\ DelayedMails[c] > 0
    THEN /\ Data' = [Data EXCEPT ![s] = @ + 1]
         /\ Truth' = [Truth EXCEPT ![c] = @ + 1]
         /\ Dirty' = [Dirty EXCEPT ![s] = TRUE]
         /\ DelayedMails' = [DelayedMails EXCEPT ![c] = 0]
    ELSE UNCHANGED <<Data, Truth, Dirty, DelayedMails>>

\* The thread goes on to drop the mark on slot s and release it.
DropSlot(s, next) ==
    /\ gpc' = "decrease" /\ gslot' = s /\ gnext' = next

\* The connection's login is over: it is in the game, or it is disconnected.
LoginOver(t) ==
    /\ Goto(t, "idle")
    /\ who' = [who EXCEPT ![t] = NoChar]
    /\ login' = [login EXCEPT ![t] = NoChar]
    /\ UNCHANGED ptr

\* join_game of a character that is not online: the TPlayer constructor
\* attaches the slot, waiting for whoever has it locked.
JoinNew(t) ==
    /\ gpc = "idle"
    /\ pc[t] = "waiting" /\ login[t] # NoChar
    /\ Player[login[t]] = NoSlot
    /\ gpc' = "attach" /\ gconn' = t
    /\ UNCHANGED <<slots, workers, writer, gslot, gnext, Player, disk, mail, bounds>>

JoinAttach ==
    /\ gpc = "attach"
    /\ \E s \in SlotsOf(login[gconn]) :
          /\ s = First(SlotsOf(login[gconn]))
          /\ Locked[s] = NoThread
          /\ Lock(s, Game)
          /\ SendMails(s)
          /\ Player' = [Player EXCEPT ![login[gconn]] = s]
    /\ LoginOver(gconn)
    /\ gpc' = "idle" /\ gconn' = NoThread
    /\ UNCHANGED <<CharacterID, Sticky, writer, gslot, gnext, File, orders, replies, bounds>>

\* "PlayerData slot not found", or a packet with CharacterID zero.
JoinFails(t) ==
    /\ \/ gpc = "attach" /\ gconn = t /\ SlotsOf(login[t]) = {}
       \/ gpc = "idle" /\ pc[t] = "waiting" /\ login[t] = NoChar
    /\ LoginOver(t)
    /\ gpc' = "idle" /\ gconn' = NoThread
    /\ UNCHANGED <<slots, writer, gslot, gnext, Player, disk, mail, bounds>>

\* The player is dying or logging out: the login fails.
JoinRefused(t) ==
    /\ gpc = "idle"
    /\ pc[t] = "waiting" /\ login[t] # NoChar
    /\ Player[login[t]] # NoSlot
    /\ IF SlotsOf(login[t]) # {} THEN AddSticky(First(SlotsOf(login[t])), -1)
       ELSE UNCHANGED Sticky
    /\ LoginOver(t)
    /\ UNCHANGED <<CharacterID, Locked, Dirty, Data, writer, game, disk, mail, bounds>>

\* The player is online: the new connection takes it over.
TakeOver(t) ==
    /\ gpc = "idle"
    /\ pc[t] = "waiting" /\ login[t] # NoChar
    /\ Player[login[t]] # NoSlot
    /\ LET S == SlotsOf(login[t]) IN
       IF S # {} /\ Sticky[First(S)] > 1 THEN AddSticky(First(S), -1)
       ELSE UNCHANGED Sticky
    /\ LoginOver(t)
    /\ UNCHANGED <<CharacterID, Locked, Dirty, Data, writer, game, disk, mail, bounds>>

\* TConnection::process in state LOGIN: the client is gone before the game
\* thread has looked at its login packet.
DropLogin(t) ==
    /\ gpc = "idle"
    /\ pc[t] = "waiting"
    /\ LoginOver(t)
    /\ UNCHANGED <<slots, writer, game, disk, mail, bounds>>

\* Mutant: the record is not marked as changed.
BugLogout(c) ==
    LET s == Player[c] IN
    /\ gpc \in {"idle", "ending"}
    /\ s # NoSlot
    /\ Data' = [Data EXCEPT ![s] = @ + 1]
    /\ Truth' = [Truth EXCEPT ![c] = @ + 1]
    /\ Player' = [Player EXCEPT ![c] = NoSlot]
    /\ DropSlot(s, gpc)
    /\ UNCHANGED <<CharacterID, Locked, Sticky, Dirty, workers, writer, gconn, File, mail, bounds>>

\* ~TPlayer: at logout, at death, on a challenge ban, or by logout_all_players.
Logout(c) ==
    LET s == Player[c] IN
    /\ gpc \in {"idle", "ending"}
    /\ s # NoSlot
    /\ Data' = [Data EXCEPT ![s] = @ + 1]
    /\ Truth' = [Truth EXCEPT ![c] = @ + 1]
    /\ Dirty' = [Dirty EXCEPT ![s] = TRUE]
    /\ Player' = [Player EXCEPT ![c] = NoSlot]
    /\ DropSlot(s, gpc)
    /\ UNCHANGED <<CharacterID, Locked, Sticky, workers, writer, gconn, File, mail, bounds>>

Decrease ==
    /\ gpc = "decrease"
    /\ AddSticky(gslot, -1)
    /\ gpc' = "release"
    /\ UNCHANGED <<CharacterID, Locked, Dirty, Data, workers, writer, gslot, gnext, gconn, Player, disk, mail, bounds>>

ReleaseGame ==
    /\ gpc = "release"
    /\ Release(gslot, Game)
    /\ gpc' = gnext
    /\ gslot' = IF gnext = "exit" THEN gslot + 1 ELSE gslot
    /\ UNCHANGED <<CharacterID, Sticky, Dirty, Data, workers, writer, gnext, gconn, Player, disk, mail, bounds>>

\* send_mail, for an online addressee whose depot is closed, and save_depot.
WriteDepot(c) ==
    /\ gpc = "idle"
    /\ writes < MaxWrites
    /\ Player[c] # NoSlot
    /\ Data' = [Data EXCEPT ![Player[c]] = @ + 1]
    /\ Truth' = [Truth EXCEPT ![c] = @ + 1]
    /\ Dirty' = [Dirty EXCEPT ![Player[c]] = TRUE]
    /\ writes' = writes + 1
    /\ UNCHANGED <<CharacterID, Locked, Sticky, workers, writer, game, File, mail, logins>>

\* send_mail for an offline addressee.
SendMail(c) ==
    /\ gpc = "idle"
    /\ writes < MaxWrites
    /\ Player[c] = NoSlot
    /\ DelayedMails' = [DelayedMails EXCEPT ![c] = @ + 1]
    /\ orders' = Append(orders, c)
    /\ writes' = writes + 1
    /\ UNCHANGED <<slots, workers, writer, game, disk, replies, logins>>

\* The slot is available: deliver, drop the reader's mark, release.
ProcessCharacterReply ==
    /\ gpc = "idle"
    /\ replies # <<>>
    /\ \E s \in SlotsOf(Head(replies)) :
          /\ s = First(SlotsOf(Head(replies)))
          /\ Locked[s] = NoThread
          /\ Lock(s, Game)
          /\ SendMails(s)
          /\ DropSlot(s, "idle")
    /\ replies' = Tail(replies)
    /\ UNCHANGED <<CharacterID, Sticky, workers, writer, gconn, Player, File, orders, bounds>>

\* Mutant: the mark is removed although the mail was not delivered.
BugIgnoreCharacterReply ==
    /\ gpc = "idle"
    /\ replies # <<>>
    /\ SlotsOf(Head(replies)) # {}
    /\ Locked[First(SlotsOf(Head(replies)))] # NoThread
    /\ AddSticky(First(SlotsOf(Head(replies))), -1)
    /\ replies' = Tail(replies)
    /\ UNCHANGED <<CharacterID, Locked, Dirty, Data, workers, writer, game, disk, DelayedMails, orders, bounds>>

\* The slot is locked or gone: decrease_player_pool_slot_sticky(NULL), which
\* leaves every slot alone.
IgnoreCharacterReply ==
    /\ gpc = "idle"
    /\ replies # <<>>
    /\ \A s \in SlotsOf(Head(replies)) :
          s = First(SlotsOf(Head(replies))) => Locked[s] # NoThread
    /\ replies' = Tail(replies)
    /\ UNCHANGED <<slots, workers, writer, game, disk, DelayedMails, orders, bounds>>

-----------------------------------------------------------------------------
(* Shutdown: logout_all_players, then exit_player_pool, while the other    *)
(* threads are still running.                                              *)

EndGame ==
    /\ gpc = "idle"
    /\ gpc' = "ending"
    /\ UNCHANGED <<slots, workers, writer, gslot, gnext, gconn, Player, disk, mail, bounds>>

ExitStart ==
    /\ gpc = "ending"
    /\ \A c \in Char : Player[c] = NoSlot
    /\ gpc' = "exit" /\ gslot' = 1
    /\ UNCHANGED <<slots, workers, writer, gnext, gconn, Player, disk, mail, bounds>>

\* Top of the loop: skip an empty slot, wait for the release of a locked one.
ExitNext ==
    /\ gpc = "exit"
    /\ \/ /\ gslot > PoolSize
          /\ gpc' = "exited" /\ UNCHANGED gslot
       \/ /\ gslot \in Slot /\ CharacterID[gslot] = NoChar
          /\ gslot' = gslot + 1 /\ UNCHANGED gpc
       \/ /\ gslot \in Slot /\ CharacterID[gslot] # NoChar
          /\ Locked[gslot] = NoThread
          /\ gpc' = "drain" /\ UNCHANGED gslot
    /\ UNCHANGED <<slots, workers, writer, gnext, gconn, Player, disk, mail, bounds>>

\* while (Slot->Sticky > 0): somebody left a mark; deliver mail and remove it.
ExitDrain ==
    /\ gpc = "drain"
    /\ Sticky[gslot] > 0
    /\ Locked[gslot] = NoThread
    /\ Lock(gslot, Game)
    /\ SendMails(gslot)
    /\ DropSlot(gslot, "drain")
    /\ UNCHANGED <<CharacterID, Sticky, workers, writer, gconn, Player, File, orders, replies, bounds>>

ExitDrained ==
    /\ gpc = "drain"
    /\ Sticky[gslot] <= 0
    /\ gpc' = "exitattach"
    /\ UNCHANGED <<slots, workers, writer, gslot, gnext, gconn, Player, disk, mail, bounds>>

ExitAttach ==
    /\ gpc = "exitattach"
    /\ Locked[gslot] = NoThread
    /\ Lock(gslot, Game)
    /\ gpc' = "free"
    /\ UNCHANGED <<CharacterID, Sticky, Dirty, Data, workers, writer, gslot, gnext, gconn, Player, disk, mail, bounds>>

\* free_player_pool_slot, which refuses a slot that is marked.
ExitFree ==
    /\ gpc = "free"
    /\ IF CharacterID[gslot] # NoChar /\ Sticky[gslot] <= 0
       THEN /\ File' = FileAfterSave(gslot)
            /\ Dirty' = [Dirty EXCEPT ![gslot] = FALSE]
            /\ CharacterID' = [CharacterID EXCEPT ![gslot] = NoChar]
       ELSE UNCHANGED <<File, Dirty, CharacterID>>
    /\ gpc' = "release" /\ gnext' = "exit"
    /\ UNCHANGED <<Locked, Sticky, Data, Truth, workers, writer, gslot, gconn, Player, mail, bounds>>

ExitStep == ExitStart \/ ExitNext \/ ExitDrain \/ ExitDrained \/ ExitAttach \/ ExitFree

-----------------------------------------------------------------------------
\* What the players and the operator may do, and what the game thread must do.
Environment ==
    \/ \E t \in Comm, c \in Char : PerformRegistration(t, c)
    \/ \E t \in Comm : DropLogin(t)
    \/ \E c \in Char : WriteDepot(c) \/ SendMail(c) \/ Logout(c)
    \/ \E s \in Slot : SaveCheck(s)
    \/ EndGame

Join(t) == JoinNew(t) \/ JoinFails(t) \/ JoinRefused(t) \/ TakeOver(t)

GameStep ==
    \/ JoinAttach \/ Decrease \/ ReleaseGame
    \/ ProcessCharacterReply \/ IgnoreCharacterReply
    \/ ExitStep

Next ==
    \/ Environment
    \/ \E t \in Comm : CommStep(t) \/ Join(t)
    \/ ReaderStep \/ WriterStep \/ GameStep

Spec == Init /\ [][Next]_vars

\* Every thread that has begun an operation goes on with it.  A thread that
\* waits for a slot polls it every 100 microseconds; the number of logins is
\* bounded, so a slot is not taken away from it over and over and weak
\* fairness is enough.  The reader thread and exit_player_pool both look at a
\* slot once per second and hold it for microseconds; that they meet every
\* single time is excluded by strong fairness for the reader's success.
Fairness ==
    /\ \A t \in Comm : WF_vars(CommStep(t)) /\ WF_vars(Join(t))
    /\ WF_vars(ReaderStep) /\ SF_vars(AssignLock(Reader))
    /\ WF_vars(WriterStep)
    /\ WF_vars(GameStep)
    /\ \A c \in Char : WF_vars(gpc = "ending" /\ Logout(c))

FairSpec == Spec /\ Fairness

-----------------------------------------------------------------------------
(* Safety.                                                                 *)

Running == gpc \notin {"exit", "drain", "exitattach", "free", "exited"}
             /\ (gpc \in {"decrease", "release"} => gnext \in {"idle", "ending"})

\* A character's record is in at most one slot, so no two threads work on two
\* copies of it (get_player_pool_slot returns the first match only).
OneSlotPerCharacter ==
    \A r, s \in Slot : CharacterID[r] = CharacterID[s] /\ r # s => CharacterID[r] = NoChar

\* Whoever works on a record holds its lock: the threads that load, mark or
\* save it, and the game thread for every online player and during the
\* TPlayer destructor and mail delivery.  release_player_pool_slot reports
\* an error in any other case.  (A slot freed by exit_player_pool is empty
\* while it is still locked by the game thread, or by a writer thread that
\* checked it before, so a late login may take it over.)
LockHeld ==
    /\ \A t \in Worker : pc[t] \in {"loading", "accepted"} => Locked[ptr[t]] = t
    /\ wpc \in {"save", "release"} /\ Running => Locked[wslot] = Writer
    /\ gpc \in {"decrease", "free"} \/ (gpc = "release" /\ gnext # "exit") => Locked[gslot] = Game
    /\ \A c \in Char : Player[c] # NoSlot => /\ Locked[Player[c]] = Game
                                             /\ CharacterID[Player[c]] = c

\* The parties that rely on slot s staying in the pool: logins between
\* assign_player_pool_slot and join_game, pending CHARACTERDATA replies, the
\* online player, and a mark the game thread is about to remove.
Marks(s) ==
    {<<"login", t>> : t \in {u \in Worker : ptr[u] = s /\
            \/ pc[u] \in {"accepted", "submit", "reply"}
            \/ u \in Comm /\ pc[u] = "assigned" /\ Locked[s] # u}}
    \cup {<<"login", t>> : t \in {u \in Comm : pc[u] = "waiting" /\ login[u] = CharacterID[s]}}
    \cup {<<"reply", i>> : i \in {j \in DOMAIN replies : replies[j] = CharacterID[s]}}
    \cup {<<"player", c>> : c \in {d \in Char : Player[d] = s}}
    \cup (IF gpc = "decrease" /\ gslot = s THEN {<<"drop", 0>>} ELSE {})

\* Sticky counts at least everybody who relies on the slot, so the slot of a
\* login, of a mail delivery or of an online player is never given to another
\* character, and TPlayer::TakeOver finds Sticky > 1.
MarksCounted ==
    Running => \A s \in Slot : CharacterID[s] # NoChar => Sticky[s] >= Cardinality(Marks(s))

Loading(s) == \E t \in Worker : pc[t] = "loading" /\ ptr[t] = s

\* No committed change of a character (logout, mail, depot) is ever lost: a
\* loaded record has it, and a record that is clean, being loaded or not in
\* the pool has it on disk.
NoLostUpdate ==
    /\ \A s \in Slot : LET c == CharacterID[s] IN
          c # NoChar => /\ ~Loading(s) => Data[s] = Truth[c]
                        /\ ~Dirty[s] => File[c] = Truth[c]
    /\ \A c \in Char : SlotsOf(c) = {} => File[c] = Truth[c]

\* Deferred mail is never forgotten while the server runs, provided that the
\* pool has room for every character: its load order or reply is under way,
\* the record is marked, so that it stays in the pool until the next login of
\* the addressee or the shutdown delivers it, or the addressee is entering.
MailNotForgotten ==
    Running => \A c \in Char \ Unreadable : DelayedMails[c] > 0 =>
        \/ \E i \in DOMAIN orders : orders[i] = c
        \/ who[Reader] = c
        \/ \E s \in SlotsOf(c) : Sticky[s] > 0

\* exit_player_pool ends with "All player data saved.": every committed change
\* is on disk by then.
AllPlayerDataSaved ==
    gpc = "exited" => \A c \in Char : File[c] = Truth[c]

\* A slot is only marked while somebody needs it ("Slot is still needed;
\* cannot be freed." in free_player_pool_slot).
MarkedOnlyIfNeeded ==
    \A s \in Slot : CharacterID[s] # NoChar /\ Sticky[s] > 0 /\ Running
        => Marks(s) # {} \/ \E t \in Worker : ptr[t] = s

-----------------------------------------------------------------------------
(* Liveness.                                                               *)

LoginAnswered ==
    \A t \in Comm : pc[t] = "waiting" ~> pc[t] # "waiting" \/ gpc \in {"ending", "exited"}

ShutdownEnds == gpc = "ending" ~> gpc = "exited"

\* Nobody waits for the pool forever: the game thread answers every login packet
\* unless the game ends first, and exit_player_pool comes to an end.
PoolServes == LoginAnswered /\ ShutdownEnds

=============================================================================
