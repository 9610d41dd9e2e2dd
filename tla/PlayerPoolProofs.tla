---------------------------- MODULE PlayerPoolProofs -------------------------
(***************************************************************************)
(* Proofs about PlayerPool, for every number of threads, characters and    *)
(* slots and without bounds that matter.  Base is inductive in any case.   *)
(* The rest holds when every player file can be read (a failed load takes  *)
(* another thread's lock away, see the run PoolLoadFailure):               *)
(*   - Locks, which implies LockHeld: who works on a record has its lock;  *)
(*   - RecordsKept, which implies NoLostUpdate and builds on the locks;    *)
(*   - Served, which implies MarksCounted: whoever relies on a slot has it *)
(*     and has been counted by Sticky.                                     *)
(*   - Mails, which implies MailNotForgotten when the pool has room for    *)
(*     every character: undelivered mail keeps a mark of its own.          *)
(***************************************************************************)
EXTENDS PlayerPool, SequenceTheorems, FiniteSetTheorems, TLAPS

\* Wherever a thread uses its character or its slot pointer it has one.
WorkerControl ==
    /\ \A t \in Worker : pc[t] # "idle" => who[t] \in Char
    /\ \A t \in Worker : pc[t] \in {"loading", "unload", "assigned", "accepted", "submit", "reply"}
                            => ptr[t] \in Slot

WriterControl == wpc # "idle" => wslot \in Slot

GameControl ==
    /\ gpc \in {"decrease", "release", "drain", "exitattach", "free"} => gslot \in Slot
    /\ gpc = "attach" => gconn \in Comm /\ pc[gconn] = "waiting" /\ login[gconn] \in Char

Control == WorkerControl /\ WriterControl /\ GameControl

Base == TypeOK /\ Control /\ OneSlotPerCharacter

\* The locks of the communication threads and of the reader: a lock of such a
\* thread is on the slot it works on, and that slot is not empty, so nobody
\* takes it for a free one.
WorkerLocks ==
    /\ \A t \in Worker : pc[t] # "unload"
    /\ \A t \in Worker : pc[t] \in {"loading", "accepted"} => Locked[ptr[t]] = t
    /\ \A t \in Worker, s \in Slot : Locked[s] = t =>
          /\ pc[t] \in {"loading", "assigned", "accepted"} /\ ptr[t] = s
          /\ CharacterID[s] # NoChar

\* While the server runs no locked slot is empty, so the writer's lock holds.
RunningLocks ==
    Running => /\ \A s \in Slot : Locked[s] # NoThread => CharacterID[s] # NoChar
               /\ wpc # "idle" => CharacterID[wslot] # NoChar
               /\ wpc \in {"save", "release"} => Locked[wslot] = Writer

\* The game thread: the slot it is about to release is its own and no
\* player's, and nobody is online when exit_player_pool starts.
GameLocks ==
    /\ gpc \in {"decrease", "free"} \/ (gpc = "release" /\ gnext # "exit")
          => Locked[gslot] = Game /\ CharacterID[gslot] # NoChar
    /\ gpc \in {"drain", "exitattach"} => CharacterID[gslot] # NoChar
    /\ gpc \in {"decrease", "release"} => \A c \in Char : Player[c] # gslot
    /\ ~Running => \A c \in Char : Player[c] = NoSlot
    /\ \A c \in Char : Player[c] # NoSlot => Locked[Player[c]] = Game /\ CharacterID[Player[c]] = c

Locks == WorkerLocks /\ RunningLocks /\ GameLocks

-----------------------------------------------------------------------------
(* Facts about the constants and the operations on slots.                  *)

\* What the assumption on the constants means for threads, slots and characters.
LEMMA Consts ==
  /\ \A t \in Comm : t \in Worker
  /\ Reader \in Worker
  /\ \A t \in Worker : t \in Thread /\ t # Game /\ t # Writer /\ t # NoThread
  /\ Game \in Thread /\ Writer \in Thread
  /\ Game # Writer /\ Game # NoThread /\ Writer # NoThread
  /\ \A s \in Slot : s # NoSlot /\ s \in 0 .. PoolSize + 1 /\ s + 1 \in 0 .. PoolSize + 1
  /\ 1 \in 0 .. PoolSize + 1
  /\ NoSlot \notin Slot /\ NoChar \notin Char
BY PoolAssumption DEF Worker, Thread, Slot, NoSlot

\* What an action leaves alone keeps its type.
LEMMA Frame ==
  /\ SlotsOK /\ UNCHANGED slots => SlotsOK'
  /\ WorkersOK /\ UNCHANGED workers => WorkersOK'
  /\ WriterOK /\ UNCHANGED writer => WriterOK'
  /\ GameOK /\ UNCHANGED game => GameOK'
  /\ DiskOK /\ UNCHANGED disk => DiskOK'
  /\ MailOK /\ UNCHANGED mail => MailOK'
  /\ BoundsOK /\ UNCHANGED bounds => BoundsOK'
<1>1. SlotsOK /\ UNCHANGED slots => SlotsOK'
  BY DEF SlotsOK, slots
<1>2. WorkersOK /\ UNCHANGED workers => WorkersOK'
  BY DEF WorkersOK, workers
<1>3. WriterOK /\ UNCHANGED writer => WriterOK'
  BY DEF WriterOK, writer
<1>4. GameOK /\ UNCHANGED game => GameOK'
  BY DEF GameOK, game
<1>5. DiskOK /\ UNCHANGED disk => DiskOK'
  BY DEF DiskOK, disk
<1>6. MailOK /\ UNCHANGED mail => MailOK'
  BY DEF MailOK, mail
<1>7. BoundsOK /\ UNCHANGED bounds => BoundsOK'
  BY DEF BoundsOK, bounds
<1> QED
  BY <1>1, <1>2, <1>3, <1>4, <1>5, <1>6, <1>7

\* Adding to an entry of an integer-valued function, or of a function to the
\* natural numbers, keeps it one.
LEMMA AddInt ==
  ASSUME NEW S, NEW f \in [S -> Int], NEW x, NEW n \in Int
  PROVE  [f EXCEPT ![x] = @ + n] \in [S -> Int]
<1>1. [f EXCEPT ![x] = @ + n] = [y \in S |-> IF y = x THEN f[y] + n ELSE f[y]]
  OBVIOUS
<1>2. \A y \in S : (IF y = x THEN f[y] + n ELSE f[y]) \in Int
  OBVIOUS
<1> QED
  BY <1>1, <1>2

\* Adding one to an entry of a function to the natural numbers keeps it one.
LEMMA Increment ==
  ASSUME NEW S, NEW f \in [S -> Nat], NEW x
  PROVE  [f EXCEPT ![x] = @ + 1] \in [S -> Nat]
<1>1. [f EXCEPT ![x] = @ + 1] = [y \in S |-> IF y = x THEN f[y] + 1 ELSE f[y]]
  OBVIOUS
<1>2. \A y \in S : (IF y = x THEN f[y] + 1 ELSE f[y]) \in Nat
  OBVIOUS
<1> QED
  BY <1>1, <1>2

\* The operations on slots keep the types.
LEMMA StickyType ==
  ASSUME Sticky \in [Slot -> Int], NEW s, NEW n \in Int, AddSticky(s, n)
  PROVE  Sticky' \in [Slot -> Int]
BY AddInt DEF AddSticky

\* A committed change of a record (logout, mail, depot) is a new version.
LEMMA ChangeType ==
  ASSUME TypeOK, NEW s, NEW c,
         Data' = [Data EXCEPT ![s] = @ + 1], Truth' = [Truth EXCEPT ![c] = @ + 1]
  PROVE  Data' \in [Slot -> Nat] /\ Truth' \in [Char -> Nat]
<1>1. Data \in [Slot -> Nat] /\ Truth \in [Char -> Nat]
  BY DEF TypeOK, SlotsOK, DiskOK
<1> QED
  BY <1>1, Increment

\* The slot assign_player_pool_slot takes for a new character is in the pool.
LEMMA CandidateIsSlot == \A s \in Candidates : s \in Slot
BY DEF Candidates

\* SavePlayerData replaces the version on disk.
LEMMA FileType ==
  ASSUME TypeOK, NEW s \in Slot PROVE FileAfterSave(s) \in [Char -> Nat]
BY DEF TypeOK, SlotsOK, DiskOK, FileAfterSave

\* send_mails keeps the types.
LEMMA SendMailsType ==
  ASSUME TypeOK, NEW s \in Slot, SendMails(s)
  PROVE  /\ Data' \in [Slot -> Nat] /\ Truth' \in [Char -> Nat] /\ Dirty' \in [Slot -> BOOLEAN]
         /\ DelayedMails' \in [Char -> Nat]
<1>1. CASE CharacterID[s] # NoChar /\ DelayedMails[CharacterID[s]] > 0
  <2>1. Data' \in [Slot -> Nat] /\ Truth' \in [Char -> Nat]
    BY <1>1, ChangeType DEF SendMails
  <2>2. /\ Dirty' = [Dirty EXCEPT ![s] = TRUE]
        /\ DelayedMails' = [DelayedMails EXCEPT ![CharacterID[s]] = 0]
    BY <1>1 DEF SendMails
  <2> QED
    BY <1>1, <2>1, <2>2 DEF TypeOK, SlotsOK, MailOK
<1>2. CASE ~(CharacterID[s] # NoChar /\ DelayedMails[CharacterID[s]] > 0)
  BY <1>2 DEF TypeOK, SlotsOK, DiskOK, MailOK, SendMails
<1> QED
  BY <1>1, <1>2

-----------------------------------------------------------------------------
(* Base is inductive.                                                      *)

\* Every step of every thread keeps the types.
LEMMA TypeStep ==
  ASSUME Base, Next PROVE TypeOK'
<1>1. ASSUME NEW t \in Worker, AssignLock(t) PROVE TypeOK'
  BY <1>1, Consts, Frame DEF Base, TypeOK, Control, WorkerControl, WriterControl, GameControl,
     SlotsOK, WorkersOK, AssignLock, SlotsOf, Lock, Goto, slots, workers
<1>2. ASSUME NEW t \in Worker, AssignBusy(t) PROVE TypeOK'
  <2>1. Sticky' \in [Slot -> Int]
    BY <1>2, StickyType DEF Base, TypeOK, SlotsOK, AssignBusy
  <2> QED
    BY <1>2, <2>1, Consts, Frame DEF Base, TypeOK, SlotsOK, WorkersOK, AssignBusy, SlotsOf,
       Goto, slots, workers
<1>3. ASSUME NEW t \in Worker, AssignFresh(t) PROVE TypeOK'
  <2>1. File' \in [Char -> Nat]
    BY <1>3, FileType, Consts, CandidateIsSlot DEF Base, TypeOK, DiskOK, Control,
       WriterControl, GameControl, AssignFresh
  <2>2. PICK s \in Slot : /\ CharacterID' = [CharacterID EXCEPT ![s] = who[t]]
                          /\ Lock(s, t)
                          /\ Sticky' = [Sticky EXCEPT ![s] = 0]
                          /\ Dirty' = [Dirty EXCEPT ![s] = FALSE]
                          /\ Data' = [Data EXCEPT ![s] = 0]
                          /\ ptr' = [ptr EXCEPT ![t] = s]
    BY <1>3, CandidateIsSlot DEF AssignFresh
  <2>3. SlotsOK'
    BY <2>2, <1>3, Consts DEF Base, TypeOK, SlotsOK, Control, WorkerControl, AssignFresh, Lock
  <2>4. WorkersOK'
    BY <2>2, <1>3 DEF Base, TypeOK, WorkersOK, workers, AssignFresh, Goto
  <2>5. UNCHANGED <<Truth, writer, game, mail, bounds>>
    BY <1>3 DEF AssignFresh
  <2> QED
    BY <2>1, <2>3, <2>4, <2>5, Frame DEF Base, TypeOK, DiskOK, disk
<1>4. ASSUME NEW t \in Worker, AssignNone(t) PROVE TypeOK'
  BY <1>4, Consts, Frame DEF Base, TypeOK, Control, WorkerControl, WriterControl, GameControl,
     WorkersOK, AssignNone, Finish, Goto, workers
<1>5. ASSUME NEW t \in Worker, LoadPlayerData(t) PROVE TypeOK'
  BY <1>5, Consts, Frame DEF Base, TypeOK, Control, WorkerControl, WriterControl, GameControl,
     SlotsOK, WorkersOK, DiskOK, LoadPlayerData, Goto, FileOf, slots, workers
<1>6. ASSUME NEW t \in Worker, LoadFails(t) PROVE TypeOK'
  BY <1>6, Consts, Frame DEF Base, TypeOK, Control, WorkerControl, WriterControl, GameControl,
     SlotsOK, WorkersOK, LoadFails, Goto, slots, workers
<1>7. ASSUME NEW t \in Worker, Unload(t) PROVE TypeOK'
  BY <1>7, Consts, Frame DEF Base, TypeOK, Control, WorkerControl, WriterControl, GameControl,
     SlotsOK, WorkersOK, Unload, Lock, Finish, Goto, slots, workers
<1>8. ASSUME NEW t \in Worker, ReleaseSlot(t) PROVE TypeOK'
  BY <1>8, Consts, Frame DEF Base, TypeOK, Control, WorkerControl, WriterControl, GameControl,
     SlotsOK, WorkersOK, ReleaseSlot, Release, Goto, slots, workers
<1>9. ASSUME NEW t \in Comm, BlockLogin(t) PROVE TypeOK'
  <2>1. Sticky' \in [Slot -> Int]
    BY <1>9, StickyType DEF Base, TypeOK, SlotsOK, BlockLogin
  <2> QED
    BY <1>9, <2>1, Consts, Frame DEF Base, TypeOK, SlotsOK, WorkersOK, BlockLogin, Release,
       Finish, Goto, slots, workers
<1>10. ASSUME NEW t \in Comm, AcceptLogin(t) PROVE TypeOK'
  <2>1. Sticky' \in [Slot -> Int]
    BY <1>10, StickyType DEF Base, TypeOK, SlotsOK, AcceptLogin
  <2> QED
    BY <1>10, <2>1, Consts, Frame DEF Base, TypeOK, SlotsOK, WorkersOK, AcceptLogin, Goto,
       slots, workers
<1>11. ASSUME NEW t \in Comm, SubmitLogin(t) PROVE TypeOK'
  BY <1>11, Consts, Frame DEF Base, TypeOK, Control, WorkerControl, WriterControl,
     GameControl, WorkersOK, SlotsOK, SubmitLogin, Goto, workers
<1>12. ASSUME NEW t \in Comm, JoinNew(t) PROVE TypeOK'
  BY <1>12, Consts, Frame DEF Base, TypeOK, Control, WorkerControl, WriterControl,
     GameControl, GameOK, JoinNew, game
<1>13. ASSUME NEW t \in Comm, JoinFails(t) PROVE TypeOK'
  BY <1>13, Consts, Frame DEF Base, TypeOK, Control, WorkerControl, WriterControl,
     GameControl, WorkersOK, GameOK, JoinFails, LoginOver, Goto, workers, game
<1>14. ASSUME NEW t \in Comm, JoinRefused(t) PROVE TypeOK'
  <2>1. Sticky' \in [Slot -> Int]
    BY <1>14, StickyType DEF Base, TypeOK, SlotsOK, JoinRefused
  <2> QED
    BY <1>14, <2>1, Consts, Frame DEF Base, TypeOK, SlotsOK, WorkersOK, JoinRefused,
       LoginOver, Goto, slots, workers
<1>15. ASSUME NEW t \in Comm, TakeOver(t) PROVE TypeOK'
  <2>1. Sticky' \in [Slot -> Int]
    BY <1>15, StickyType DEF Base, TypeOK, SlotsOK, TakeOver
  <2> QED
    BY <1>15, <2>1, Consts, Frame DEF Base, TypeOK, SlotsOK, WorkersOK, TakeOver, LoginOver,
       Goto, slots, workers
<1>16. ASSUME NEW t \in Comm, DropLogin(t) PROVE TypeOK'
  BY <1>16, Consts, Frame DEF Base, TypeOK, Control, WorkerControl, WriterControl,
     GameControl, WorkersOK, DropLogin, LoginOver, Goto, workers
<1>17. ASSUME NEW t \in Comm, NEW c \in Char, PerformRegistration(t, c) PROVE TypeOK'
  <2>1. BoundsOK'
    BY <1>17, PoolAssumption DEF Base, TypeOK, BoundsOK, PerformRegistration
  <2> QED
    BY <1>17, <2>1, Consts, Frame DEF Base, TypeOK, WorkersOK, BoundsOK, PerformRegistration,
       Goto, workers, bounds
<1>18. ASSUME NEW c \in Char, WriteDepot(c) PROVE TypeOK'
  <2>1. Data' \in [Slot -> Nat] /\ Truth' \in [Char -> Nat]
    BY <1>18, ChangeType DEF Base, TypeOK, WriteDepot
  <2>2. BoundsOK'
    BY <1>18, PoolAssumption DEF Base, TypeOK, BoundsOK, WriteDepot
  <2> QED
    BY <1>18, <2>1, <2>2, Consts, Frame DEF Base, TypeOK, SlotsOK, DiskOK, BoundsOK,
       WriteDepot, slots, disk, bounds
<1>19. ASSUME NEW c \in Char, SendMail(c) PROVE TypeOK'
  <2>1. BoundsOK'
    BY <1>19, PoolAssumption DEF Base, TypeOK, BoundsOK, SendMail
  <2>2. orders' \in Seq(Char) /\ DelayedMails' \in [Char -> Nat]
    BY <1>19, AppendProperties DEF Base, TypeOK, MailOK, SendMail
  <2> QED
    BY <1>19, <2>1, <2>2, Consts, Frame DEF Base, TypeOK, MailOK, BoundsOK, SendMail, mail,
       bounds
<1>20. ASSUME NEW c \in Char, Logout(c) PROVE TypeOK'
  <2>1. Data' \in [Slot -> Nat] /\ Truth' \in [Char -> Nat]
    BY <1>20, ChangeType DEF Base, TypeOK, Logout
  <2>2. gslot' \in 0 .. PoolSize + 1
    BY <1>20, Consts DEF Base, TypeOK, GameOK, WorkersOK, Control, GameControl, Logout, DropSlot
  <2> QED
    BY <1>20, <2>1, <2>2, Consts, Frame DEF Base, TypeOK, SlotsOK, GameOK, DiskOK, Logout,
       DropSlot, slots, game, disk
<1>21. ASSUME NEW s \in Slot, SaveCheck(s) PROVE TypeOK'
  BY <1>21, Consts, Frame DEF Base, TypeOK, Control, WorkerControl, WriterControl,
     GameControl, WriterOK, SaveCheck, writer
<1>22. CASE GetOrder
  <2>1. Head(orders) \in Char /\ Tail(orders) \in Seq(Char)
    BY <1>22, HeadTailProperties DEF Base, TypeOK, MailOK, GetOrder
  <2> QED
    BY <1>22, <2>1, Consts, Frame DEF Base, TypeOK, WorkersOK, MailOK, GetOrder, Goto,
       workers, mail
<1>23. CASE OrderSuperseded
  BY <1>23, Consts, Frame DEF Base, TypeOK, Control, WorkerControl, WriterControl,
     GameControl, WorkersOK, OrderSuperseded, Finish, Goto, workers
<1>24. CASE OrderLoaded
  <2>1. Sticky' \in [Slot -> Int]
    BY <1>24, StickyType DEF Base, TypeOK, SlotsOK, OrderLoaded
  <2> QED
    BY <1>24, <2>1, Consts, Frame DEF Base, TypeOK, SlotsOK, WorkersOK, OrderLoaded, Goto,
       slots, workers
<1>25. CASE OrderRetry
  BY <1>25, Consts, Frame DEF Base, TypeOK, Control, WorkerControl, WriterControl,
     GameControl, WorkersOK, OrderRetry, Goto, workers
<1>26. CASE CharacterReply
  <2>1. who[Reader] \in Char
    BY <1>26, Consts DEF Base, Control, WorkerControl, CharacterReply
  <2>2. replies' \in Seq(Char)
    BY <1>26, <2>1, AppendProperties DEF Base, TypeOK, MailOK, CharacterReply
  <2> QED
    BY <1>26, <2>1, <2>2, Consts, Frame DEF Base, TypeOK, WorkersOK, MailOK, CharacterReply,
       Finish, Goto, workers, mail
<1>27. CASE SaveAttach
  BY <1>27, Consts, Frame DEF Base, TypeOK, Control, WorkerControl, WriterControl,
     GameControl, SlotsOK, WriterOK, SaveAttach, Lock, slots, writer
<1>28. CASE SaveSlot
  <2>1. File' \in [Char -> Nat]
    BY <1>28, FileType, Consts, CandidateIsSlot DEF Base, TypeOK, DiskOK, Control,
       WriterControl, GameControl, SaveSlot
  <2> QED
    BY <1>28, <2>1, Consts, Frame DEF Base, TypeOK, SlotsOK, WriterOK, DiskOK, SaveSlot,
       slots, writer, disk
<1>29. CASE SaveRelease
  BY <1>29, Consts, Frame DEF Base, TypeOK, Control, WorkerControl, WriterControl,
     GameControl, SlotsOK, WriterOK, SaveRelease, Release, slots, writer
<1>30. CASE JoinAttach
  <2>1. PICK s \in Slot : SendMails(s) /\ Lock(s, Game) /\ Player' = [Player EXCEPT ![login[gconn]] = s]
    BY <1>30 DEF JoinAttach, SlotsOf
  <2>2. /\ Data' \in [Slot -> Nat] /\ Truth' \in [Char -> Nat] /\ Dirty' \in [Slot -> BOOLEAN]
        /\ DelayedMails' \in [Char -> Nat]
    BY <2>1, SendMailsType DEF Base
  <2>3. Locked' \in [Slot -> Thread \cup {NoThread}] /\ Player' \in [Char -> Slot \cup {NoSlot}]
    BY <2>1, Consts DEF Base, TypeOK, SlotsOK, GameOK, Lock
  <2> QED
    BY <1>30, <2>1, <2>2, <2>3, Consts, Frame DEF Base, TypeOK, SlotsOK, WorkersOK, GameOK,
       DiskOK, MailOK, JoinAttach, LoginOver, Goto, slots, workers, game, disk, mail
<1>31. CASE Decrease
  <2>1. Sticky' \in [Slot -> Int]
    BY <1>31, StickyType DEF Base, TypeOK, SlotsOK, Decrease
  <2> QED
    BY <1>31, <2>1, Consts, Frame DEF Base, TypeOK, SlotsOK, GameOK, Decrease, slots, game
<1>32. CASE ReleaseGame
  <2>1. gslot' \in 0 .. PoolSize + 1
    BY <1>32, Consts DEF Base, TypeOK, GameOK, WorkersOK, Control, GameControl, ReleaseGame
  <2> QED
    BY <1>32, <2>1, Consts, Frame DEF Base, TypeOK, SlotsOK, GameOK, ReleaseGame, Release,
       slots, game
<1>33. CASE ProcessCharacterReply
  <2>1. gslot' \in 0 .. PoolSize + 1
    BY <1>33, Consts DEF Base, TypeOK, GameOK, WorkersOK, Control, GameControl,
       ProcessCharacterReply, SlotsOf, DropSlot
  <2>2. replies' \in Seq(Char)
    BY <1>33, HeadTailProperties DEF Base, TypeOK, MailOK, ProcessCharacterReply
  <2>3. PICK s \in Slot : SendMails(s) /\ Lock(s, Game)
    BY <1>33 DEF ProcessCharacterReply, SlotsOf
  <2>4. /\ Data' \in [Slot -> Nat] /\ Truth' \in [Char -> Nat] /\ Dirty' \in [Slot -> BOOLEAN]
        /\ DelayedMails' \in [Char -> Nat]
    BY <2>3, SendMailsType DEF Base
  <2>5. Locked' \in [Slot -> Thread \cup {NoThread}]
    BY <2>3, Consts DEF Base, TypeOK, SlotsOK, GameOK, Lock
  <2> QED
    BY <1>33, <2>1, <2>2, <2>3, <2>4, <2>5, Consts, Frame DEF Base, TypeOK, SlotsOK, GameOK,
       DiskOK, MailOK, ProcessCharacterReply, DropSlot, slots, game, disk, mail
<1>34. CASE IgnoreCharacterReply
  <2>1. replies' \in Seq(Char)
    BY <1>34, HeadTailProperties DEF Base, TypeOK, MailOK, IgnoreCharacterReply
  <2> QED
    BY <1>34, <2>1, Consts, Frame DEF Base, TypeOK, MailOK, IgnoreCharacterReply, mail
<1>35. CASE ExitStart
  <2>1. gslot' \in 0 .. PoolSize + 1
    BY <1>35, Consts DEF Base, TypeOK, GameOK, WorkersOK, Control, GameControl, ExitStart
  <2> QED
    BY <1>35, <2>1, Consts, Frame DEF Base, TypeOK, GameOK, ExitStart, game
<1>36. CASE ExitNext
  <2>1. gslot' \in 0 .. PoolSize + 1
    BY <1>36, Consts DEF Base, TypeOK, GameOK, WorkersOK, Control, GameControl, ExitNext
  <2> QED
    BY <1>36, <2>1, Consts, Frame DEF Base, TypeOK, GameOK, ExitNext, game
<1>37. CASE ExitDrain
  <2>1. gslot' \in 0 .. PoolSize + 1
    BY <1>37, Consts DEF Base, TypeOK, GameOK, WorkersOK, Control, GameControl, ExitDrain,
       DropSlot
  <2>2. /\ Data' \in [Slot -> Nat] /\ Truth' \in [Char -> Nat] /\ Dirty' \in [Slot -> BOOLEAN]
        /\ DelayedMails' \in [Char -> Nat]
    BY <1>37, SendMailsType DEF Base, Control, GameControl, ExitDrain
  <2>3. Locked' \in [Slot -> Thread \cup {NoThread}]
    BY <1>37, Consts DEF Base, TypeOK, SlotsOK, GameOK, Lock, ExitDrain
  <2> QED
    BY <1>37, <2>1, <2>2, <2>3, Consts, Frame DEF Base, TypeOK, SlotsOK, GameOK, DiskOK,
       MailOK, ExitDrain, DropSlot, slots, game, disk, mail
<1>38. CASE ExitDrained
  BY <1>38, Consts, Frame DEF Base, TypeOK, Control, WorkerControl, WriterControl,
     GameControl, GameOK, ExitDrained, game
<1>39. CASE ExitAttach
  BY <1>39, Consts, Frame DEF Base, TypeOK, Control, WorkerControl, WriterControl,
     GameControl, SlotsOK, GameOK, ExitAttach, Lock, slots, game
<1>40. CASE ExitFree
  <2>1. File' \in [Char -> Nat]
    BY <1>40, FileType, Consts, CandidateIsSlot DEF Base, TypeOK, DiskOK, Control,
       WriterControl, GameControl, ExitFree
  <2>2. SlotsOK'
    <3>1. /\ CharacterID' \in {CharacterID, [CharacterID EXCEPT ![gslot] = NoChar]}
          /\ Dirty' \in {Dirty, [Dirty EXCEPT ![gslot] = FALSE]}
          /\ UNCHANGED <<Locked, Sticky, Data>>
      BY <1>40 DEF ExitFree
    <3> QED
      BY <3>1 DEF Base, TypeOK, SlotsOK
  <2>3. GameOK'
    <3>1. gpc' = "release" /\ gnext' = "exit" /\ UNCHANGED <<gslot, gconn, Player>>
      BY <1>40 DEF ExitFree
    <3> QED
      BY <3>1 DEF Base, TypeOK, GameOK
  <2>4. DiskOK' /\ UNCHANGED <<workers, writer, mail, bounds>>
    BY <1>40, <2>1 DEF Base, TypeOK, DiskOK, ExitFree
  <2> QED
    BY <2>2, <2>3, <2>4, Frame DEF Base, TypeOK
<1>41. CASE EndGame
  BY <1>41, Consts, Frame DEF Base, TypeOK, Control, WorkerControl, WriterControl,
     GameControl, GameOK, EndGame, game
<1> QED
  BY <1>1, <1>2, <1>3, <1>4, <1>5, <1>6, <1>7, <1>8, <1>9, <1>10, <1>11, <1>12, <1>13, <1>14,
     <1>15, <1>16, <1>17, <1>18, <1>19, <1>20, <1>21, <1>22, <1>23, <1>24, <1>25, <1>26,
     <1>27, <1>28, <1>29, <1>30, <1>31, <1>32, <1>33, <1>34, <1>35, <1>36, <1>37, <1>38,
     <1>39, <1>40, <1>41
  DEF Next, Environment, CommStep, Join, Assign, ReaderStep, WriterStep, GameStep, ExitStep, Worker

\* Every step leaves a thread with the character and the slot it goes on with.
LEMMA ControlStep ==
  ASSUME Base, Next PROVE Control'
<1>1. ASSUME NEW t \in Worker, AssignLock(t) PROVE Control'
  BY <1>1, Consts DEF Base, TypeOK, WorkersOK, WriterOK, GameOK, Control, WorkerControl,
     WriterControl, GameControl, AssignLock, SlotsOf, Goto, workers, writer, game
<1>2. ASSUME NEW t \in Worker, AssignBusy(t) PROVE Control'
  BY <1>2, Consts DEF Base, TypeOK, WorkersOK, WriterOK, GameOK, Control, WorkerControl,
     WriterControl, GameControl, AssignBusy, SlotsOf, Goto, workers, writer, game
<1>3. ASSUME NEW t \in Worker, AssignFresh(t) PROVE Control'
  <2>1. PICK s \in Slot : ptr' = [ptr EXCEPT ![t] = s]
    BY <1>3, CandidateIsSlot DEF AssignFresh
  <2> QED
    BY <1>3, <2>1, Consts DEF Base, TypeOK, WorkersOK, Control, WorkerControl, WriterControl,
       GameControl, AssignFresh, Goto, writer, game
<1>4. ASSUME NEW t \in Worker, AssignNone(t) PROVE Control'
  BY <1>4, Consts DEF Base, TypeOK, WorkersOK, WriterOK, GameOK, Control, WorkerControl,
     WriterControl, GameControl, AssignNone, Finish, Goto, workers, writer, game
<1>5. ASSUME NEW t \in Worker, LoadPlayerData(t) PROVE Control'
  BY <1>5, Consts DEF Base, TypeOK, WorkersOK, WriterOK, GameOK, Control, WorkerControl,
     WriterControl, GameControl, LoadPlayerData, Goto, workers, writer, game
<1>6. ASSUME NEW t \in Worker, LoadFails(t) PROVE Control'
  BY <1>6, Consts DEF Base, TypeOK, WorkersOK, WriterOK, GameOK, Control, WorkerControl,
     WriterControl, GameControl, LoadFails, Goto, workers, writer, game
<1>7. ASSUME NEW t \in Worker, Unload(t) PROVE Control'
  BY <1>7, Consts DEF Base, TypeOK, WorkersOK, WriterOK, GameOK, Control, WorkerControl,
     WriterControl, GameControl, Unload, Finish, Goto, workers, writer, game
<1>8. ASSUME NEW t \in Worker, ReleaseSlot(t) PROVE Control'
  BY <1>8, Consts DEF Base, TypeOK, WorkersOK, WriterOK, GameOK, Control, WorkerControl,
     WriterControl, GameControl, ReleaseSlot, Goto, workers, writer, game
<1>9. ASSUME NEW t \in Comm, BlockLogin(t) PROVE Control'
  BY <1>9, Consts DEF Base, TypeOK, WorkersOK, WriterOK, GameOK, Control, WorkerControl,
     WriterControl, GameControl, BlockLogin, Finish, Goto, workers, writer, game
<1>10. ASSUME NEW t \in Comm, AcceptLogin(t) PROVE Control'
  BY <1>10, Consts DEF Base, TypeOK, WorkersOK, WriterOK, GameOK, Control, WorkerControl,
     WriterControl, GameControl, AcceptLogin, Goto, workers, writer, game
<1>11. ASSUME NEW t \in Comm, SubmitLogin(t) PROVE Control'
  BY <1>11, Consts DEF Base, TypeOK, WorkersOK, WriterOK, GameOK, Control, WorkerControl,
     WriterControl, GameControl, SubmitLogin, Goto, workers, writer, game
<1>12. ASSUME NEW t \in Comm, JoinNew(t) PROVE Control'
  BY <1>12, Consts DEF Base, TypeOK, WorkersOK, WriterOK, GameOK, Control, WorkerControl,
     WriterControl, GameControl, JoinNew, workers, writer, game
<1>13. ASSUME NEW t \in Comm, JoinFails(t) PROVE Control'
  BY <1>13, Consts DEF Base, TypeOK, WorkersOK, WriterOK, GameOK, Control, WorkerControl,
     WriterControl, GameControl, JoinFails, LoginOver, Goto, workers, writer, game
<1>14. ASSUME NEW t \in Comm, JoinRefused(t) PROVE Control'
  BY <1>14, Consts DEF Base, TypeOK, WorkersOK, WriterOK, GameOK, Control, WorkerControl,
     WriterControl, GameControl, JoinRefused, LoginOver, Goto, workers, writer, game
<1>15. ASSUME NEW t \in Comm, TakeOver(t) PROVE Control'
  BY <1>15, Consts DEF Base, TypeOK, WorkersOK, WriterOK, GameOK, Control, WorkerControl,
     WriterControl, GameControl, TakeOver, LoginOver, Goto, workers, writer, game
<1>16. ASSUME NEW t \in Comm, DropLogin(t) PROVE Control'
  BY <1>16, Consts DEF Base, TypeOK, WorkersOK, WriterOK, GameOK, Control, WorkerControl,
     WriterControl, GameControl, DropLogin, LoginOver, Goto, workers, writer, game
<1>17. ASSUME NEW t \in Comm, NEW c \in Char, PerformRegistration(t, c) PROVE Control'
  BY <1>17, Consts DEF Base, TypeOK, WorkersOK, WriterOK, GameOK, Control, WorkerControl,
     WriterControl, GameControl, PerformRegistration, Goto, workers, writer, game
<1>18. ASSUME NEW c \in Char, WriteDepot(c) PROVE Control'
  BY <1>18 DEF Base, Control, WorkerControl, WriterControl, GameControl, WriteDepot, workers,
     writer, game
<1>19. ASSUME NEW c \in Char, SendMail(c) PROVE Control'
  BY <1>19 DEF Base, Control, WorkerControl, WriterControl, GameControl, SendMail, workers,
     writer, game
<1>20. ASSUME NEW c \in Char, Logout(c) PROVE Control'
  BY <1>20, Consts DEF Base, TypeOK, WorkersOK, WriterOK, GameOK, Control, WorkerControl,
     WriterControl, GameControl, Logout, DropSlot, workers, writer, game
<1>21. ASSUME NEW s \in Slot, SaveCheck(s) PROVE Control'
  BY <1>21, Consts DEF Base, TypeOK, WorkersOK, WriterOK, GameOK, Control, WorkerControl,
     WriterControl, GameControl, SaveCheck, workers, writer, game
<1>22. CASE GetOrder
  <2>1. Head(orders) \in Char
    BY <1>22, HeadTailProperties DEF Base, TypeOK, MailOK, GetOrder
  <2> QED
    BY <1>22, <2>1, Consts DEF Base, TypeOK, WorkersOK, Control, WorkerControl, WriterControl,
       GameControl, GetOrder, Goto, writer, game
<1>23. CASE OrderSuperseded
  BY <1>23, Consts DEF Base, TypeOK, WorkersOK, WriterOK, GameOK, Control, WorkerControl,
     WriterControl, GameControl, OrderSuperseded, Finish, Goto, workers, writer, game
<1>24. CASE OrderLoaded
  BY <1>24, Consts DEF Base, TypeOK, WorkersOK, WriterOK, GameOK, Control, WorkerControl,
     WriterControl, GameControl, OrderLoaded, Goto, workers, writer, game
<1>25. CASE OrderRetry
  BY <1>25, Consts DEF Base, TypeOK, WorkersOK, WriterOK, GameOK, Control, WorkerControl,
     WriterControl, GameControl, OrderRetry, Goto, workers, writer, game
<1>26. CASE CharacterReply
  BY <1>26, Consts DEF Base, TypeOK, WorkersOK, WriterOK, GameOK, Control, WorkerControl,
     WriterControl, GameControl, CharacterReply, Finish, Goto, workers, writer, game
<1>27. CASE SaveAttach
  BY <1>27, Consts DEF Base, TypeOK, WorkersOK, WriterOK, GameOK, Control, WorkerControl,
     WriterControl, GameControl, SaveAttach, workers, writer, game
<1>28. CASE SaveSlot
  BY <1>28, Consts DEF Base, TypeOK, WorkersOK, WriterOK, GameOK, Control, WorkerControl,
     WriterControl, GameControl, SaveSlot, workers, writer, game
<1>29. CASE SaveRelease
  BY <1>29, Consts DEF Base, TypeOK, WorkersOK, WriterOK, GameOK, Control, WorkerControl,
     WriterControl, GameControl, SaveRelease, workers, writer, game
<1>30. CASE JoinAttach
  BY <1>30, Consts DEF Base, TypeOK, WorkersOK, WriterOK, GameOK, Control, WorkerControl,
     WriterControl, GameControl, JoinAttach, SlotsOf, LoginOver, Goto, workers, writer, game
<1>31. CASE Decrease
  BY <1>31, Consts DEF Base, TypeOK, WorkersOK, WriterOK, GameOK, Control, WorkerControl,
     WriterControl, GameControl, Decrease, workers, writer, game
<1>32. CASE ReleaseGame
  BY <1>32, Consts DEF Base, TypeOK, WorkersOK, WriterOK, GameOK, Control, WorkerControl,
     WriterControl, GameControl, ReleaseGame, workers, writer, game
<1>33. CASE ProcessCharacterReply
  BY <1>33, Consts DEF Base, TypeOK, WorkersOK, WriterOK, GameOK, Control, WorkerControl,
     WriterControl, GameControl, ProcessCharacterReply, SlotsOf, DropSlot, workers, writer,
     game
<1>34. CASE IgnoreCharacterReply
  BY <1>34 DEF Base, Control, WorkerControl, WriterControl, GameControl, IgnoreCharacterReply,
     workers, writer, game
<1>35. CASE ExitStart
  BY <1>35, Consts DEF Base, TypeOK, WorkersOK, WriterOK, GameOK, Control, WorkerControl,
     WriterControl, GameControl, ExitStart, workers, writer, game
<1>36. CASE ExitNext
  BY <1>36, Consts DEF Base, TypeOK, WorkersOK, WriterOK, GameOK, Control, WorkerControl,
     WriterControl, GameControl, ExitNext, workers, writer, game
<1>37. CASE ExitDrain
  BY <1>37, Consts DEF Base, TypeOK, WorkersOK, WriterOK, GameOK, Control, WorkerControl,
     WriterControl, GameControl, ExitDrain, DropSlot, workers, writer, game
<1>38. CASE ExitDrained
  BY <1>38, Consts DEF Base, TypeOK, WorkersOK, WriterOK, GameOK, Control, WorkerControl,
     WriterControl, GameControl, ExitDrained, workers, writer, game
<1>39. CASE ExitAttach
  BY <1>39, Consts DEF Base, TypeOK, WorkersOK, WriterOK, GameOK, Control, WorkerControl,
     WriterControl, GameControl, ExitAttach, workers, writer, game
<1>40. CASE ExitFree
  BY <1>40, Consts DEF Base, TypeOK, WorkersOK, WriterOK, GameOK, Control, WorkerControl,
     WriterControl, GameControl, ExitFree, workers, writer, game
<1>41. CASE EndGame
  BY <1>41, Consts DEF Base, TypeOK, WorkersOK, WriterOK, GameOK, Control, WorkerControl,
     WriterControl, GameControl, EndGame, workers, writer, game
<1> QED
  BY <1>1, <1>2, <1>3, <1>4, <1>5, <1>6, <1>7, <1>8, <1>9, <1>10, <1>11, <1>12, <1>13, <1>14,
     <1>15, <1>16, <1>17, <1>18, <1>19, <1>20, <1>21, <1>22, <1>23, <1>24, <1>25, <1>26,
     <1>27, <1>28, <1>29, <1>30, <1>31, <1>32, <1>33, <1>34, <1>35, <1>36, <1>37, <1>38,
     <1>39, <1>40, <1>41
  DEF Next, Environment, CommStep, Join, Assign, ReaderStep, WriterStep, GameStep, ExitStep, Worker

\* No step gives a character a second slot: only assign_player_pool_slot fills
\* one, after it has found none under the mutex.
LEMMA OneSlotStep ==
  ASSUME Base, Next PROVE OneSlotPerCharacter'
<1>1. ASSUME NEW t \in Worker, AssignLock(t) PROVE OneSlotPerCharacter'
  BY <1>1 DEF Base, OneSlotPerCharacter, AssignLock
<1>2. ASSUME NEW t \in Worker, AssignBusy(t) PROVE OneSlotPerCharacter'
  BY <1>2 DEF Base, OneSlotPerCharacter, AssignBusy
<1>3. ASSUME NEW t \in Worker, AssignFresh(t) PROVE OneSlotPerCharacter'
  <2>1. PICK s \in Slot : CharacterID' = [CharacterID EXCEPT ![s] = who[t]]
    BY <1>3, CandidateIsSlot DEF AssignFresh
  <2>2. \A r \in Slot : CharacterID[r] # who[t]
    BY <1>3 DEF AssignFresh, SlotsOf
  <2> QED
    BY <2>1, <2>2 DEF Base, TypeOK, SlotsOK, OneSlotPerCharacter
<1>4. ASSUME NEW t \in Worker, AssignNone(t) PROVE OneSlotPerCharacter'
  BY <1>4 DEF Base, OneSlotPerCharacter, AssignNone, slots
<1>5. ASSUME NEW t \in Worker, LoadPlayerData(t) PROVE OneSlotPerCharacter'
  BY <1>5 DEF Base, OneSlotPerCharacter, LoadPlayerData
<1>6. ASSUME NEW t \in Worker, LoadFails(t) PROVE OneSlotPerCharacter'
  BY <1>6 DEF Base, TypeOK, SlotsOK, OneSlotPerCharacter, LoadFails
<1>7. ASSUME NEW t \in Worker, Unload(t) PROVE OneSlotPerCharacter'
  BY <1>7 DEF Base, OneSlotPerCharacter, Unload
<1>8. ASSUME NEW t \in Worker, ReleaseSlot(t) PROVE OneSlotPerCharacter'
  BY <1>8 DEF Base, OneSlotPerCharacter, ReleaseSlot
<1>9. ASSUME NEW t \in Comm, BlockLogin(t) PROVE OneSlotPerCharacter'
  BY <1>9 DEF Base, OneSlotPerCharacter, BlockLogin
<1>10. ASSUME NEW t \in Comm, AcceptLogin(t) PROVE OneSlotPerCharacter'
  BY <1>10 DEF Base, OneSlotPerCharacter, AcceptLogin
<1>11. ASSUME NEW t \in Comm, SubmitLogin(t) PROVE OneSlotPerCharacter'
  BY <1>11 DEF Base, OneSlotPerCharacter, SubmitLogin, slots
<1>12. ASSUME NEW t \in Comm, JoinNew(t) PROVE OneSlotPerCharacter'
  BY <1>12 DEF Base, OneSlotPerCharacter, JoinNew, slots
<1>13. ASSUME NEW t \in Comm, JoinFails(t) PROVE OneSlotPerCharacter'
  BY <1>13 DEF Base, OneSlotPerCharacter, JoinFails, slots
<1>14. ASSUME NEW t \in Comm, JoinRefused(t) PROVE OneSlotPerCharacter'
  BY <1>14 DEF Base, OneSlotPerCharacter, JoinRefused
<1>15. ASSUME NEW t \in Comm, TakeOver(t) PROVE OneSlotPerCharacter'
  BY <1>15 DEF Base, OneSlotPerCharacter, TakeOver
<1>16. ASSUME NEW t \in Comm, DropLogin(t) PROVE OneSlotPerCharacter'
  BY <1>16 DEF Base, OneSlotPerCharacter, DropLogin, slots
<1>17. ASSUME NEW t \in Comm, NEW c \in Char, PerformRegistration(t, c) PROVE OneSlotPerCharacter'
  BY <1>17 DEF Base, OneSlotPerCharacter, PerformRegistration, slots
<1>18. ASSUME NEW c \in Char, WriteDepot(c) PROVE OneSlotPerCharacter'
  BY <1>18 DEF Base, OneSlotPerCharacter, WriteDepot
<1>19. ASSUME NEW c \in Char, SendMail(c) PROVE OneSlotPerCharacter'
  BY <1>19 DEF Base, OneSlotPerCharacter, SendMail, slots
<1>20. ASSUME NEW c \in Char, Logout(c) PROVE OneSlotPerCharacter'
  BY <1>20 DEF Base, OneSlotPerCharacter, Logout
<1>21. ASSUME NEW s \in Slot, SaveCheck(s) PROVE OneSlotPerCharacter'
  BY <1>21 DEF Base, OneSlotPerCharacter, SaveCheck, slots
<1>22. CASE GetOrder
  BY <1>22 DEF Base, OneSlotPerCharacter, GetOrder, slots
<1>23. CASE OrderSuperseded
  BY <1>23 DEF Base, OneSlotPerCharacter, OrderSuperseded, slots
<1>24. CASE OrderLoaded
  BY <1>24 DEF Base, OneSlotPerCharacter, OrderLoaded
<1>25. CASE OrderRetry
  BY <1>25 DEF Base, OneSlotPerCharacter, OrderRetry, slots
<1>26. CASE CharacterReply
  BY <1>26 DEF Base, OneSlotPerCharacter, CharacterReply, slots
<1>27. CASE SaveAttach
  BY <1>27 DEF Base, OneSlotPerCharacter, SaveAttach
<1>28. CASE SaveSlot
  BY <1>28 DEF Base, OneSlotPerCharacter, SaveSlot
<1>29. CASE SaveRelease
  BY <1>29 DEF Base, OneSlotPerCharacter, SaveRelease
<1>30. CASE JoinAttach
  BY <1>30 DEF Base, OneSlotPerCharacter, JoinAttach
<1>31. CASE Decrease
  BY <1>31 DEF Base, OneSlotPerCharacter, Decrease
<1>32. CASE ReleaseGame
  BY <1>32 DEF Base, OneSlotPerCharacter, ReleaseGame
<1>33. CASE ProcessCharacterReply
  BY <1>33 DEF Base, OneSlotPerCharacter, ProcessCharacterReply
<1>34. CASE IgnoreCharacterReply
  BY <1>34 DEF Base, OneSlotPerCharacter, IgnoreCharacterReply, slots
<1>35. CASE ExitStart
  BY <1>35 DEF Base, OneSlotPerCharacter, ExitStart, slots
<1>36. CASE ExitNext
  BY <1>36 DEF Base, OneSlotPerCharacter, ExitNext, slots
<1>37. CASE ExitDrain
  BY <1>37 DEF Base, OneSlotPerCharacter, ExitDrain
<1>38. CASE ExitDrained
  BY <1>38 DEF Base, OneSlotPerCharacter, ExitDrained, slots
<1>39. CASE ExitAttach
  BY <1>39 DEF Base, OneSlotPerCharacter, ExitAttach
<1>40. CASE ExitFree
  BY <1>40 DEF Base, TypeOK, SlotsOK, OneSlotPerCharacter, ExitFree
<1>41. CASE EndGame
  BY <1>41 DEF Base, OneSlotPerCharacter, EndGame, slots
<1> QED
  BY <1>1, <1>2, <1>3, <1>4, <1>5, <1>6, <1>7, <1>8, <1>9, <1>10, <1>11, <1>12, <1>13, <1>14,
     <1>15, <1>16, <1>17, <1>18, <1>19, <1>20, <1>21, <1>22, <1>23, <1>24, <1>25, <1>26,
     <1>27, <1>28, <1>29, <1>30, <1>31, <1>32, <1>33, <1>34, <1>35, <1>36, <1>37, <1>38,
     <1>39, <1>40, <1>41
  DEF Next, Environment, CommStep, Join, Assign, ReaderStep, WriterStep, GameStep, ExitStep, Worker

\* The empty pool of init_player_pool satisfies Base.
LEMMA BaseInit == Init => Base
<1> SUFFICES ASSUME Init PROVE Base
  OBVIOUS
<1>1. SlotsOK /\ WorkersOK /\ WriterOK /\ DiskOK
  BY DEF Init, SlotsOK, WorkersOK, WriterOK, DiskOK
<1>2. GameOK /\ BoundsOK
  BY PoolAssumption DEF Init, GameOK, BoundsOK, NoSlot
<1>3. MailOK
  BY EmptySeq DEF Init, MailOK
<1>4. Control /\ OneSlotPerCharacter
  BY DEF Init, Control, WorkerControl, WriterControl, GameControl, OneSlotPerCharacter
<1> QED
  BY <1>1, <1>2, <1>3, <1>4 DEF Base, TypeOK

\* Base only depends on the variables.
LEMMA BaseStutter ==
  ASSUME Base, UNCHANGED vars PROVE Base'
<1>1. TypeOK'
  BY Frame DEF Base, TypeOK, vars
<1>2. Control' /\ OneSlotPerCharacter'
  BY DEF Base, Control, WorkerControl, WriterControl, GameControl, OneSlotPerCharacter, vars,
     slots,
     workers, writer, game
<1> QED
  BY <1>1, <1>2 DEF Base

\* The types, the control and the uniqueness of slots, in every behaviour.
THEOREM BaseInvariance == Spec => []Base
<1>1. Base /\ [Next]_vars => Base'
  BY TypeStep, ControlStep, OneSlotStep, BaseStutter DEF Base
<1> QED
  BY <1>1, BaseInit, PTL DEF Spec

\* The variables of the pool and of its threads keep their types, whatever
\* the number of threads, characters and slots.
THEOREM TypeCorrect == Spec => []TypeOK
<1>1. Base => TypeOK
  BY DEF Base
<1> QED
  BY <1>1, BaseInvariance, PTL

\* assign_player_pool_slot never gives a character a second slot, not even
\* when loads fail or the pool is emptied while logins are under way.
THEOREM OneSlot == Spec => []OneSlotPerCharacter
<1>1. Base => OneSlotPerCharacter
  BY DEF Base
<1> QED
  BY <1>1, BaseInvariance, PTL

-----------------------------------------------------------------------------
(* Locks is inductive when loads do not fail.                              *)

\* A slot that is taken for another character is empty or unlocked.
LEMMA FreshFacts ==
  ASSUME Base, NEW t \in Worker, AssignFresh(t)
  PROVE  /\ pc[t] = "assign" /\ pc' = [pc EXCEPT ![t] = "loading"]
         /\ who[t] \in Char
         /\ \E s \in Slot :
               /\ CharacterID[s] = NoChar \/ Locked[s] = NoThread
               /\ CharacterID' = [CharacterID EXCEPT ![s] = who[t]]
               /\ Locked' = [Locked EXCEPT ![s] = t]
               /\ ptr' = [ptr EXCEPT ![t] = s]
         /\ UNCHANGED <<writer, game>>
<1>1. \A s \in Candidates : s \in Slot /\ (CharacterID[s] = NoChar \/ Locked[s] = NoThread)
  BY DEF Candidates, Unused
<1>2. pc[t] = "assign" /\ who[t] \in Char
  BY DEF Base, Control, WorkerControl, AssignFresh
<1> QED
  BY <1>1, <1>2 DEF AssignFresh, Lock, Goto

\* Communication threads and the reader keep their locks: a step of another
\* thread only takes slots that are unlocked or empty.
LEMMA WorkerLocksStep ==
  ASSUME Unreadable = {}, Base, Locks, Next PROVE WorkerLocks'
<1>1. ASSUME NEW t \in Worker, AssignLock(t) PROVE WorkerLocks'
  BY <1>1, Consts DEF Locks, WorkerLocks, Base, TypeOK, SlotsOK, WorkersOK, Control,
     WorkerControl, AssignLock, SlotsOf, Lock, Goto, slots, workers
<1>2. ASSUME NEW t \in Worker, AssignBusy(t) PROVE WorkerLocks'
  BY <1>2, Consts DEF Locks, WorkerLocks, Base, TypeOK, SlotsOK, WorkersOK, Control,
     WorkerControl, AssignBusy, SlotsOf, Goto, slots, workers
<1>3. ASSUME NEW t \in Worker, AssignFresh(t) PROVE WorkerLocks'
  BY <1>3, FreshFacts, Consts DEF Locks, WorkerLocks, Base, TypeOK, SlotsOK, WorkersOK,
     Control, WorkerControl, GameControl, workers, writer, game
<1>4. ASSUME NEW t \in Worker, AssignNone(t) PROVE WorkerLocks'
  BY <1>4, Consts DEF Locks, WorkerLocks, Base, TypeOK, SlotsOK, WorkersOK, Control,
     WorkerControl, AssignNone, Finish, Goto, slots, workers
<1>5. ASSUME NEW t \in Worker, LoadPlayerData(t) PROVE WorkerLocks'
  BY <1>5, Consts DEF Locks, WorkerLocks, Base, TypeOK, SlotsOK, WorkersOK, Control,
     WorkerControl, LoadPlayerData, Goto, slots, workers
<1>6. ASSUME NEW t \in Worker, LoadFails(t) PROVE WorkerLocks'
  BY <1>6 DEF LoadFails
<1>7. ASSUME NEW t \in Worker, Unload(t) PROVE WorkerLocks'
  BY <1>7 DEF WorkerLocks, Locks, Unload
<1>8. ASSUME NEW t \in Worker, ReleaseSlot(t) PROVE WorkerLocks'
  BY <1>8, Consts DEF Locks, WorkerLocks, Base, TypeOK, SlotsOK, WorkersOK, Control,
     WorkerControl, ReleaseSlot, Release, Goto, slots, workers
<1>9. ASSUME NEW t \in Comm, BlockLogin(t) PROVE WorkerLocks'
  BY <1>9, Consts DEF Locks, WorkerLocks, Base, TypeOK, SlotsOK, WorkersOK, Control,
     WorkerControl, BlockLogin, Release, Finish, Goto, slots, workers
<1>10. ASSUME NEW t \in Comm, AcceptLogin(t) PROVE WorkerLocks'
  BY <1>10, Consts DEF Locks, WorkerLocks, Base, TypeOK, SlotsOK, WorkersOK, Control,
     WorkerControl, AcceptLogin, Goto, slots, workers
<1>11. ASSUME NEW t \in Comm, SubmitLogin(t) PROVE WorkerLocks'
  BY <1>11, Consts DEF Locks, WorkerLocks, Base, TypeOK, SlotsOK, WorkersOK, Control,
     WorkerControl, SubmitLogin, Goto, slots, workers
<1>12. ASSUME NEW t \in Comm, JoinNew(t) PROVE WorkerLocks'
  BY <1>12 DEF Locks, WorkerLocks, JoinNew, slots, workers
<1>13. ASSUME NEW t \in Comm, JoinFails(t) PROVE WorkerLocks'
  BY <1>13, Consts DEF Locks, WorkerLocks, Base, TypeOK, SlotsOK, WorkersOK, Control,
     WorkerControl, GameControl, JoinFails, LoginOver, Goto, slots, workers
<1>14. ASSUME NEW t \in Comm, JoinRefused(t) PROVE WorkerLocks'
  BY <1>14, Consts DEF Locks, WorkerLocks, Base, TypeOK, SlotsOK, WorkersOK, Control,
     WorkerControl, JoinRefused, LoginOver, Goto, slots, workers
<1>15. ASSUME NEW t \in Comm, TakeOver(t) PROVE WorkerLocks'
  BY <1>15, Consts DEF Locks, WorkerLocks, Base, TypeOK, SlotsOK, WorkersOK, Control,
     WorkerControl, TakeOver, LoginOver, Goto, slots, workers
<1>16. ASSUME NEW t \in Comm, DropLogin(t) PROVE WorkerLocks'
  BY <1>16, Consts DEF Locks, WorkerLocks, Base, TypeOK, SlotsOK, WorkersOK, Control,
     WorkerControl, DropLogin, LoginOver, Goto, slots, workers
<1>17. ASSUME NEW t \in Comm, NEW c \in Char, PerformRegistration(t, c) PROVE WorkerLocks'
  BY <1>17, Consts DEF Locks, WorkerLocks, Base, TypeOK, SlotsOK, WorkersOK, Control,
     WorkerControl, PerformRegistration, Goto, slots, workers
<1>18. ASSUME NEW c \in Char, WriteDepot(c) PROVE WorkerLocks'
  BY <1>18, Consts DEF Locks, WorkerLocks, Base, TypeOK, SlotsOK, WorkersOK, Control,
     WorkerControl, WriteDepot, slots, workers
<1>19. ASSUME NEW c \in Char, SendMail(c) PROVE WorkerLocks'
  BY <1>19 DEF Locks, WorkerLocks, SendMail, slots, workers
<1>20. ASSUME NEW c \in Char, Logout(c) PROVE WorkerLocks'
  BY <1>20, Consts DEF Locks, WorkerLocks, Base, TypeOK, SlotsOK, WorkersOK, Control,
     WorkerControl, Logout, slots, workers
<1>21. ASSUME NEW s \in Slot, SaveCheck(s) PROVE WorkerLocks'
  BY <1>21 DEF Locks, WorkerLocks, SaveCheck, slots, workers
<1>22. CASE GetOrder
  BY <1>22, Consts DEF Locks, WorkerLocks, Base, TypeOK, SlotsOK, WorkersOK, Control,
     WorkerControl, GetOrder, Goto, slots, workers
<1>23. CASE OrderSuperseded
  BY <1>23, Consts DEF Locks, WorkerLocks, Base, TypeOK, SlotsOK, WorkersOK, Control,
     WorkerControl, OrderSuperseded, Finish, Goto, slots, workers
<1>24. CASE OrderLoaded
  BY <1>24, Consts DEF Locks, WorkerLocks, Base, TypeOK, SlotsOK, WorkersOK, Control,
     WorkerControl, OrderLoaded, Goto, slots, workers
<1>25. CASE OrderRetry
  BY <1>25, Consts DEF Locks, WorkerLocks, Base, TypeOK, SlotsOK, WorkersOK, Control,
     WorkerControl, OrderRetry, Goto, slots, workers
<1>26. CASE CharacterReply
  BY <1>26, Consts DEF Locks, WorkerLocks, Base, TypeOK, SlotsOK, WorkersOK, Control,
     WorkerControl, CharacterReply, Finish, Goto, slots, workers
<1>27. CASE SaveAttach
  BY <1>27, Consts DEF Locks, WorkerLocks, Base, TypeOK, SlotsOK, WorkersOK, Control,
     WorkerControl, SaveAttach, Lock, slots, workers
<1>28. CASE SaveSlot
  BY <1>28, Consts DEF Locks, WorkerLocks, Base, TypeOK, SlotsOK, WorkersOK, Control,
     WorkerControl, SaveSlot, slots, workers
<1>29. CASE SaveRelease
  BY <1>29, Consts DEF Locks, WorkerLocks, Base, TypeOK, SlotsOK, WorkersOK, Control,
     WorkerControl, SaveRelease, Release, slots, workers
<1>30. CASE JoinAttach
  <2>1. PICK s \in Slot : Locked[s] = NoThread /\ Lock(s, Game)
    BY <1>30 DEF JoinAttach, SlotsOf
  <2>2. gconn \in Worker /\ pc[gconn] = "waiting"
    BY <1>30, Consts DEF Locks, WorkerLocks, Base, TypeOK, SlotsOK, WorkersOK, Control,
       WorkerControl, GameControl, JoinAttach
  <2>3. LoginOver(gconn) /\ UNCHANGED CharacterID
    BY <1>30 DEF JoinAttach
  <2> QED
    BY <2>1, <2>2, <2>3, Consts DEF Locks, WorkerLocks, Base, TypeOK, SlotsOK, WorkersOK,
       Control, WorkerControl, GameControl, Lock, LoginOver, Goto
<1>31. CASE Decrease
  BY <1>31, Consts DEF Locks, WorkerLocks, Base, TypeOK, SlotsOK, WorkersOK, Control,
     WorkerControl, Decrease, slots, workers
<1>32. CASE ReleaseGame
  BY <1>32, Consts DEF Locks, WorkerLocks, Base, TypeOK, SlotsOK, WorkersOK, Control,
     WorkerControl, ReleaseGame, Release, slots, workers
<1>33. CASE ProcessCharacterReply
  <2>1. PICK s \in Slot : Locked[s] = NoThread /\ Lock(s, Game) /\ DropSlot(s, "idle")
                          /\ CharacterID[s] = Head(replies)
    BY <1>33 DEF ProcessCharacterReply, SlotsOf
  <2>2. Head(replies) \in Char
    BY <1>33, HeadTailProperties DEF Base, TypeOK, MailOK, ProcessCharacterReply
  <2>3. gpc = "idle" /\ UNCHANGED <<CharacterID, workers, writer, Player>>
    BY <1>33 DEF ProcessCharacterReply
  <2> QED
    BY <2>1, <2>2, <2>3, Consts DEF Locks, WorkerLocks, Base, TypeOK, SlotsOK, WorkersOK,
       Control, WorkerControl, GameControl, Lock, DropSlot, workers, writer
<1>34. CASE IgnoreCharacterReply
  BY <1>34 DEF Locks, WorkerLocks, IgnoreCharacterReply, slots, workers
<1>35. CASE ExitStart
  BY <1>35 DEF Locks, WorkerLocks, ExitStart, slots, workers
<1>36. CASE ExitNext
  BY <1>36 DEF Locks, WorkerLocks, ExitNext, slots, workers
<1>37. CASE ExitDrain
  BY <1>37, Consts DEF Locks, WorkerLocks, Base, TypeOK, SlotsOK, WorkersOK, Control,
     WorkerControl, ExitDrain, Lock, slots, slots, workers
<1>38. CASE ExitDrained
  BY <1>38 DEF Locks, WorkerLocks, ExitDrained, slots, workers
<1>39. CASE ExitAttach
  BY <1>39, Consts DEF Locks, WorkerLocks, Base, TypeOK, SlotsOK, WorkersOK, Control,
     WorkerControl, ExitAttach, Lock, slots, workers
<1>40. CASE ExitFree
  BY <1>40, Consts DEF Locks, WorkerLocks, Base, TypeOK, SlotsOK, WorkersOK, Control,
     WorkerControl, GameControl, GameLocks, ExitFree, slots, workers
<1>41. CASE EndGame
  BY <1>41 DEF Locks, WorkerLocks, EndGame, slots, workers
<1> QED
  BY <1>1, <1>2, <1>3, <1>4, <1>5, <1>6, <1>7, <1>8, <1>9, <1>10, <1>11, <1>12, <1>13, <1>14,
     <1>15, <1>16, <1>17, <1>18, <1>19, <1>20, <1>21, <1>22, <1>23, <1>24, <1>25, <1>26,
     <1>27, <1>28, <1>29, <1>30, <1>31, <1>32, <1>33, <1>34, <1>35, <1>36, <1>37, <1>38,
     <1>39, <1>40, <1>41
  DEF Next, Environment, CommStep, Join, Assign, ReaderStep, WriterStep, GameStep, ExitStep, Worker

\* While the server runs no slot is emptied under a lock, so the writer thread
\* keeps its lock as well.
LEMMA RunningLocksStep ==
  ASSUME Unreadable = {}, Base, Locks, Next PROVE RunningLocks'
<1>1. ASSUME NEW t \in Worker, AssignLock(t) PROVE RunningLocks'
  BY <1>1, Consts DEF Locks, RunningLocks, Running, Base, TypeOK, SlotsOK, WriterOK, GameOK,
     Control, WorkerControl, WriterControl, GameControl, AssignLock, SlotsOf, Lock, slots,
     writer, game
<1>2. ASSUME NEW t \in Worker, AssignBusy(t) PROVE RunningLocks'
  BY <1>2, Consts DEF Locks, RunningLocks, Running, Base, TypeOK, SlotsOK, WriterOK, GameOK,
     Control, WorkerControl, WriterControl, GameControl, AssignBusy, SlotsOf, slots, writer,
     game
<1>3. ASSUME NEW t \in Worker, AssignFresh(t) PROVE RunningLocks'
  BY <1>3, FreshFacts, Consts DEF Locks, RunningLocks, Running, Base, TypeOK, SlotsOK,
     WriterOK, GameOK, Control, WriterControl, GameControl, workers, writer, game
<1>4. ASSUME NEW t \in Worker, AssignNone(t) PROVE RunningLocks'
  BY <1>4 DEF Locks, RunningLocks, Running, AssignNone, slots, writer, game
<1>5. ASSUME NEW t \in Worker, LoadPlayerData(t) PROVE RunningLocks'
  BY <1>5, Consts DEF Locks, RunningLocks, Running, Base, TypeOK, SlotsOK, WriterOK, GameOK,
     Control, WorkerControl, WriterControl, GameControl, LoadPlayerData, slots, writer, game
<1>6. ASSUME NEW t \in Worker, LoadFails(t) PROVE RunningLocks'
  BY <1>6 DEF LoadFails
<1>7. ASSUME NEW t \in Worker, Unload(t) PROVE RunningLocks'
  BY <1>7 DEF WorkerLocks, Locks, Unload
<1>8. ASSUME NEW t \in Worker, ReleaseSlot(t) PROVE RunningLocks'
  BY <1>8, Consts DEF Locks, RunningLocks, Running, Base, TypeOK, SlotsOK, WriterOK, GameOK,
     Control, WorkerControl, WriterControl, GameControl, ReleaseSlot, Release, slots, writer,
     game
<1>9. ASSUME NEW t \in Comm, BlockLogin(t) PROVE RunningLocks'
  BY <1>9, Consts DEF Locks, RunningLocks, Running, Base, TypeOK, SlotsOK, WriterOK, GameOK,
     Control, WorkerControl, WriterControl, GameControl, BlockLogin, Release, slots, writer,
     game
<1>10. ASSUME NEW t \in Comm, AcceptLogin(t) PROVE RunningLocks'
  BY <1>10, Consts DEF Locks, RunningLocks, Running, Base, TypeOK, SlotsOK, WriterOK, GameOK,
     Control, WorkerControl, WriterControl, GameControl, AcceptLogin, slots, writer, game
<1>11. ASSUME NEW t \in Comm, SubmitLogin(t) PROVE RunningLocks'
  BY <1>11 DEF Locks, RunningLocks, Running, SubmitLogin, slots, writer, game
<1>12. ASSUME NEW t \in Comm, JoinNew(t) PROVE RunningLocks'
  BY <1>12, Consts DEF Locks, RunningLocks, Running, Base, TypeOK, SlotsOK, WriterOK, GameOK,
     Control, WorkerControl, WriterControl, GameControl, JoinNew, slots, writer, game
<1>13. ASSUME NEW t \in Comm, JoinFails(t) PROVE RunningLocks'
  BY <1>13, Consts DEF Locks, RunningLocks, Running, Base, TypeOK, SlotsOK, WriterOK, GameOK,
     Control, WorkerControl, WriterControl, GameControl, JoinFails, slots, writer, game
<1>14. ASSUME NEW t \in Comm, JoinRefused(t) PROVE RunningLocks'
  BY <1>14, Consts DEF Locks, RunningLocks, Running, Base, TypeOK, SlotsOK, WriterOK, GameOK,
     Control, WorkerControl, WriterControl, GameControl, JoinRefused, slots, writer, game
<1>15. ASSUME NEW t \in Comm, TakeOver(t) PROVE RunningLocks'
  BY <1>15, Consts DEF Locks, RunningLocks, Running, Base, TypeOK, SlotsOK, WriterOK, GameOK,
     Control, WorkerControl, WriterControl, GameControl, TakeOver, slots, writer, game
<1>16. ASSUME NEW t \in Comm, DropLogin(t) PROVE RunningLocks'
  BY <1>16 DEF Locks, RunningLocks, Running, DropLogin, slots, writer, game
<1>17. ASSUME NEW t \in Comm, NEW c \in Char, PerformRegistration(t, c) PROVE RunningLocks'
  BY <1>17 DEF Locks, RunningLocks, Running, PerformRegistration, slots, writer, game
<1>18. ASSUME NEW c \in Char, WriteDepot(c) PROVE RunningLocks'
  BY <1>18, Consts DEF Locks, RunningLocks, Running, Base, TypeOK, SlotsOK, WriterOK, GameOK,
     Control, WorkerControl, WriterControl, GameControl, WriteDepot, slots, writer, game
<1>19. ASSUME NEW c \in Char, SendMail(c) PROVE RunningLocks'
  BY <1>19 DEF Locks, RunningLocks, Running, SendMail, slots, writer, game
<1>20. ASSUME NEW c \in Char, Logout(c) PROVE RunningLocks'
  BY <1>20, Consts DEF Locks, RunningLocks, Running, Base, TypeOK, SlotsOK, WriterOK, GameOK,
     Control, WorkerControl, WriterControl, GameControl, Logout, DropSlot, slots, writer, game
<1>21. ASSUME NEW s \in Slot, SaveCheck(s) PROVE RunningLocks'
  BY <1>21, Consts DEF Locks, RunningLocks, Running, Base, TypeOK, SlotsOK, WriterOK, GameOK,
     Control, WorkerControl, WriterControl, GameControl, SaveCheck, slots, writer, game
<1>22. CASE GetOrder
  BY <1>22 DEF Locks, RunningLocks, Running, GetOrder, slots, writer, game
<1>23. CASE OrderSuperseded
  BY <1>23 DEF Locks, RunningLocks, Running, OrderSuperseded, slots, writer, game
<1>24. CASE OrderLoaded
  BY <1>24, Consts DEF Locks, RunningLocks, Running, Base, TypeOK, SlotsOK, WriterOK, GameOK,
     Control, WorkerControl, WriterControl, GameControl, OrderLoaded, slots, writer, game
<1>25. CASE OrderRetry
  BY <1>25 DEF Locks, RunningLocks, Running, OrderRetry, slots, writer, game
<1>26. CASE CharacterReply
  BY <1>26 DEF Locks, RunningLocks, Running, CharacterReply, slots, writer, game
<1>27. CASE SaveAttach
  BY <1>27, Consts DEF Locks, RunningLocks, Running, Base, TypeOK, SlotsOK, WriterOK, GameOK,
     Control, WorkerControl, WriterControl, GameControl, SaveAttach, Lock, slots, writer, game
<1>28. CASE SaveSlot
  BY <1>28, Consts DEF Locks, RunningLocks, Running, Base, TypeOK, SlotsOK, WriterOK, GameOK,
     Control, WorkerControl, WriterControl, GameControl, SaveSlot, slots, writer, game
<1>29. CASE SaveRelease
  BY <1>29, Consts DEF Locks, RunningLocks, Running, Base, TypeOK, SlotsOK, WriterOK, GameOK,
     Control, WorkerControl, WriterControl, GameControl, SaveRelease, Release, slots, writer,
     game
<1>30. CASE JoinAttach
  BY <1>30, Consts DEF Locks, RunningLocks, Running, Base, TypeOK, SlotsOK, WriterOK, GameOK,
     Control, WorkerControl, WriterControl, GameControl, JoinAttach, SlotsOf, Lock, slots,
     writer, game
<1>31. CASE Decrease
  BY <1>31, Consts DEF Locks, RunningLocks, Running, Base, TypeOK, SlotsOK, WriterOK, GameOK,
     Control, WorkerControl, WriterControl, GameControl, Decrease, slots, writer, game
<1>32. CASE ReleaseGame
  BY <1>32, Consts DEF Locks, RunningLocks, Running, Base, TypeOK, SlotsOK, WriterOK, GameOK,
     Control, WorkerControl, WriterControl, GameControl, ReleaseGame, Release, slots, writer,
     game
<1>33. CASE ProcessCharacterReply
  <2>1. PICK s \in Slot : Locked[s] = NoThread /\ Lock(s, Game) /\ DropSlot(s, "idle")
                          /\ CharacterID[s] = Head(replies)
    BY <1>33 DEF ProcessCharacterReply, SlotsOf
  <2>2. Head(replies) \in Char
    BY <1>33, HeadTailProperties DEF Base, TypeOK, MailOK, ProcessCharacterReply
  <2>3. gpc = "idle" /\ UNCHANGED <<CharacterID, workers, writer, Player>>
    BY <1>33 DEF ProcessCharacterReply
  <2> QED
    BY <2>1, <2>2, <2>3, Consts DEF Locks, RunningLocks, Running, Base, TypeOK, SlotsOK,
       WriterOK, GameOK, Control, WriterControl, GameControl, Lock, DropSlot, workers, writer
<1>34. CASE IgnoreCharacterReply
  BY <1>34 DEF Locks, RunningLocks, Running, IgnoreCharacterReply, slots, writer, game
<1>35. CASE ExitStart
  BY <1>35, Consts DEF Locks, RunningLocks, Running, Base, TypeOK, SlotsOK, WriterOK, GameOK,
     Control, WorkerControl, WriterControl, GameControl, ExitStart, slots, writer, game
<1>36. CASE ExitNext
  BY <1>36, Consts DEF Locks, RunningLocks, Running, Base, TypeOK, SlotsOK, WriterOK, GameOK,
     Control, WorkerControl, WriterControl, GameControl, ExitNext, slots, writer, game
<1>37. CASE ExitDrain
  BY <1>37, Consts DEF Locks, RunningLocks, Running, Base, TypeOK, SlotsOK, WriterOK, GameOK,
     Control, WorkerControl, WriterControl, GameControl, ExitDrain, Lock, DropSlot, slots,
     writer, game
<1>38. CASE ExitDrained
  BY <1>38, Consts DEF Locks, RunningLocks, Running, Base, TypeOK, SlotsOK, WriterOK, GameOK,
     Control, WorkerControl, WriterControl, GameControl, ExitDrained, slots, writer, game
<1>39. CASE ExitAttach
  BY <1>39, Consts DEF Locks, RunningLocks, Running, Base, TypeOK, SlotsOK, WriterOK, GameOK,
     Control, WorkerControl, WriterControl, GameControl, ExitAttach, Lock, slots, writer, game
<1>40. CASE ExitFree
  BY <1>40, Consts DEF Locks, RunningLocks, Running, Base, TypeOK, SlotsOK, WriterOK, GameOK,
     Control, WorkerControl, WriterControl, GameControl, ExitFree, slots, writer, game
<1>41. CASE EndGame
  BY <1>41, Consts DEF Locks, RunningLocks, Running, Base, TypeOK, SlotsOK, WriterOK, GameOK,
     Control, WorkerControl, WriterControl, GameControl, EndGame, slots, writer, game
<1> QED
  BY <1>1, <1>2, <1>3, <1>4, <1>5, <1>6, <1>7, <1>8, <1>9, <1>10, <1>11, <1>12, <1>13, <1>14,
     <1>15, <1>16, <1>17, <1>18, <1>19, <1>20, <1>21, <1>22, <1>23, <1>24, <1>25, <1>26,
     <1>27, <1>28, <1>29, <1>30, <1>31, <1>32, <1>33, <1>34, <1>35, <1>36, <1>37, <1>38,
     <1>39, <1>40, <1>41
  DEF Next, Environment, CommStep, Join, Assign, ReaderStep, WriterStep, GameStep, ExitStep, Worker

\* The game thread keeps the locks of the online players and of the slot it
\* works on.
LEMMA GameLocksStep ==
  ASSUME Unreadable = {}, Base, Locks, Next PROVE GameLocks'
<1>1. ASSUME NEW t \in Worker, AssignLock(t) PROVE GameLocks'
  BY <1>1, Consts DEF Locks, GameLocks, Running, Base, TypeOK, SlotsOK, GameOK, Control,
     WorkerControl, GameControl, AssignLock, SlotsOf, Lock, slots, game
<1>2. ASSUME NEW t \in Worker, AssignBusy(t) PROVE GameLocks'
  BY <1>2, Consts DEF Locks, GameLocks, Running, Base, TypeOK, SlotsOK, GameOK, Control,
     WorkerControl, GameControl, AssignBusy, SlotsOf, slots, game
<1>3. ASSUME NEW t \in Worker, AssignFresh(t) PROVE GameLocks'
  BY <1>3, FreshFacts, Consts DEF Locks, GameLocks, Running, Base, TypeOK, SlotsOK, GameOK,
     Control, GameControl, workers, writer, game
<1>4. ASSUME NEW t \in Worker, AssignNone(t) PROVE GameLocks'
  BY <1>4 DEF Locks, GameLocks, Running, AssignNone, slots, game
<1>5. ASSUME NEW t \in Worker, LoadPlayerData(t) PROVE GameLocks'
  BY <1>5, Consts DEF Locks, GameLocks, Running, Base, TypeOK, SlotsOK, GameOK, Control,
     WorkerControl, GameControl, LoadPlayerData, slots, game
<1>6. ASSUME NEW t \in Worker, LoadFails(t) PROVE GameLocks'
  BY <1>6 DEF LoadFails
<1>7. ASSUME NEW t \in Worker, Unload(t) PROVE GameLocks'
  BY <1>7 DEF WorkerLocks, Locks, Unload
<1>8. ASSUME NEW t \in Worker, ReleaseSlot(t) PROVE GameLocks'
  BY <1>8, Consts DEF Locks, GameLocks, Running, Base, TypeOK, SlotsOK, GameOK, Control,
     WorkerControl, GameControl, ReleaseSlot, Release, slots, game
<1>9. ASSUME NEW t \in Comm, BlockLogin(t) PROVE GameLocks'
  BY <1>9, Consts DEF Locks, GameLocks, Running, Base, TypeOK, SlotsOK, GameOK, Control,
     WorkerControl, GameControl, BlockLogin, Release, slots, game
<1>10. ASSUME NEW t \in Comm, AcceptLogin(t) PROVE GameLocks'
  BY <1>10, Consts DEF Locks, GameLocks, Running, Base, TypeOK, SlotsOK, GameOK, Control,
     WorkerControl, GameControl, AcceptLogin, slots, game
<1>11. ASSUME NEW t \in Comm, SubmitLogin(t) PROVE GameLocks'
  BY <1>11 DEF Locks, GameLocks, Running, SubmitLogin, slots, game
<1>12. ASSUME NEW t \in Comm, JoinNew(t) PROVE GameLocks'
  BY <1>12, Consts DEF Locks, GameLocks, Running, Base, TypeOK, SlotsOK, GameOK, Control,
     WorkerControl, GameControl, JoinNew, slots, game
<1>13. ASSUME NEW t \in Comm, JoinFails(t) PROVE GameLocks'
  BY <1>13, Consts DEF Locks, GameLocks, Running, Base, TypeOK, SlotsOK, GameOK, Control,
     WorkerControl, GameControl, JoinFails, slots, game
<1>14. ASSUME NEW t \in Comm, JoinRefused(t) PROVE GameLocks'
  BY <1>14, Consts DEF Locks, GameLocks, Running, Base, TypeOK, SlotsOK, GameOK, Control,
     WorkerControl, GameControl, JoinRefused, slots, game
<1>15. ASSUME NEW t \in Comm, TakeOver(t) PROVE GameLocks'
  BY <1>15, Consts DEF Locks, GameLocks, Running, Base, TypeOK, SlotsOK, GameOK, Control,
     WorkerControl, GameControl, TakeOver, slots, game
<1>16. ASSUME NEW t \in Comm, DropLogin(t) PROVE GameLocks'
  BY <1>16 DEF Locks, GameLocks, Running, DropLogin, slots, game
<1>17. ASSUME NEW t \in Comm, NEW c \in Char, PerformRegistration(t, c) PROVE GameLocks'
  BY <1>17 DEF Locks, GameLocks, Running, PerformRegistration, slots, game
<1>18. ASSUME NEW c \in Char, WriteDepot(c) PROVE GameLocks'
  BY <1>18, Consts DEF Locks, GameLocks, Running, Base, TypeOK, SlotsOK, GameOK, Control,
     WorkerControl, GameControl, WriteDepot, slots, game
<1>19. ASSUME NEW c \in Char, SendMail(c) PROVE GameLocks'
  BY <1>19 DEF Locks, GameLocks, Running, SendMail, slots, game
<1>20. ASSUME NEW c \in Char, Logout(c) PROVE GameLocks'
  BY <1>20, Consts DEF Locks, GameLocks, Running, Base, TypeOK, SlotsOK, GameOK, Control,
     WorkerControl, GameControl, Logout, DropSlot, slots, game
<1>21. ASSUME NEW s \in Slot, SaveCheck(s) PROVE GameLocks'
  BY <1>21 DEF Locks, GameLocks, Running, SaveCheck, slots, game
<1>22. CASE GetOrder
  BY <1>22 DEF Locks, GameLocks, Running, GetOrder, slots, game
<1>23. CASE OrderSuperseded
  BY <1>23 DEF Locks, GameLocks, Running, OrderSuperseded, slots, game
<1>24. CASE OrderLoaded
  BY <1>24, Consts DEF Locks, GameLocks, Running, Base, TypeOK, SlotsOK, GameOK, Control,
     WorkerControl, GameControl, OrderLoaded, slots, game
<1>25. CASE OrderRetry
  BY <1>25 DEF Locks, GameLocks, Running, OrderRetry, slots, game
<1>26. CASE CharacterReply
  BY <1>26 DEF Locks, GameLocks, Running, CharacterReply, slots, game
<1>27. CASE SaveAttach
  BY <1>27, Consts DEF Locks, GameLocks, Running, Base, TypeOK, SlotsOK, GameOK, Control,
     WorkerControl, GameControl, SaveAttach, Lock, slots, game
<1>28. CASE SaveSlot
  BY <1>28, Consts DEF Locks, GameLocks, Running, Base, TypeOK, SlotsOK, GameOK, Control,
     WorkerControl, GameControl, SaveSlot, slots, game
<1>29. CASE SaveRelease
  BY <1>29, Consts DEF Locks, GameLocks, Running, Base, TypeOK, SlotsOK, GameOK, Control,
     WorkerControl, GameControl, SaveRelease, Release, slots, game
<1>30. CASE JoinAttach
  BY <1>30, Consts DEF Locks, GameLocks, Running, Base, TypeOK, SlotsOK, GameOK, Control,
     WorkerControl, GameControl, JoinAttach, SlotsOf, Lock, slots, game
<1>31. CASE Decrease
  BY <1>31, Consts DEF Locks, GameLocks, Running, Base, TypeOK, SlotsOK, GameOK, Control,
     WorkerControl, GameControl, Decrease, slots, game
<1>32. CASE ReleaseGame
  BY <1>32, Consts DEF Locks, GameLocks, Running, Base, TypeOK, SlotsOK, GameOK, Control,
     WorkerControl, GameControl, ReleaseGame, Release, slots, game
<1>33. CASE ProcessCharacterReply
  <2>1. PICK s \in Slot : Locked[s] = NoThread /\ Lock(s, Game) /\ DropSlot(s, "idle")
                          /\ CharacterID[s] = Head(replies)
    BY <1>33 DEF ProcessCharacterReply, SlotsOf
  <2>2. Head(replies) \in Char
    BY <1>33, HeadTailProperties DEF Base, TypeOK, MailOK, ProcessCharacterReply
  <2>3. gpc = "idle" /\ UNCHANGED <<CharacterID, workers, writer, Player>>
    BY <1>33 DEF ProcessCharacterReply
  <2> QED
    BY <2>1, <2>2, <2>3, Consts DEF Locks, GameLocks, Running, Base, TypeOK, SlotsOK, GameOK,
       Control, GameControl, Lock, DropSlot, workers, writer
<1>34. CASE IgnoreCharacterReply
  BY <1>34 DEF Locks, GameLocks, Running, IgnoreCharacterReply, slots, game
<1>35. CASE ExitStart
  BY <1>35, Consts DEF Locks, GameLocks, Running, Base, TypeOK, SlotsOK, GameOK, Control,
     WorkerControl, GameControl, ExitStart, slots, game
<1>36. CASE ExitNext
  BY <1>36, Consts DEF Locks, GameLocks, Running, Base, TypeOK, SlotsOK, GameOK, Control,
     WorkerControl, GameControl, ExitNext, slots, game
<1>37. CASE ExitDrain
  BY <1>37, Consts DEF Locks, GameLocks, Running, Base, TypeOK, SlotsOK, GameOK, Control,
     WorkerControl, GameControl, ExitDrain, Lock, DropSlot, slots, game
<1>38. CASE ExitDrained
  BY <1>38, Consts DEF Locks, GameLocks, Running, Base, TypeOK, SlotsOK, GameOK, Control,
     WorkerControl, GameControl, ExitDrained, slots, game
<1>39. CASE ExitAttach
  BY <1>39, Consts DEF Locks, GameLocks, Running, Base, TypeOK, SlotsOK, GameOK, Control,
     WorkerControl, GameControl, ExitAttach, Lock, slots, game
<1>40. CASE ExitFree
  BY <1>40, Consts DEF Locks, GameLocks, Running, Base, TypeOK, SlotsOK, GameOK, Control,
     WorkerControl, GameControl, ExitFree, slots, game
<1>41. CASE EndGame
  BY <1>41, Consts DEF Locks, GameLocks, Running, Base, TypeOK, SlotsOK, GameOK, Control,
     WorkerControl, GameControl, EndGame, slots, game
<1> QED
  BY <1>1, <1>2, <1>3, <1>4, <1>5, <1>6, <1>7, <1>8, <1>9, <1>10, <1>11, <1>12, <1>13, <1>14,
     <1>15, <1>16, <1>17, <1>18, <1>19, <1>20, <1>21, <1>22, <1>23, <1>24, <1>25, <1>26,
     <1>27, <1>28, <1>29, <1>30, <1>31, <1>32, <1>33, <1>34, <1>35, <1>36, <1>37, <1>38,
     <1>39, <1>40, <1>41
  DEF Next, Environment, CommStep, Join, Assign, ReaderStep, WriterStep, GameStep, ExitStep, Worker

\* Nothing is locked in the beginning.
LEMMA LocksInit == Init => Locks
BY Consts DEF Init, Locks, WorkerLocks, RunningLocks, GameLocks

\* Locks only depends on the variables.
LEMMA LocksStutter ==
  ASSUME Locks, UNCHANGED vars PROVE Locks'
BY DEF Locks, WorkerLocks, RunningLocks, GameLocks, Running, vars, slots, workers, writer, game

\* Whoever works on a record holds its lock, as long as every player file can
\* be read: neither a login, a mail delivery, the writer thread nor the
\* shutdown ever takes a slot away from the thread that uses it.
THEOREM LockDiscipline ==
  ASSUME Unreadable = {} PROVE Spec => []LockHeld
<1>1. Base /\ Locks /\ [Next]_vars => Locks'
  BY WorkerLocksStep, RunningLocksStep, GameLocksStep, LocksStutter DEF Locks
<1>2. Locks => LockHeld
  BY DEF Locks, WorkerLocks, RunningLocks, GameLocks, LockHeld
<1> QED
  BY <1>1, <1>2, LocksInit, BaseInvariance, PTL DEF Spec

-----------------------------------------------------------------------------
(* No committed change is lost.                                            *)

\* NoLostUpdate, and that a record that is being loaded is not dirty.
RecordsKept ==
    /\ \A s \in Slot : CharacterID[s] # NoChar =>
          /\ ~Loading(s) => Data[s] = Truth[CharacterID[s]]
          /\ ~Dirty[s] => File[CharacterID[s]] = Truth[CharacterID[s]]
          /\ Loading(s) => ~Dirty[s]
    /\ \A c \in Char : (\A s \in Slot : CharacterID[s] # c) => File[c] = Truth[c]

\* Loads go on as they are.
LoadsGoOn ==
    \A t \in Worker : /\ pc'[t] = "loading" <=> pc[t] = "loading"
                      /\ pc[t] = "loading" => ptr'[t] = ptr[t]

\* Then the same slots are being loaded.
LEMMA SameLoads ==
  ASSUME LoadsGoOn PROVE \A s \in Slot : Loading(s)' <=> Loading(s)
BY DEF LoadsGoOn, Loading

\* What does not touch the records, the files and the loads keeps them.
LEMMA RecordsFrame ==
  ASSUME RecordsKept, LoadsGoOn, UNCHANGED <<CharacterID, Dirty, Data, File, Truth>>
  PROVE  RecordsKept'
BY SameLoads DEF RecordsKept

\* A new version goes into a record that nobody is loading: the only record of
\* its character, which becomes dirty.
LEMMA NewVersion ==
  ASSUME Base, RecordsKept, LoadsGoOn, NEW s \in Slot, NEW c \in Char, CharacterID[s] = c, ~Loading(s),
         Data' = [Data EXCEPT ![s] = @ + 1], Truth' = [Truth EXCEPT ![c] = @ + 1],
         Dirty' = [Dirty EXCEPT ![s] = TRUE], UNCHANGED <<CharacterID, File>>
  PROVE  RecordsKept'
<1>1. \A r \in Slot : Loading(r)' <=> Loading(r)
  BY SameLoads
<1>2. /\ Data \in [Slot -> Nat] /\ Truth \in [Char -> Nat] /\ Dirty \in [Slot -> BOOLEAN]
      /\ CharacterID \in [Slot -> Char \cup {NoChar}] /\ c # NoChar
  BY Consts DEF Base, TypeOK, SlotsOK, DiskOK
<1>3. \A r \in Slot \ {s} : CharacterID[r] # c
  BY <1>2 DEF Base, OneSlotPerCharacter
<1>4. /\ \A r \in Slot \ {s} : Data'[r] = Data[r] /\ Dirty'[r] = Dirty[r]
      /\ \A d \in Char \ {c} : Truth'[d] = Truth[d]
      /\ Data'[s] = Data[s] + 1 /\ Truth'[c] = Truth[c] + 1 /\ Dirty'[s] = TRUE
  BY <1>2
<1> QED
  BY <1>1, <1>2, <1>3, <1>4 DEF RecordsKept

\* send_mails on a slot that nobody has locked.
LEMMA SendMailsRecords ==
  ASSUME Base, Locks, RecordsKept, LoadsGoOn, NEW s \in Slot, Locked[s] = NoThread, SendMails(s),
         UNCHANGED <<CharacterID, File>>
  PROVE  RecordsKept'
<1>1. ~Loading(s)
  BY Consts DEF Loading, Locks, WorkerLocks
<1>2. CASE CharacterID[s] # NoChar /\ DelayedMails[CharacterID[s]] > 0
  <2>1. CharacterID[s] \in Char
    BY <1>2 DEF Base, TypeOK, SlotsOK
  <2> QED
    BY <1>1, <1>2, <2>1, NewVersion DEF SendMails
<1>3. CASE ~(CharacterID[s] # NoChar /\ DelayedMails[CharacterID[s]] > 0)
  BY <1>3, RecordsFrame DEF SendMails
<1> QED
  BY <1>2, <1>3

\* SavePlayerData of a record: afterwards its file is right if it is not being
\* loaded, and no other file is touched.
LEMMA SaveRecord ==
  ASSUME Base, RecordsKept, NEW s \in Slot, File' = FileAfterSave(s), UNCHANGED Truth
  PROVE  /\ \A c \in Char : File'[c] = File[c] \/ (c = CharacterID[s] /\ Dirty[s])
         /\ CharacterID[s] # NoChar => File'[CharacterID[s]] = Truth[CharacterID[s]]
         /\ \A r \in Slot \ {s} : CharacterID[r] # NoChar => File'[CharacterID[r]] = File[CharacterID[r]]
<1>1. /\ File \in [Char -> Nat] /\ CharacterID \in [Slot -> Char \cup {NoChar}]
      /\ Dirty \in [Slot -> BOOLEAN]
  BY DEF Base, TypeOK, SlotsOK, DiskOK
<1> SUFFICES /\ \A c \in Char : File'[c] = File[c] \/ (c = CharacterID[s] /\ Dirty[s])
             /\ CharacterID[s] # NoChar => File'[CharacterID[s]] = Truth[CharacterID[s]]
  BY <1>1 DEF Base, OneSlotPerCharacter
<1>2. CASE Dirty[s] /\ CharacterID[s] # NoChar
  <2>1. File' = [File EXCEPT ![CharacterID[s]] = Data[s]] /\ CharacterID[s] \in Char
    BY <1>1, <1>2 DEF FileAfterSave
  <2>2. Data[s] = Truth[CharacterID[s]]
    BY <1>2 DEF RecordsKept
  <2> QED
    BY <1>1, <1>2, <2>1, <2>2
<1>3. CASE ~(Dirty[s] /\ CharacterID[s] # NoChar)
  BY <1>1, <1>3 DEF FileAfterSave, RecordsKept
<1> QED
  BY <1>2, <1>3

\* assign_player_pool_slot takes a slot from a character: what it evicts is
\* saved, and what it will load is on disk.
LEMMA FreshRecord ==
  ASSUME Base, Locks, RecordsKept, NEW t \in Worker, AssignFresh(t)
  PROVE  RecordsKept'
<1>1. PICK s \in Slot :
         /\ CharacterID[s] = NoChar \/ Locked[s] = NoThread
         /\ File' = FileAfterSave(s)
         /\ CharacterID' = [CharacterID EXCEPT ![s] = who[t]]
         /\ Dirty' = [Dirty EXCEPT ![s] = FALSE]
         /\ Data' = [Data EXCEPT ![s] = 0]
         /\ ptr' = [ptr EXCEPT ![t] = s]
  BY DEF AssignFresh, Candidates, Unused
<1>2. /\ pc[t] = "assign" /\ pc' = [pc EXCEPT ![t] = "loading"] /\ who[t] \in Char /\ UNCHANGED Truth
      /\ \A r \in Slot : CharacterID[r] # who[t]
  BY DEF AssignFresh, Goto, SlotsOf, Base, Control, WorkerControl
<1>3. /\ CharacterID \in [Slot -> Char \cup {NoChar}] /\ Dirty \in [Slot -> BOOLEAN] /\ Data \in [Slot -> Nat]
      /\ pc \in [Worker -> {"idle", "assign", "loading", "unload", "assigned",
                            "accepted", "submit", "reply", "waiting"}]
      /\ ptr \in [Worker -> Slot \cup {NoSlot}]
  BY DEF Base, TypeOK, SlotsOK, WorkersOK
<1>4. Loading(s)' /\ \A r \in Slot \ {s} : Loading(r)' <=> Loading(r)
  BY <1>1, <1>2, <1>3 DEF Loading
<1>5. /\ CharacterID'[s] = who[t] /\ Dirty'[s] = FALSE
      /\ \A r \in Slot \ {s} : CharacterID'[r] = CharacterID[r] /\ Dirty'[r] = Dirty[r] /\ Data'[r] = Data[r]
  BY <1>1, <1>3
<1>6. /\ \A c \in Char : File'[c] = File[c] \/ (c = CharacterID[s] /\ Dirty[s])
      /\ CharacterID[s] # NoChar => File'[CharacterID[s]] = Truth[CharacterID[s]]
  BY <1>1, <1>2, SaveRecord
<1>7. File'[who[t]] = Truth[who[t]]
  BY <1>2, <1>6 DEF RecordsKept
<1>8. \A r \in Slot \ {s} : CharacterID[r] # NoChar => File'[CharacterID[r]] = File[CharacterID[r]]
  BY <1>3, <1>6 DEF Base, OneSlotPerCharacter
<1>9. ASSUME NEW r \in Slot, CharacterID'[r] # NoChar
      PROVE  /\ ~Loading(r)' => Data'[r] = Truth'[CharacterID'[r]]
             /\ ~Dirty'[r] => File'[CharacterID'[r]] = Truth'[CharacterID'[r]]
             /\ Loading(r)' => ~Dirty'[r]
  <2>1. CASE r = s
    BY <1>2, <1>4, <1>5, <1>7, <2>1
  <2>2. CASE r # s
    BY <1>2, <1>4, <1>5, <1>8, <1>9, <2>2 DEF RecordsKept
  <2> QED
    BY <2>1, <2>2
<1>10. ASSUME NEW c \in Char, \A r \in Slot : CharacterID'[r] # c PROVE File'[c] = Truth'[c]
  <2>1. CASE c = CharacterID[s]
    BY <1>2, <1>6, <2>1, Consts
  <2>2. CASE c # CharacterID[s]
    <3>1. \A r \in Slot : CharacterID[r] # c
      BY <1>5, <1>10, <2>2
    <3> QED
      BY <1>2, <1>6, <2>2, <3>1 DEF RecordsKept
  <2> QED
    BY <2>1, <2>2
<1> QED
  BY <1>9, <1>10 DEF RecordsKept

\* LoadPlayerData: the file of the record was right.
LEMMA LoadRecord ==
  ASSUME Base, Locks, RecordsKept, NEW t \in Worker, LoadPlayerData(t)
  PROVE  RecordsKept'
<1>0. PICK s \in Slot : s = ptr[t]
  BY DEF LoadPlayerData, Base, Control, WorkerControl
<1>1. /\ pc[t] = "loading" /\ s \in Slot /\ Locked[s] = t /\ CharacterID[s] # NoChar
      /\ UNCHANGED <<CharacterID, Dirty, File, Truth, ptr>> /\ pc' = [pc EXCEPT ![t] = "assigned"]
      /\ Data' = [Data EXCEPT ![s] = FileOf(CharacterID[s])]
  BY <1>0 DEF LoadPlayerData, Goto, disk, Base, Control, WorkerControl, Locks, WorkerLocks
<1>2. Loading(s)
  BY <1>0, <1>1 DEF Loading
<1>3. /\ Data \in [Slot -> Nat]
      /\ pc \in [Worker -> {"idle", "assign", "loading", "unload", "assigned",
                            "accepted", "submit", "reply", "waiting"}]
  BY DEF Base, TypeOK, SlotsOK, WorkersOK
<1>4. \A r \in Slot \ {s} : (Loading(r)' <=> Loading(r)) /\ Data'[r] = Data[r]
  BY <1>0, <1>1, <1>3 DEF Loading
<1>5. ~Loading(s)'
  <2>1. \A u \in Worker \ {t} : ~(pc[u] = "loading" /\ ptr[u] = s)
    BY <1>1 DEF Locks, WorkerLocks
  <2> QED
    BY <1>1, <1>3, <2>1 DEF Loading
<1>6. Data'[s] = File[CharacterID[s]] /\ File[CharacterID[s]] = Truth[CharacterID[s]]
  BY <1>1, <1>2, <1>3 DEF FileOf, RecordsKept
<1> QED
  BY <1>1, <1>4, <1>5, <1>6 DEF RecordsKept

\* Every step of every thread keeps the records.
LEMMA RecordsStep ==
  ASSUME Unreadable = {}, Base, Locks, Next, RecordsKept PROVE RecordsKept'
<1>1. ASSUME NEW t \in Worker, AssignLock(t) PROVE RecordsKept'
  BY <1>1, RecordsFrame, Consts DEF LoadsGoOn, Base, TypeOK, WorkersOK, AssignLock, Goto, disk
<1>2. ASSUME NEW t \in Worker, AssignBusy(t) PROVE RecordsKept'
  BY <1>2, RecordsFrame, Consts DEF LoadsGoOn, Base, TypeOK, WorkersOK, AssignBusy, Goto, disk
<1>3. ASSUME NEW t \in Worker, AssignFresh(t) PROVE RecordsKept'
  BY <1>3, FreshRecord
<1>4. ASSUME NEW t \in Worker, AssignNone(t) PROVE RecordsKept'
  BY <1>4, RecordsFrame, Consts DEF LoadsGoOn, Base, TypeOK, WorkersOK, AssignNone, Finish,
     Goto, slots, disk
<1>5. ASSUME NEW t \in Worker, LoadPlayerData(t) PROVE RecordsKept'
  BY <1>5, LoadRecord
<1>6. ASSUME NEW t \in Worker, LoadFails(t) PROVE RecordsKept'
  BY <1>6 DEF LoadFails
<1>7. ASSUME NEW t \in Worker, Unload(t) PROVE RecordsKept'
  BY <1>7 DEF Unload, Locks, WorkerLocks
<1>8. ASSUME NEW t \in Worker, ReleaseSlot(t) PROVE RecordsKept'
  BY <1>8, RecordsFrame, Consts DEF LoadsGoOn, Base, TypeOK, WorkersOK, ReleaseSlot, Goto, disk
<1>9. ASSUME NEW t \in Comm, BlockLogin(t) PROVE RecordsKept'
  BY <1>9, RecordsFrame, Consts DEF LoadsGoOn, Base, TypeOK, WorkersOK, BlockLogin, Finish,
     Goto, disk
<1>10. ASSUME NEW t \in Comm, AcceptLogin(t) PROVE RecordsKept'
  BY <1>10, RecordsFrame, Consts DEF LoadsGoOn, Base, TypeOK, WorkersOK, AcceptLogin, Goto, disk
<1>11. ASSUME NEW t \in Comm, SubmitLogin(t) PROVE RecordsKept'
  BY <1>11, RecordsFrame, Consts DEF LoadsGoOn, Base, TypeOK, WorkersOK, SubmitLogin, Goto,
     slots, disk
<1>12. ASSUME NEW t \in Comm, JoinNew(t) PROVE RecordsKept'
  BY <1>12, RecordsFrame, Consts DEF LoadsGoOn, Base, TypeOK, WorkersOK, JoinNew, slots,
     workers, disk
<1>13. ASSUME NEW t \in Comm, JoinFails(t) PROVE RecordsKept'
  <2>1. pc[t] = "waiting"
    BY <1>13 DEF JoinFails, Base, Control, GameControl
  <2> QED
    BY <1>13, <2>1, RecordsFrame, Consts DEF LoadsGoOn, Base, TypeOK, WorkersOK, JoinFails, LoginOver, Goto,
       slots, disk
<1>14. ASSUME NEW t \in Comm, JoinRefused(t) PROVE RecordsKept'
  BY <1>14, RecordsFrame, Consts DEF LoadsGoOn, Base, TypeOK, WorkersOK, JoinRefused, LoginOver,
     Goto, disk
<1>15. ASSUME NEW t \in Comm, TakeOver(t) PROVE RecordsKept'
  BY <1>15, RecordsFrame, Consts DEF LoadsGoOn, Base, TypeOK, WorkersOK, TakeOver, LoginOver,
     Goto, disk
<1>16. ASSUME NEW t \in Comm, DropLogin(t) PROVE RecordsKept'
  BY <1>16, RecordsFrame, Consts DEF LoadsGoOn, Base, TypeOK, WorkersOK, DropLogin, LoginOver,
     Goto, slots, disk
<1>17. ASSUME NEW t \in Comm, NEW c \in Char, PerformRegistration(t, c) PROVE RecordsKept'
  BY <1>17, RecordsFrame, Consts DEF LoadsGoOn, Base, TypeOK, WorkersOK, PerformRegistration,
     Goto, slots, disk
<1>18. ASSUME NEW c \in Char, WriteDepot(c) PROVE RecordsKept'
  <2>1. Player[c] \in Slot /\ Locked[Player[c]] = Game /\ CharacterID[Player[c]] = c
    BY <1>18 DEF WriteDepot, Locks, GameLocks, Base, TypeOK, GameOK
  <2>2. ~Loading(Player[c]) /\ LoadsGoOn
    BY <1>18, <2>1, Consts DEF Loading, Locks, WorkerLocks, LoadsGoOn, WriteDepot, workers
  <2> QED
    BY <1>18, <2>1, <2>2, NewVersion DEF WriteDepot
<1>19. ASSUME NEW c \in Char, SendMail(c) PROVE RecordsKept'
  BY <1>19, RecordsFrame, Consts DEF LoadsGoOn, Base, TypeOK, WorkersOK, SendMail, slots,
     workers, disk
<1>20. ASSUME NEW c \in Char, Logout(c) PROVE RecordsKept'
  <2>1. Player[c] \in Slot /\ Locked[Player[c]] = Game /\ CharacterID[Player[c]] = c
    BY <1>20 DEF Logout, Locks, GameLocks, Base, TypeOK, GameOK
  <2>2. ~Loading(Player[c]) /\ LoadsGoOn
    BY <1>20, <2>1, Consts DEF Loading, Locks, WorkerLocks, LoadsGoOn, Logout, workers
  <2> QED
    BY <1>20, <2>1, <2>2, NewVersion DEF Logout
<1>21. ASSUME NEW s \in Slot, SaveCheck(s) PROVE RecordsKept'
  BY <1>21, RecordsFrame, Consts DEF LoadsGoOn, Base, TypeOK, WorkersOK, SaveCheck, slots,
     workers, disk
<1>22. CASE GetOrder
  BY <1>22, RecordsFrame, Consts DEF LoadsGoOn, Base, TypeOK, WorkersOK, GetOrder, Goto, slots,
     disk
<1>23. CASE OrderSuperseded
  BY <1>23, RecordsFrame, Consts DEF LoadsGoOn, Base, TypeOK, WorkersOK, OrderSuperseded,
     Finish, Goto, slots, disk
<1>24. CASE OrderLoaded
  BY <1>24, RecordsFrame, Consts DEF LoadsGoOn, Base, TypeOK, WorkersOK, OrderLoaded, Goto, disk
<1>25. CASE OrderRetry
  BY <1>25, RecordsFrame, Consts DEF LoadsGoOn, Base, TypeOK, WorkersOK, OrderRetry, Goto,
     slots, disk
<1>26. CASE CharacterReply
  BY <1>26, RecordsFrame, Consts DEF LoadsGoOn, Base, TypeOK, WorkersOK, CharacterReply, Finish,
     Goto, slots, disk
<1>27. CASE SaveAttach
  BY <1>27, RecordsFrame, Consts DEF LoadsGoOn, Base, TypeOK, WorkersOK, SaveAttach, workers,
     disk
<1>28. CASE SaveSlot
  <2>1. /\ wslot \in Slot /\ File' = FileAfterSave(wslot) /\ Dirty' = [Dirty EXCEPT ![wslot] = FALSE]
        /\ UNCHANGED <<CharacterID, Data, Truth>> /\ LoadsGoOn
    BY <1>28 DEF SaveSlot, Base, Control, WriterControl, LoadsGoOn, workers
  <2>2. \A s \in Slot : Loading(s)' <=> Loading(s)
    BY <2>1, SameLoads
  <2>3. /\ Dirty \in [Slot -> BOOLEAN] /\ CharacterID \in [Slot -> Char \cup {NoChar}]
    BY DEF Base, TypeOK, SlotsOK
  <2>4. /\ \A c \in Char : File'[c] = File[c] \/ (c = CharacterID[wslot] /\ Dirty[wslot])
        /\ CharacterID[wslot] # NoChar => File'[CharacterID[wslot]] = Truth[CharacterID[wslot]]
    BY <2>1, SaveRecord
  <2>5. \A s \in Slot \ {wslot} : CharacterID[s] # NoChar => File'[CharacterID[s]] = File[CharacterID[s]]
    BY <2>1, SaveRecord
  <2>6. \A s \in Slot \ {wslot} : Dirty'[s] = Dirty[s]
    BY <2>1, <2>3
  <2>7. Dirty'[wslot] = FALSE
    BY <2>1, <2>3
  <2> QED
    BY <2>1, <2>2, <2>4, <2>5, <2>6, <2>7 DEF RecordsKept
<1>29. CASE SaveRelease
  BY <1>29, RecordsFrame, Consts DEF LoadsGoOn, Base, TypeOK, WorkersOK, SaveRelease, workers,
     disk
<1>30. CASE JoinAttach
  <2>1. PICK s \in Slot : Locked[s] = NoThread /\ SendMails(s)
    BY <1>30 DEF JoinAttach, SlotsOf
  <2>2. LoadsGoOn
    BY <1>30 DEF JoinAttach, LoginOver, Goto, LoadsGoOn, Base, TypeOK, WorkersOK, Control, GameControl
  <2> QED
    BY <1>30, <2>1, <2>2, SendMailsRecords DEF JoinAttach
<1>31. CASE Decrease
  BY <1>31, RecordsFrame, Consts DEF LoadsGoOn, Base, TypeOK, WorkersOK, Decrease, workers, disk
<1>32. CASE ReleaseGame
  BY <1>32, RecordsFrame, Consts DEF LoadsGoOn, Base, TypeOK, WorkersOK, ReleaseGame, workers,
     disk
<1>33. CASE ProcessCharacterReply
  <2>1. PICK s \in Slot : Locked[s] = NoThread /\ SendMails(s)
    BY <1>33 DEF ProcessCharacterReply, SlotsOf
  <2>2. LoadsGoOn
    BY <1>33 DEF ProcessCharacterReply, LoadsGoOn, workers
  <2> QED
    BY <1>33, <2>1, <2>2, SendMailsRecords DEF ProcessCharacterReply
<1>34. CASE IgnoreCharacterReply
  BY <1>34, RecordsFrame, Consts DEF LoadsGoOn, Base, TypeOK, WorkersOK, IgnoreCharacterReply,
     slots, workers, disk
<1>35. CASE ExitStart
  BY <1>35, RecordsFrame, Consts DEF LoadsGoOn, Base, TypeOK, WorkersOK, ExitStart, slots,
     workers, disk
<1>36. CASE ExitNext
  BY <1>36, RecordsFrame, Consts DEF LoadsGoOn, Base, TypeOK, WorkersOK, ExitNext, slots,
     workers, disk
<1>37. CASE ExitDrain
  <2>1. gslot \in Slot /\ Locked[gslot] = NoThread /\ SendMails(gslot)
    BY <1>37 DEF ExitDrain, Base, Control, GameControl
  <2>2. LoadsGoOn
    BY <1>37 DEF ExitDrain, LoadsGoOn, workers
  <2> QED
    BY <1>37, <2>1, <2>2, SendMailsRecords DEF ExitDrain
<1>38. CASE ExitDrained
  BY <1>38, RecordsFrame, Consts DEF LoadsGoOn, Base, TypeOK, WorkersOK, ExitDrained, slots,
     workers, disk
<1>39. CASE ExitAttach
  BY <1>39, RecordsFrame, Consts DEF LoadsGoOn, Base, TypeOK, WorkersOK, ExitAttach, workers,
     disk
<1>40. CASE ExitFree
  <2>1. /\ gslot \in Slot /\ Locked[gslot] = Game /\ LoadsGoOn /\ UNCHANGED <<Data, Truth>>
    BY <1>40 DEF ExitFree, Base, Control, GameControl, Locks, GameLocks, LoadsGoOn, workers
  <2>2. CASE UNCHANGED <<File, Dirty, CharacterID>>
    BY <2>1, <2>2, RecordsFrame
  <2>3. CASE /\ CharacterID[gslot] # NoChar /\ File' = FileAfterSave(gslot)
             /\ Dirty' = [Dirty EXCEPT ![gslot] = FALSE]
             /\ CharacterID' = [CharacterID EXCEPT ![gslot] = NoChar]
    <3>1. \A s \in Slot : Loading(s)' <=> Loading(s)
      BY <2>1, SameLoads
    <3>2. /\ Dirty \in [Slot -> BOOLEAN] /\ CharacterID \in [Slot -> Char \cup {NoChar}]
      BY DEF Base, TypeOK, SlotsOK
    <3>3. /\ \A c \in Char : File'[c] = File[c] \/ (c = CharacterID[gslot] /\ Dirty[gslot])
          /\ File'[CharacterID[gslot]] = Truth[CharacterID[gslot]]
      BY <2>1, <2>3, SaveRecord
    <3>4. \A s \in Slot \ {gslot} : CharacterID[s] # NoChar => File'[CharacterID[s]] = File[CharacterID[s]]
      BY <2>1, <2>3, SaveRecord
    <3>5. /\ \A s \in Slot \ {gslot} : Dirty'[s] = Dirty[s] /\ CharacterID'[s] = CharacterID[s]
          /\ CharacterID'[gslot] = NoChar
      BY <2>1, <2>3, <3>2
    <3>6. ASSUME NEW c \in Char, \A s \in Slot : CharacterID'[s] # c PROVE File'[c] = Truth'[c]
      BY <2>1, <3>3, <3>5, <3>6 DEF RecordsKept
    <3> QED
      BY <2>1, <3>1, <3>4, <3>5, <3>6 DEF RecordsKept
  <2> QED
    BY <1>40, <2>2, <2>3 DEF ExitFree
<1>41. CASE EndGame
  BY <1>41, RecordsFrame, Consts DEF LoadsGoOn, Base, TypeOK, WorkersOK, EndGame, slots,
     workers, disk
<1> QED
  BY <1>1, <1>2, <1>3, <1>4, <1>5, <1>6, <1>7, <1>8, <1>9, <1>10, <1>11, <1>12, <1>13, <1>14,
     <1>15, <1>16, <1>17, <1>18, <1>19, <1>20, <1>21, <1>22, <1>23, <1>24, <1>25, <1>26,
     <1>27, <1>28, <1>29, <1>30, <1>31, <1>32, <1>33, <1>34, <1>35, <1>36, <1>37, <1>38,
     <1>39, <1>40, <1>41
  DEF Next, Environment, CommStep, Join, Assign, ReaderStep, WriterStep, GameStep, ExitStep, Worker

\* Nothing has been changed in the beginning.
LEMMA RecordsInit == Init => RecordsKept
BY DEF Init, RecordsKept

\* The stored data only depend on the variables.
LEMMA RecordsStutter ==
  ASSUME RecordsKept, UNCHANGED vars PROVE RecordsKept'
BY RecordsFrame DEF LoadsGoOn, vars, slots, workers, disk

\* No committed change of a character is ever lost, as long as every player
\* file can be read: not by the eviction of a record, by the writer thread, by
\* a login that meets a mail delivery, nor by the shutdown.
THEOREM UpdatesKept ==
  ASSUME Unreadable = {} PROVE Spec => []NoLostUpdate
<1>1. Base /\ Locks /\ [Next]_vars => Locks'
  BY WorkerLocksStep, RunningLocksStep, GameLocksStep, LocksStutter DEF Locks
<1>2. Base /\ Locks /\ RecordsKept /\ [Next]_vars => RecordsKept'
  BY RecordsStep, RecordsStutter
<1>3. RecordsKept => NoLostUpdate
  BY DEF RecordsKept, NoLostUpdate, SlotsOf
<1> QED
  BY <1>1, <1>2, <1>3, LocksInit, RecordsInit, BaseInvariance, PTL DEF Spec

-----------------------------------------------------------------------------
(* Every mark is counted.                                                  *)

\* The thread needs the slot it points to, which therefore still has the
\* character that the thread asked for.
Serves(t) ==
    \/ pc[t] \in {"loading", "accepted", "submit", "reply"}
    \/ pc[t] = "assigned" /\ (t \in Comm \/ Locked[ptr[t]] = t)

\* The kinds of Marks on slot s: the login or order of a thread, a pending
\* reply, the player, and the mark the game thread is about to remove.
LoginOn(u, s) ==
    \/ /\ ptr[u] = s
       /\ \/ pc[u] \in {"accepted", "submit", "reply"}
          \/ u \in Comm /\ pc[u] = "assigned" /\ Locked[s] # u
    \/ u \in Comm /\ pc[u] = "waiting" /\ login[u] = CharacterID[s]
ReplyOn(j, s) == j \in DOMAIN replies /\ replies[j] = CharacterID[s]
DropOn(s) == gpc = "decrease" /\ gslot = s

\* The set is finite and has at most n elements.
Count(M, n) == IsFiniteSet(M) /\ n >= Cardinality(M)

\* While the server runs, the slot of everybody who relies on one is there, and
\* every mark is counted.
Served ==
    Running =>
        /\ \A t \in Worker : Serves(t) => CharacterID[ptr[t]] = who[t]
        /\ \A t \in Comm : pc[t] = "waiting" => \E s \in Slot : CharacterID[s] = login[t] /\ login[t] # NoChar
        /\ \A j \in DOMAIN replies : \E s \in Slot : CharacterID[s] = replies[j]
        /\ \A s \in Slot : CharacterID[s] # NoChar => Count(Marks(s), Sticky[s])

\* Nobody goes back from exit_player_pool to the game.
LEMMA RunningBack ==
  ASSUME Base, Next, Running' PROVE Running
<1> SUFFICES ASSUME ~Running PROVE ~Running'
  OBVIOUS
<1> DEFINE Elsewhere == UNCHANGED <<gpc, gnext>> \/ gpc \in {"idle", "attach", "ending"}
<1>1. Elsewhere \/ Decrease \/ ReleaseGame \/ ExitStep
  <2>1. Environment => Elsewhere
    BY DEF Environment, game, PerformRegistration, DropLogin, WriteDepot, SendMail, Logout, SaveCheck, EndGame
  <2>2. ASSUME NEW t \in Worker, Assign(t) PROVE Elsewhere
    BY <2>2 DEF Assign, game, AssignLock, AssignBusy, AssignFresh, AssignNone, LoadPlayerData, LoadFails, Unload
  <2>3. ASSUME NEW t \in Worker, BlockLogin(t) \/ AcceptLogin(t) \/ ReleaseSlot(t) \/ SubmitLogin(t)
        PROVE  Elsewhere
    BY <2>3 DEF game, BlockLogin, AcceptLogin, ReleaseSlot, SubmitLogin
  <2>4. ASSUME NEW t \in Comm, Join(t) PROVE Elsewhere
    BY <2>4 DEF Join, JoinNew, JoinFails, JoinRefused, TakeOver
  <2>5. GetOrder \/ OrderSuperseded \/ OrderLoaded \/ OrderRetry \/ CharacterReply \/ WriterStep => Elsewhere
    BY DEF game, GetOrder, OrderSuperseded, OrderLoaded, OrderRetry, CharacterReply, WriterStep, SaveAttach,
       SaveSlot, SaveRelease
  <2>6. JoinAttach \/ ProcessCharacterReply \/ IgnoreCharacterReply => Elsewhere
    BY DEF game, JoinAttach, ProcessCharacterReply, IgnoreCharacterReply
  <2> HIDE DEF Elsewhere
  <2>7. \A t \in Comm : t \in Worker
    BY DEF Worker
  <2>8. Reader \in Worker
    BY DEF Worker
  <2> QED
    BY <2>1, <2>2, <2>3, <2>4, <2>5, <2>6, <2>7, <2>8 DEF Next, CommStep, ReaderStep, GameStep
<1>2. \/ gpc \in {"exit", "drain", "exitattach", "free", "exited"}
      \/ (gpc \in {"decrease", "release"} /\ gnext \in {"drain", "exit"})
  BY DEF Running, Base, TypeOK, GameOK
<1>3. CASE UNCHANGED <<gpc, gnext>>
  BY <1>3 DEF Running
<1>4. CASE Decrease \/ ReleaseGame
  BY <1>2, <1>4 DEF Decrease, ReleaseGame, Running
<1>5. CASE ExitStep
  BY <1>2, <1>5 DEF ExitStep, ExitStart, ExitNext, ExitDrain, ExitDrained, ExitAttach, ExitFree, DropSlot, Running
<1> QED
  BY <1>1, <1>2, <1>3, <1>4, <1>5

\* What is in Marks(s).
LEMMA HasMark ==
  ASSUME NEW s
  PROVE  /\ \A u \in Worker : LoginOn(u, s) => <<"login", u>> \in Marks(s)
         /\ \A j : ReplyOn(j, s) => <<"reply", j>> \in Marks(s)
         /\ \A c \in Char : Player[c] = s => <<"player", c>> \in Marks(s)
         /\ DropOn(s) => <<"drop", 0>> \in Marks(s)
<1>1. \A u \in Worker : LoginOn(u, s) => <<"login", u>> \in Marks(s)
  BY DEF LoginOn, Marks
<1>2. \A j : ReplyOn(j, s) => <<"reply", j>> \in Marks(s)
  BY DEF ReplyOn, Marks
<1>3. \A c \in Char : Player[c] = s => <<"player", c>> \in Marks(s)
  BY DEF Marks
<1>4. DropOn(s) => <<"drop", 0>> \in Marks(s)
  BY DEF DropOn, Marks
<1> QED
  BY <1>1, <1>2, <1>3, <1>4

\* After a step, nothing else is in it.
LEMMA MarksWithin ==
  ASSUME NEW s, NEW Y,
         \A u \in Worker : LoginOn(u, s)' => <<"login", u>> \in Y,
         \A j : ReplyOn(j, s)' => <<"reply", j>> \in Y,
         \A c \in Char : Player'[c] = s => <<"player", c>> \in Y,
         DropOn(s)' => <<"drop", 0>> \in Y
  PROVE  Marks(s)' \subseteq Y
<1> SUFFICES ASSUME NEW x \in Marks(s)' PROVE x \in Y
  OBVIOUS
<1>1. \/ \E u \in Worker : LoginOn(u, s)' /\ x = <<"login", u>>
      \/ \E j : ReplyOn(j, s)' /\ x = <<"reply", j>>
      \/ \E c \in Char : Player'[c] = s /\ x = <<"player", c>>
      \/ DropOn(s)' /\ x = <<"drop", 0>>
  BY DEF Marks, LoginOn, ReplyOn, DropOn, Worker
<1> QED
  BY <1>1

-----------------------------------------------------------------------------
\* A set that loses or gains an element, and the number that bounds its size.
LEMMA CountFewer ==
  ASSUME NEW M, NEW n \in Int, Count(M, n), NEW K, K \subseteq M, NEW k \in Int, k >= n
  PROVE  Count(K, k)
<1>1. IsFiniteSet(K) /\ Cardinality(K) <= Cardinality(M) /\ Cardinality(M) \in Nat /\ Cardinality(K) \in Nat
  BY FS_Subset, FS_CardinalityType DEF Count
<1> QED
  BY <1>1 DEF Count

\* One more.
LEMMA CountMore ==
  ASSUME NEW M, NEW n \in Int, Count(M, n), NEW x, NEW K, K \subseteq M \cup {x}, NEW k \in Int, k >= n + 1
  PROVE  Count(K, k)
<1>1. IsFiniteSet(M) /\ Cardinality(M) \in Nat /\ n >= Cardinality(M)
  BY FS_CardinalityType DEF Count
<1>2. /\ IsFiniteSet(M \cup {x})
      /\ Cardinality(M \cup {x}) = IF x \in M THEN Cardinality(M) ELSE Cardinality(M) + 1
  BY <1>1, FS_AddElement
<1>3. k >= Cardinality(M \cup {x})
  BY <1>1, <1>2
<1>4. Count(M \cup {x}, k)
  BY <1>2, <1>3 DEF Count
<1> QED
  BY <1>4, CountFewer

\* One less.
LEMMA CountLess ==
  ASSUME NEW M, NEW n \in Int, Count(M, n), NEW x \in M, NEW K, K \subseteq M \ {x}, NEW k \in Int, k >= n - 1
  PROVE  Count(K, k)
<1>1. /\ IsFiniteSet(M \ {x}) /\ Cardinality(M) \in Nat /\ Cardinality(M \ {x}) = Cardinality(M) - 1
  BY FS_RemoveElement, FS_CardinalityType DEF Count
<1>2. Count(M \ {x}, k)
  BY <1>1 DEF Count
<1> QED
  BY <1>2, CountFewer

\* One for another.
LEMMA CountSame ==
  ASSUME NEW M, NEW n \in Int, Count(M, n), NEW x \in M, NEW y, NEW K, K \subseteq (M \ {x}) \cup {y},
         NEW k \in Int, k >= n
  PROVE  Count(K, k)
<1> DEFINE L == M \ {x}
           l == n - 1
<1>1. l \in Int /\ Count(L, l) /\ k >= l + 1
  BY CountLess
<1> HIDE DEF L, l
<1>2. K \subseteq L \cup {y}
  BY DEF L
<1> QED
  BY <1>1, <1>2, CountMore

-----------------------------------------------------------------------------
\* Only the control of t and its locks may change.
OnlyThread(t) ==
    /\ \A u \in Worker \ {t} : /\ pc'[u] = pc[u] /\ ptr'[u] = ptr[u] /\ who'[u] = who[u]
                               /\ u \in Comm => login'[u] = login[u]
    /\ \A u \in Worker \ {t}, s \in Slot : Locked'[s] = u <=> Locked[s] = u
    /\ UNCHANGED CharacterID

\* Then the others need what they needed.
LEMMA OtherThreads ==
  ASSUME Base, NEW t \in Worker, OnlyThread(t), NEW u \in Worker \ {t}
  PROVE  (Serves(u)' => Serves(u)) /\ \A s \in Slot : LoginOn(u, s)' => LoginOn(u, s)
<1>1. /\ pc'[u] = pc[u] /\ ptr'[u] = ptr[u] /\ (u \in Comm => login'[u] = login[u])
      /\ \A s \in Slot : Locked'[s] = u <=> Locked[s] = u
      /\ CharacterID' = CharacterID
  BY DEF OnlyThread
<1>2. pc[u] = "assigned" => ptr[u] \in Slot
  BY DEF Base, Control, WorkerControl
<1>3. Serves(u)' => Serves(u)
  BY <1>1, <1>2 DEF Serves
<1>4. \A s \in Slot : LoginOn(u, s)' => LoginOn(u, s)
  BY <1>1 DEF LoginOn
<1> QED
  BY <1>3, <1>4

\* What t does to the count of the slot s.
Counts(t, s) ==
    \/ Sticky'[s] >= Sticky[s] /\ (LoginOn(t, s)' => LoginOn(t, s))
    \/ Sticky'[s] >= Sticky[s] + 1
    \/ Sticky'[s] >= Sticky[s] - 1 /\ LoginOn(t, s) /\ ~LoginOn(t, s)'

\* The thread t takes care of its own mark and leaves the others alone.
CountsItsMark(t) ==
    /\ OnlyThread(t) /\ UNCHANGED <<replies, Player>>
    /\ \A s \in Slot : DropOn(s)' => DropOn(s)
    /\ Running => \A s \in Slot : CharacterID[s] # NoChar => Counts(t, s)


-----------------------------------------------------------------------------
(* Steps that turn one kind of mark into another.                          *)

\* Whatever a step does to the marks, the threads other than t keep their slots.
LEMMA ServedBy ==
  ASSUME Base, Served, Running' => Running, NEW t \in Worker, OnlyThread(t),
         Running => (Serves(t)' => CharacterID[ptr'[t]] = who'[t]),
         Running => (t \in Comm /\ pc'[t] = "waiting"
                        => \E s \in Slot : CharacterID[s] = login'[t] /\ login'[t] # NoChar),
         Running => \A j \in DOMAIN replies' : \E s \in Slot : CharacterID[s] = replies'[j],
         Running => \A s \in Slot : CharacterID[s] # NoChar => Count(Marks(s)', Sticky'[s])
  PROVE  Served'
<1> SUFFICES ASSUME Running, Running' PROVE Served'
  BY DEF Served
<1>1. CharacterID' = CharacterID
  BY DEF OnlyThread
<1>2. \A u \in Worker : Serves(u)' => CharacterID'[ptr'[u]] = who'[u]
  <2> SUFFICES ASSUME NEW u \in Worker, Serves(u)' PROVE CharacterID'[ptr'[u]] = who'[u]
    OBVIOUS
  <2>1. CASE u = t
    BY <1>1, <2>1
  <2>2. CASE u # t
    <3>1. Serves(u) /\ ptr'[u] = ptr[u] /\ who'[u] = who[u]
      BY <2>2, OtherThreads DEF OnlyThread
    <3> QED
      BY <1>1, <3>1 DEF Served
  <2> QED
    BY <2>1, <2>2
<1>3. \A u \in Comm : pc'[u] = "waiting" => \E s \in Slot : CharacterID'[s] = login'[u] /\ login'[u] # NoChar
  <2> SUFFICES ASSUME NEW u \in Comm, pc'[u] = "waiting"
               PROVE  \E s \in Slot : CharacterID'[s] = login'[u] /\ login'[u] # NoChar
    OBVIOUS
  <2>1. CASE u = t
    BY <1>1, <2>1
  <2>2. CASE u # t
    <3>1. pc[u] = "waiting" /\ login'[u] = login[u]
      BY <2>2, Consts DEF OnlyThread
    <3> QED
      BY <1>1, <3>1 DEF Served
  <2> QED
    BY <2>1, <2>2
<1> QED
  BY <1>1, <1>2, <1>3 DEF Served

\* A step of one thread that takes care of its mark.
LEMMA ThreadStep ==
  ASSUME Base, Served, Running' => Running, NEW t \in Worker, CountsItsMark(t),
         Sticky' \in [Slot -> Int],
         Running => (Serves(t)' => CharacterID[ptr'[t]] = who'[t]),
         Running => (t \in Comm /\ pc'[t] = "waiting"
                        => \E s \in Slot : CharacterID[s] = login'[t] /\ login'[t] # NoChar)
  PROVE  Served'
<1> SUFFICES ASSUME Running, Running' PROVE Served'
  BY DEF Served
<1>0. /\ OnlyThread(t) /\ UNCHANGED <<replies, Player>> /\ \A s \in Slot : DropOn(s)' => DropOn(s)
      /\ \A s \in Slot : CharacterID[s] # NoChar => Counts(t, s)
  BY DEF CountsItsMark
<1>1. CharacterID' = CharacterID
  BY <1>0 DEF OnlyThread
<1>2. \A j \in DOMAIN replies' : \E s \in Slot : CharacterID[s] = replies'[j]
  BY <1>0, <1>1 DEF Served
<1>3. ASSUME NEW s \in Slot, CharacterID[s] # NoChar PROVE Count(Marks(s)', Sticky'[s])
  <2>1. Count(Marks(s), Sticky[s]) /\ Sticky[s] \in Int /\ Sticky'[s] \in Int
    BY <1>3 DEF Served, Base, TypeOK, SlotsOK
  <2>2. \A u \in Worker \ {t} : LoginOn(u, s)' => <<"login", u>> \in Marks(s) /\ <<"login", u>> # <<"login", t>>
    BY <1>0, OtherThreads, HasMark
  <2>3. \A j : ReplyOn(j, s)' => <<"reply", j>> \in Marks(s) /\ <<"reply", j>> # <<"login", t>>
    BY <1>0, <1>1, HasMark DEF ReplyOn
  <2>4. \A c \in Char : Player'[c] = s => <<"player", c>> \in Marks(s) /\ <<"player", c>> # <<"login", t>>
    BY <1>0, HasMark
  <2>5. DropOn(s)' => <<"drop", 0>> \in Marks(s) /\ <<"drop", 0>> # <<"login", t>>
    BY <1>0, HasMark
  <2>6. CASE Sticky'[s] >= Sticky[s] /\ (LoginOn(t, s)' => LoginOn(t, s))
    <3>1. \A u \in Worker : LoginOn(u, s)' => <<"login", u>> \in Marks(s)
      BY <2>2, <2>6, HasMark
    <3>2. Marks(s)' \subseteq Marks(s)
      BY <2>3, <2>4, <2>5, <3>1, MarksWithin
    <3> QED
      BY <2>1, <2>6, <3>2, CountFewer
  <2>7. CASE Sticky'[s] >= Sticky[s] + 1
    <3> DEFINE Y == Marks(s) \cup {<<"login", t>>}
    <3>1. \A u \in Worker : LoginOn(u, s)' => <<"login", u>> \in Y
      BY <2>2
    <3>2. /\ \A j : ReplyOn(j, s)' => <<"reply", j>> \in Y
          /\ \A c \in Char : Player'[c] = s => <<"player", c>> \in Y
          /\ DropOn(s)' => <<"drop", 0>> \in Y
      BY <2>3, <2>4, <2>5
    <3> HIDE DEF Y
    <3>3. Marks(s)' \subseteq Y
      BY <3>1, <3>2, MarksWithin
    <3> QED
      BY <2>1, <2>7, <3>3, CountMore DEF Y
  <2>8. CASE Sticky'[s] >= Sticky[s] - 1 /\ LoginOn(t, s) /\ ~LoginOn(t, s)'
    <3> DEFINE Y == Marks(s) \ {<<"login", t>>}
    <3>1. \A u \in Worker : LoginOn(u, s)' => <<"login", u>> \in Y
      BY <2>2, <2>8
    <3>2. /\ \A j : ReplyOn(j, s)' => <<"reply", j>> \in Y
          /\ \A c \in Char : Player'[c] = s => <<"player", c>> \in Y
          /\ DropOn(s)' => <<"drop", 0>> \in Y
      BY <2>3, <2>4, <2>5
    <3> HIDE DEF Y
    <3>3. Marks(s)' \subseteq Y
      BY <3>1, <3>2, MarksWithin
    <3>4. <<"login", t>> \in Marks(s)
      BY <2>8, HasMark
    <3> QED
      BY <2>1, <2>8, <3>3, <3>4, CountLess DEF Y
  <2> QED
    BY <1>0, <1>3, <2>6, <2>7, <2>8 DEF Counts
<1> QED
  BY <1>0, <1>2, <1>3, ServedBy

\* A step in which no worker takes part, and none loses or gets a lock.
LEMMA NoWorker ==
  ASSUME Base, Served, UNCHANGED <<workers, CharacterID>>,
         \A u \in Worker, s \in Slot : Locked'[s] = u <=> Locked[s] = u
  PROVE  /\ OnlyThread(Reader)
         /\ Running => (Serves(Reader)' => CharacterID[ptr'[Reader]] = who'[Reader])
         /\ \A u \in Worker, s \in Slot : LoginOn(u, s)' => LoginOn(u, s)
<1>1. OnlyThread(Reader)
  BY DEF OnlyThread, workers
<1>2. Reader \in Worker /\ (pc[Reader] = "assigned" => ptr[Reader] \in Slot)
  BY Consts DEF Base, Control, WorkerControl
<1>3. Serves(Reader)' => Serves(Reader)
  BY <1>2 DEF Serves, workers
<1>4. \A u \in Worker, s \in Slot : LoginOn(u, s)' => LoginOn(u, s)
  BY DEF LoginOn, workers
<1> QED
  BY <1>1, <1>2, <1>3, <1>4 DEF Served, workers

\* Only one slot has the character.
LEMMA OnlySlot ==
  ASSUME Base, NEW r \in Slot, NEW s \in Slot, CharacterID[r] # NoChar, CharacterID[r] = CharacterID[s]
  PROVE  r = s
BY DEF Base, OneSlotPerCharacter

\* get_player_pool_slot finds the slot of a character that has one.
LEMMA FirstSlot ==
  ASSUME Base, NEW s \in Slot, CharacterID[s] # NoChar
  PROVE  First(SlotsOf(CharacterID[s])) = s /\ SlotsOf(CharacterID[s]) # {}
<1>1. SlotsOf(CharacterID[s]) = {s}
  BY DEF SlotsOf, Base, OneSlotPerCharacter
<1>2. s \in Nat
  BY DEF Slot
<1> QED
  BY <1>1, <1>2 DEF First

\* join_game: the mark of the login becomes the player's.
LEMMA JoinServed ==
  ASSUME Base, Served, Running' => Running, JoinAttach PROVE Served'
<1>1. gconn \in Comm /\ gconn \in Worker /\ pc[gconn] = "waiting" /\ login[gconn] \in Char
  BY Consts DEF JoinAttach, Base, Control, GameControl
<1>2. PICK s \in Slot : /\ CharacterID[s] = login[gconn] /\ Locked[s] = NoThread /\ Lock(s, Game)
                        /\ Player' = [Player EXCEPT ![login[gconn]] = s]
  BY DEF JoinAttach, SlotsOf
<1>3. PICK t \in Worker : t = gconn
  BY <1>1
<1>4. /\ pc' = [pc EXCEPT ![t] = "idle"] /\ who' = [who EXCEPT ![t] = NoChar]
      /\ login' = [login EXCEPT ![t] = NoChar]
      /\ UNCHANGED <<ptr, CharacterID, Sticky, replies>> /\ gpc' = "idle"
  BY <1>3 DEF JoinAttach, LoginOver, Goto
<1>5. /\ pc \in [Worker -> {"idle", "assign", "loading", "unload", "assigned",
                            "accepted", "submit", "reply", "waiting"}]
      /\ who \in [Worker -> Char \cup {NoChar}] /\ login \in [Comm -> Char \cup {NoChar}]
      /\ Locked \in [Slot -> Thread \cup {NoThread}] /\ Player \in [Char -> Slot \cup {NoSlot}]
      /\ Sticky \in [Slot -> Int]
  BY DEF Base, TypeOK, SlotsOK, WorkersOK, GameOK
<1>6. OnlyThread(t)
  BY <1>1, <1>2, <1>3, <1>4, <1>5, Consts DEF OnlyThread, Lock
<1>7. ~Serves(t)' /\ pc'[t] # "waiting" /\ \A r : ~LoginOn(t, r)'
  BY <1>4, <1>5 DEF Serves, LoginOn
<1>8. ASSUME Running, NEW r \in Slot, CharacterID[r] # NoChar PROVE Count(Marks(r)', Sticky'[r])
  <2>1. Count(Marks(r), Sticky[r]) /\ Sticky[r] \in Int /\ Sticky'[r] = Sticky[r]
    BY <1>4, <1>5, <1>8 DEF Served
  <2>2. \A u \in Worker \ {t} : LoginOn(u, r)' => <<"login", u>> \in Marks(r) /\ <<"login", u>> # <<"login", t>>
    BY <1>6, OtherThreads, HasMark
  <2>3. \A j : ReplyOn(j, r)' => <<"reply", j>> \in Marks(r) /\ <<"reply", j>> # <<"login", t>>
    BY <1>4, HasMark DEF ReplyOn
  <2>4. ~DropOn(r)'
    BY <1>4 DEF DropOn
  <2>5. CASE r = s
    <3> DEFINE Y == (Marks(r) \ {<<"login", t>>}) \cup {<<"player", login[t]>>}
    <3>1. \A c \in Char : Player'[c] = r => <<"player", c>> \in Y
      <4>1. \A c \in Char \ {login[t]} :
               Player'[c] = r => <<"player", c>> \in Marks(r) /\ <<"player", c>> # <<"login", t>>
        BY <1>1, <1>2, <1>3, <1>5, HasMark
      <4> QED
        BY <4>1
    <3>2. /\ \A u \in Worker : LoginOn(u, r)' => <<"login", u>> \in Y
          /\ \A j : ReplyOn(j, r)' => <<"reply", j>> \in Y
      BY <1>7, <2>2, <2>3
    <3> HIDE DEF Y
    <3>3. Marks(r)' \subseteq Y
      BY <2>4, <3>1, <3>2, MarksWithin
    <3>4. <<"login", t>> \in Marks(r)
      <4>1. LoginOn(t, r)
        BY <1>1, <1>2, <1>3, <2>5 DEF LoginOn
      <4> QED
        BY <4>1, HasMark
    <3>5. Marks(r)' \subseteq (Marks(r) \ {<<"login", t>>}) \cup {<<"player", login[t]>>}
      BY <3>3 DEF Y
    <3>6. Sticky'[r] \in Int /\ Sticky'[r] >= Sticky[r]
      BY <2>1
    <3> QED
      BY <2>1, <3>4, <3>5, <3>6, CountSame
  <2>6. CASE r # s
    <3>1. \A c \in Char : Player'[c] = r => <<"player", c>> \in Marks(r)
      BY <1>1, <1>2, <1>5, <2>6, HasMark
    <3>2. \A u \in Worker : LoginOn(u, r)' => <<"login", u>> \in Marks(r)
      BY <1>7, <2>2
    <3>3. Marks(r)' \subseteq Marks(r)
      BY <2>3, <2>4, <3>1, <3>2, MarksWithin
    <3> QED
      BY <2>1, <3>3, CountFewer
  <2> QED
    BY <2>5, <2>6
<1>9. Running => \A j \in DOMAIN replies' : \E r \in Slot : CharacterID[r] = replies'[j]
  BY <1>4 DEF Served
<1> QED
  BY <1>6, <1>7, <1>8, <1>9, ServedBy

\* ~TPlayer: the mark of the player becomes the one that is about to go.
LEMMA LogoutServed ==
  ASSUME Base, Served, Running' => Running, NEW c \in Char, Logout(c) PROVE Served'
<1>1. PICK s \in Slot : s = Player[c]
  BY DEF Logout, Base, TypeOK, GameOK
<1>2. /\ Player' = [Player EXCEPT ![c] = NoSlot] /\ gpc' = "decrease" /\ gslot' = s
      /\ UNCHANGED <<workers, CharacterID, Locked, Sticky, replies>>
  BY <1>1 DEF Logout, DropSlot, mail
<1>3. Player \in [Char -> Slot \cup {NoSlot}] /\ Sticky \in [Slot -> Int]
  BY DEF Base, TypeOK, SlotsOK, GameOK
<1>4. /\ OnlyThread(Reader)
      /\ Running => (Serves(Reader)' => CharacterID[ptr'[Reader]] = who'[Reader])
      /\ \A u \in Worker, r \in Slot : LoginOn(u, r)' => LoginOn(u, r)
  BY <1>2, NoWorker
<1>5. ASSUME Running, NEW r \in Slot, CharacterID[r] # NoChar PROVE Count(Marks(r)', Sticky'[r])
  <2>1. Count(Marks(r), Sticky[r]) /\ Sticky[r] \in Int /\ Sticky'[r] = Sticky[r]
    BY <1>2, <1>3, <1>5 DEF Served
  <2>2. \A u \in Worker : LoginOn(u, r)' => <<"login", u>> \in Marks(r)
    BY <1>4, HasMark
  <2>3. \A j : ReplyOn(j, r)' => <<"reply", j>> \in Marks(r)
    BY <1>2, HasMark DEF ReplyOn
  <2>4. \A d \in Char : Player'[d] = r => <<"player", d>> \in Marks(r) /\ d # c
    BY <1>2, <1>3, HasMark, Consts
  <2>5. CASE r = s
    <3> DEFINE Y == (Marks(r) \ {<<"player", c>>}) \cup {<<"drop", 0>>}
    <3>1. /\ \A u \in Worker : LoginOn(u, r)' => <<"login", u>> \in Y
          /\ \A j : ReplyOn(j, r)' => <<"reply", j>> \in Y
      BY <2>2, <2>3
    <3>2. /\ \A d \in Char : Player'[d] = r => <<"player", d>> \in Y
          /\ <<"drop", 0>> \in Y
      BY <2>4
    <3> HIDE DEF Y
    <3>3. Marks(r)' \subseteq Y
      BY <3>1, <3>2, MarksWithin
    <3>4. <<"player", c>> \in Marks(r)
      BY <1>1, <2>5, HasMark
    <3>5. Marks(r)' \subseteq (Marks(r) \ {<<"player", c>>}) \cup {<<"drop", 0>>}
      BY <3>3 DEF Y
    <3>6. Sticky'[r] \in Int /\ Sticky'[r] >= Sticky[r]
      BY <2>1
    <3> QED
      BY <2>1, <3>4, <3>5, <3>6, CountSame
  <2>6. CASE r # s
    <3>1. ~DropOn(r)'
      BY <1>2, <2>6 DEF DropOn
    <3>2. Marks(r)' \subseteq Marks(r)
      BY <2>2, <2>3, <2>4, <3>1, MarksWithin
    <3> QED
      BY <2>1, <3>2, CountFewer
  <2> QED
    BY <2>5, <2>6
<1>6. Running => \A j \in DOMAIN replies' : \E r \in Slot : CharacterID[r] = replies'[j]
  BY <1>2 DEF Served
<1>7. Reader \in Worker /\ ~(Reader \in Comm)
  BY Consts, PoolAssumption
<1> QED
  BY <1>4, <1>5, <1>6, <1>7, ServedBy

\* decrease_player_pool_slot_sticky: the mark goes, and with it the count.
LEMMA DecreaseServed ==
  ASSUME Base, Served, Running' => Running, Decrease PROVE Served'
<1>1. PICK s \in Slot : s = gslot
  BY DEF Decrease, Base, Control, GameControl
<1>2. /\ gpc = "decrease" /\ gpc' = "release" /\ Sticky' = [Sticky EXCEPT ![s] = @ - 1]
      /\ UNCHANGED <<workers, CharacterID, Locked, replies, Player>>
  BY <1>1 DEF Decrease, AddSticky, mail, Base, TypeOK, SlotsOK
<1>3. Sticky \in [Slot -> Int]
  BY DEF Base, TypeOK, SlotsOK
<1>4. /\ OnlyThread(Reader)
      /\ Running => (Serves(Reader)' => CharacterID[ptr'[Reader]] = who'[Reader])
      /\ \A u \in Worker, r \in Slot : LoginOn(u, r)' => LoginOn(u, r)
  BY <1>2, NoWorker
<1>5. ASSUME Running, NEW r \in Slot, CharacterID[r] # NoChar PROVE Count(Marks(r)', Sticky'[r])
  <2>1. Count(Marks(r), Sticky[r]) /\ Sticky[r] \in Int /\ Sticky'[r] \in Int
    BY <1>2, <1>3, <1>5 DEF Served
  <2>2. \A u \in Worker : LoginOn(u, r)' => <<"login", u>> \in Marks(r) \ {<<"drop", 0>>}
    BY <1>4, HasMark
  <2>3. \A j : ReplyOn(j, r)' => <<"reply", j>> \in Marks(r) \ {<<"drop", 0>>}
    BY <1>2, HasMark DEF ReplyOn
  <2>4. \A d \in Char : Player'[d] = r => <<"player", d>> \in Marks(r) \ {<<"drop", 0>>}
    BY <1>2, HasMark
  <2>5. ~DropOn(r)'
    BY <1>2 DEF DropOn
  <2>6. Marks(r)' \subseteq Marks(r) \ {<<"drop", 0>>}
    BY <2>2, <2>3, <2>4, <2>5, MarksWithin
  <2>7. CASE r = s
    <3>1. <<"drop", 0>> \in Marks(r)
      BY <1>1, <1>2, <2>7, HasMark DEF DropOn
    <3>2. Sticky'[r] >= Sticky[r] - 1
      BY <1>2, <1>3, <2>7
    <3> QED
      BY <2>1, <2>6, <3>1, <3>2, CountLess
  <2>8. CASE r # s
    <3>1. Sticky'[r] >= Sticky[r]
      BY <1>2, <1>3, <2>1, <2>8
    <3> QED
      BY <2>1, <2>6, <3>1, CountFewer
  <2> QED
    BY <2>7, <2>8
<1>6. Running => \A j \in DOMAIN replies' : \E r \in Slot : CharacterID[r] = replies'[j]
  BY <1>2 DEF Served
<1>7. Reader \in Worker /\ ~(Reader \in Comm)
  BY Consts, PoolAssumption
<1> QED
  BY <1>4, <1>5, <1>6, <1>7, ServedBy

\* The reader thread answers: its mark becomes the reply's.
LEMMA ReplyServed ==
  ASSUME Base, Served, Running' => Running, CharacterReply PROVE Served'
<1>1. PICK s \in Slot : s = ptr[Reader]
  BY Consts DEF CharacterReply, Base, Control, WorkerControl
<1>2. PICK t \in Worker : t = Reader
  BY Consts
<1>3. /\ pc[t] = "reply" /\ replies' = Append(replies, who[t])
      /\ pc' = [pc EXCEPT ![t] = "idle"] /\ who' = [who EXCEPT ![t] = NoChar] /\ ptr' = [ptr EXCEPT ![t] = NoSlot]
      /\ UNCHANGED <<login, CharacterID, Locked, Sticky, Player, gpc, gslot>>
  BY <1>2 DEF CharacterReply, Finish, Goto, slots, game
<1>4. /\ pc \in [Worker -> {"idle", "assign", "loading", "unload", "assigned",
                            "accepted", "submit", "reply", "waiting"}]
      /\ who \in [Worker -> Char \cup {NoChar}] /\ ptr \in [Worker -> Slot \cup {NoSlot}]
      /\ Sticky \in [Slot -> Int] /\ replies \in Seq(Char) /\ who[t] \in Char
  BY <1>3 DEF Base, TypeOK, SlotsOK, WorkersOK, MailOK, Control, WorkerControl
<1>5. OnlyThread(t)
  BY <1>3, <1>4 DEF OnlyThread
<1>6. ~Serves(t)' /\ pc'[t] # "waiting" /\ \A r : ~LoginOn(t, r)'
  BY <1>3, <1>4 DEF Serves, LoginOn
<1> DEFINE n == Len(replies) + 1
<1>7. /\ DOMAIN replies = 1 .. Len(replies) /\ Len(replies) \in Nat /\ DOMAIN replies' = 1 .. n
      /\ \A j \in DOMAIN replies : replies'[j] = replies[j] /\ replies'[n] = who[t]
      /\ replies'[n] = who[t]
  BY <1>3, <1>4, AppendProperties, LenProperties
<1>8. \A j \in DOMAIN replies' : \/ j \in DOMAIN replies /\ replies'[j] = replies[j]
                                 \/ (j = n /\ replies'[j] = who[t])
  BY <1>7
<1> HIDE DEF n
<1>9. Running => CharacterID[s] = who[t]
  BY <1>1, <1>2, <1>3 DEF Served, Serves
<1>10. ASSUME Running, NEW r \in Slot, CharacterID[r] # NoChar PROVE Count(Marks(r)', Sticky'[r])
  <2>1. Count(Marks(r), Sticky[r]) /\ Sticky[r] \in Int /\ Sticky'[r] \in Int /\ Sticky'[r] >= Sticky[r]
    BY <1>3, <1>4, <1>10 DEF Served
  <2>2. \A u \in Worker : LoginOn(u, r)' => <<"login", u>> \in Marks(r) \ {<<"login", t>>}
    BY <1>5, <1>6, OtherThreads, HasMark
  <2>3. \A j : ReplyOn(j, r)' => \/ <<"reply", j>> \in Marks(r) \ {<<"login", t>>}
                                \/ (j = n /\ CharacterID[r] = who[t])
    BY <1>3, <1>8, HasMark DEF ReplyOn
  <2>4. \A c \in Char : Player'[c] = r => <<"player", c>> \in Marks(r) \ {<<"login", t>>}
    BY <1>3, HasMark
  <2>5. DropOn(r)' => <<"drop", 0>> \in Marks(r) \ {<<"login", t>>}
    BY <1>3, HasMark DEF DropOn
  <2>6. CASE r = s
    <3> DEFINE Y == (Marks(r) \ {<<"login", t>>}) \cup {<<"reply", n>>}
    <3>1. /\ \A u \in Worker : LoginOn(u, r)' => <<"login", u>> \in Y
          /\ \A j : ReplyOn(j, r)' => <<"reply", j>> \in Y
          /\ \A c \in Char : Player'[c] = r => <<"player", c>> \in Y
          /\ DropOn(r)' => <<"drop", 0>> \in Y
      BY <2>2, <2>3, <2>4, <2>5
    <3> HIDE DEF Y
    <3>2. Marks(r)' \subseteq Y
      BY <3>1, MarksWithin
    <3>3. <<"login", t>> \in Marks(r)
      BY <1>1, <1>2, <1>3, <2>6, HasMark DEF LoginOn
    <3>4. Marks(r)' \subseteq (Marks(r) \ {<<"login", t>>}) \cup {<<"reply", n>>}
      BY <3>2 DEF Y
    <3> QED
      BY <2>1, <3>3, <3>4, CountSame
  <2>7. CASE r # s
    <3>1. CharacterID[r] # who[t]
      BY <1>9, <1>10, <2>7, OnlySlot
    <3>2. Marks(r)' \subseteq Marks(r)
      BY <2>2, <2>3, <2>4, <2>5, <3>1, MarksWithin
    <3> QED
      BY <2>1, <3>2, CountFewer
  <2> QED
    BY <2>6, <2>7
<1>11. Running => \A j \in DOMAIN replies' : \E r \in Slot : CharacterID[r] = replies'[j]
  BY <1>8, <1>9 DEF Served
<1> QED
  BY <1>5, <1>6, <1>10, <1>11, ServedBy

\* A set whose replies have moved up by one place.
LEMMA Shifted ==
  ASSUME NEW T, NEW m \in Int, Count(T, m), NEW K,
         \A x \in K : \/ x \in T /\ x[1] # "reply"
                      \/ (\E j \in Nat : x = <<"reply", j>> /\ <<"reply", j + 1>> \in T)
  PROVE  Count(K, m)
<1> DEFINE h == [x \in K |-> IF x[1] = "reply" THEN <<"reply", x[2] + 1>> ELSE x]
<1>1. ASSUME NEW x \in K
      PROVE  /\ h[x] \in T /\ (x[1] = "reply" <=> h[x][1] = "reply")
             /\ x[1] = "reply" => x[2] \in Nat /\ x = <<"reply", x[2]>> /\ h[x] = <<"reply", x[2] + 1>>
             /\ x[1] # "reply" => h[x] = x
  <2>1. CASE x \in T /\ x[1] # "reply"
    BY <2>1
  <2>2. CASE \E j \in Nat : x = <<"reply", j>> /\ <<"reply", j + 1>> \in T
    <3>1. PICK j \in Nat : x = <<"reply", j>> /\ <<"reply", j + 1>> \in T
      BY <2>2
    <3>2. x[1] = "reply" /\ x[2] = j
      BY <3>1
    <3>3. h[x] = <<"reply", j + 1>>
      BY <3>2
    <3> QED
      BY <3>1, <3>2, <3>3
  <2> QED
    BY <2>1, <2>2
<1> HIDE DEF h
<1>2. ASSUME NEW x \in K, NEW y \in K, h[x] = h[y] PROVE x = y
  <2>1. CASE x[1] = "reply"
    <3>1. y[1] = "reply"
      BY <1>1, <1>2, <2>1
    <3>2. <<"reply", x[2] + 1>> = <<"reply", y[2] + 1>>
      BY <1>1, <1>2, <2>1, <3>1
    <3>3. x[2] = y[2]
      <4>1. x[2] \in Nat /\ y[2] \in Nat
        BY <1>1, <2>1, <3>1
      <4>2. x[2] + 1 = y[2] + 1
        BY <3>2
      <4> QED
        BY <4>1, <4>2
    <3> QED
      BY <1>1, <2>1, <3>1, <3>3
  <2>2. CASE x[1] # "reply"
    BY <1>1, <1>2, <2>2
  <2> QED
    BY <2>1, <2>2
<1>3. h \in Injection(K, T)
  <2>1. h \in [K -> T]
    <3>1. h = [x \in K |-> h[x]]
      BY DEF h
    <3> QED
      BY <1>1, <3>1
  <2> QED
    BY <1>2, <2>1 DEF Injection, IsInjective
<1>4. IsFiniteSet(K) /\ Cardinality(K) <= Cardinality(T)
  BY <1>3, FS_Injection DEF Count
<1>5. Cardinality(K) \in Nat /\ Cardinality(T) \in Nat
  BY <1>4, FS_CardinalityType DEF Count
<1> QED
  BY <1>4, <1>5 DEF Count

\* get_reply: the replies move up, and the marks of a slot with them.
LEMMA RepliesMoveUp ==
  ASSUME Base, replies # <<>>, replies' = Tail(replies), UNCHANGED <<CharacterID, Player>>,
         NEW s \in Slot, CharacterID[s] # NoChar, \A u \in Worker : LoginOn(u, s)' => LoginOn(u, s),
         ~DropOn(s), NEW n \in Int, NEW T, T = Marks(s) \ {<<"reply", 1>>}, Count(T, n)
  PROVE  Count(Marks(s)' \ {<<"drop", 0>>}, n)
<1>1. replies \in Seq(Char)
  BY DEF Base, TypeOK, MailOK
<1>2. \A j : j \in DOMAIN replies' => /\ j \in Nat /\ j >= 1 /\ j + 1 \in DOMAIN replies
                                      /\ replies'[j] = replies[j + 1]
  BY <1>1, HeadTailProperties, LenProperties
<1>3. ASSUME NEW x \in Marks(s)' \ {<<"drop", 0>>}
      PROVE  (x \in T /\ x[1] # "reply") \/ (\E j \in Nat : x = <<"reply", j>> /\ <<"reply", j + 1>> \in T)
  <2>1. \/ \E u \in Worker : LoginOn(u, s)' /\ x = <<"login", u>>
        \/ \E j : ReplyOn(j, s)' /\ x = <<"reply", j>>
        \/ \E c \in Char : Player'[c] = s /\ x = <<"player", c>>
    <3>1. \/ \E u \in Worker : LoginOn(u, s)' /\ x = <<"login", u>>
          \/ \E j : ReplyOn(j, s)' /\ x = <<"reply", j>>
          \/ \E c \in Char : Player'[c] = s /\ x = <<"player", c>>
          \/ DropOn(s)' /\ x = <<"drop", 0>>
      BY <1>3 DEF Marks, LoginOn, ReplyOn, DropOn, Worker
    <3> QED
      BY <1>3, <3>1
  <2>2. CASE \E u \in Worker : LoginOn(u, s)' /\ x = <<"login", u>>
    BY <2>2, HasMark
  <2>3. CASE \E c \in Char : Player'[c] = s /\ x = <<"player", c>>
    BY <2>3, HasMark
  <2>4. CASE \E j : ReplyOn(j, s)' /\ x = <<"reply", j>>
    <3>1. PICK j : ReplyOn(j, s)' /\ x = <<"reply", j>>
      BY <2>4
    <3>2. j \in Nat /\ j >= 1 /\ ReplyOn(j + 1, s)
      BY <1>2, <3>1 DEF ReplyOn
    <3>3. <<"reply", j + 1>> \in Marks(s)
      BY <3>2, HasMark
    <3>4. <<"reply", j + 1>> # <<"reply", 1>>
      BY <3>2
    <3> QED
      BY <3>1, <3>2, <3>3, <3>4
  <2> QED
    BY <2>1, <2>2, <2>3, <2>4
<1> HIDE DEF Count
<1> QED
  BY <1>3, Shifted

\* ProcessCharacterReply: the mark of the reply becomes the one that is about to go.
LEMMA ProcessServed ==
  ASSUME Base, Served, Running' => Running, ProcessCharacterReply PROVE Served'
<1>1. PICK s \in Slot : /\ CharacterID[s] = Head(replies) /\ Locked[s] = NoThread /\ Lock(s, Game)
                        /\ DropSlot(s, "idle")
  BY DEF ProcessCharacterReply, SlotsOf
<1>2. /\ gpc = "idle" /\ replies # <<>> /\ replies' = Tail(replies)
      /\ UNCHANGED <<workers, CharacterID, Sticky, Player>>
  BY DEF ProcessCharacterReply
<1>3. Sticky \in [Slot -> Int] /\ Locked \in [Slot -> Thread \cup {NoThread}] /\ replies \in Seq(Char)
  BY DEF Base, TypeOK, SlotsOK, MailOK
<1>4. /\ OnlyThread(Reader)
      /\ Running => (Serves(Reader)' => CharacterID[ptr'[Reader]] = who'[Reader])
      /\ \A u \in Worker, r \in Slot : LoginOn(u, r)' => LoginOn(u, r)
  <2>1. \A u \in Worker, r \in Slot : Locked'[r] = u <=> Locked[r] = u
    BY <1>1, <1>3, Consts DEF Lock
  <2> QED
    BY <1>2, <2>1, NoWorker
<1>5. ASSUME Running, NEW r \in Slot, CharacterID[r] # NoChar PROVE Count(Marks(r)', Sticky'[r])
  <2>1. Count(Marks(r), Sticky[r]) /\ Sticky[r] \in Int /\ Sticky'[r] = Sticky[r]
    BY <1>2, <1>3, <1>5 DEF Served
  <2>2. ~DropOn(r)
    BY <1>2 DEF DropOn
  <2>3. \A u \in Worker : LoginOn(u, r)' => LoginOn(u, r)
    BY <1>4
  <2> DEFINE T == Marks(r) \ {<<"reply", 1>>}
             K == Marks(r)' \ {<<"drop", 0>>}
  <2>4. CASE r = s
    <3> DEFINE n == Sticky[r] - 1
    <3>1. <<"reply", 1>> \in Marks(r)
      <4>1. 1 \in DOMAIN replies /\ replies[1] = CharacterID[r]
        BY <1>1, <1>2, <1>3, <2>4, HeadTailProperties, LenProperties, EmptySeq
      <4> QED
        BY <4>1, HasMark DEF ReplyOn
    <3>2. n \in Int /\ Count(T, n)
      BY <2>1, <3>1, CountLess
    <3> HIDE DEF n
    <3>3. Count(K, n)
      BY <1>2, <1>5, <2>2, <2>3, <3>2, RepliesMoveUp
    <3>4. Marks(r)' \subseteq K \cup {<<"drop", 0>>} /\ Sticky'[r] \in Int /\ Sticky'[r] >= n + 1
      BY <2>1 DEF n
    <3> HIDE DEF K
    <3> QED
      BY <3>2, <3>3, <3>4, CountMore
  <2>5. CASE r # s
    <3>1. Count(T, Sticky[r])
      BY <2>1, CountFewer
    <3>2. Count(K, Sticky[r])
      BY <1>2, <1>5, <2>1, <2>2, <2>3, <3>1, RepliesMoveUp
    <3>3. <<"drop", 0>> \notin Marks(r)'
      <4>1. ~DropOn(r)'
        BY <1>1, <2>5 DEF DropOn, DropSlot
      <4> QED
        BY <4>1 DEF Marks, DropOn
    <3>4. Marks(r)' \subseteq K
      BY <3>3
    <3> HIDE DEF K
    <3> QED
      BY <2>1, <3>2, <3>4, CountFewer
  <2> QED
    BY <2>4, <2>5
<1>6. Running => \A j \in DOMAIN replies' : \E r \in Slot : CharacterID[r] = replies'[j]
  <2>1. \A j \in DOMAIN replies' : j + 1 \in DOMAIN replies /\ replies'[j] = replies[j + 1]
    BY <1>2, <1>3, HeadTailProperties, LenProperties
  <2> QED
    BY <2>1 DEF Served
<1>7. Reader \in Worker /\ ~(Reader \in Comm)
  BY Consts, PoolAssumption
<1> QED
  BY <1>4, <1>5, <1>6, <1>7, ServedBy

\* IgnoreCharacterReply: the mark stays counted, though nobody needs it.
LEMMA IgnoreServed ==
  ASSUME Base, Served, Running' => Running, IgnoreCharacterReply PROVE Served'
<1>1. /\ gpc = "idle" /\ replies # <<>> /\ replies' = Tail(replies)
      /\ UNCHANGED <<workers, CharacterID, Locked, Sticky, Player, gpc, gslot>>
  BY DEF IgnoreCharacterReply, slots, game
<1>2. Sticky \in [Slot -> Int] /\ replies \in Seq(Char)
  BY DEF Base, TypeOK, SlotsOK, MailOK
<1>3. /\ OnlyThread(Reader)
      /\ Running => (Serves(Reader)' => CharacterID[ptr'[Reader]] = who'[Reader])
      /\ \A u \in Worker, r \in Slot : LoginOn(u, r)' => LoginOn(u, r)
  BY <1>1, NoWorker
<1>4. ASSUME Running, NEW r \in Slot, CharacterID[r] # NoChar PROVE Count(Marks(r)', Sticky'[r])
  <2>1. Count(Marks(r), Sticky[r]) /\ Sticky[r] \in Int /\ Sticky'[r] = Sticky[r]
    BY <1>1, <1>2, <1>4 DEF Served
  <2> DEFINE T == Marks(r) \ {<<"reply", 1>>}
             K == Marks(r)' \ {<<"drop", 0>>}
  <2>2. Count(T, Sticky[r])
    BY <2>1, CountFewer
  <2>3. ~DropOn(r) /\ ~DropOn(r)'
    BY <1>1 DEF DropOn
  <2>4. Count(K, Sticky[r])
    BY <1>1, <1>3, <1>4, <2>1, <2>2, <2>3, RepliesMoveUp
  <2>5. Marks(r)' \subseteq K
    BY <2>3 DEF Marks, DropOn
  <2> HIDE DEF K
  <2> QED
    BY <2>1, <2>4, <2>5, CountFewer
<1>5. Running => \A j \in DOMAIN replies' : \E r \in Slot : CharacterID[r] = replies'[j]
  <2>1. \A j \in DOMAIN replies' : j + 1 \in DOMAIN replies /\ replies'[j] = replies[j + 1]
    BY <1>1, <1>2, HeadTailProperties, LenProperties
  <2> QED
    BY <2>1 DEF Served
<1>6. Reader \in Worker /\ ~(Reader \in Comm)
  BY Consts, PoolAssumption
<1> QED
  BY <1>3, <1>4, <1>5, <1>6, ServedBy


\* assign_player_pool_slot takes a slot for another character: nobody relies on
\* the slot, and nobody waits for the character.
LEMMA FreshServed ==
  ASSUME Base, Locks, Served, Running' => Running, NEW t \in Worker, AssignFresh(t) PROVE Served'
<1> SUFFICES ASSUME Running, Running' PROVE Served'
  BY DEF Served
<1>1. PICK s \in Slot :
         /\ CharacterID[s] = NoChar \/ (Locked[s] = NoThread /\ Sticky[s] = 0)
         /\ CharacterID' = [CharacterID EXCEPT ![s] = who[t]] /\ Locked' = [Locked EXCEPT ![s] = t]
         /\ Sticky' = [Sticky EXCEPT ![s] = 0] /\ ptr' = [ptr EXCEPT ![t] = s]
  BY DEF AssignFresh, Candidates, Unused, Lock
<1>2. /\ pc[t] = "assign" /\ pc' = [pc EXCEPT ![t] = "loading"] /\ who[t] \in Char
      /\ UNCHANGED <<who, login, gpc, gslot, Player, replies>>
      /\ \A r \in Slot : CharacterID[r] # who[t]
  BY DEF AssignFresh, Goto, SlotsOf, Base, Control, WorkerControl, game, mail
<1>3. /\ CharacterID \in [Slot -> Char \cup {NoChar}] /\ Locked \in [Slot -> Thread \cup {NoThread}]
      /\ Sticky \in [Slot -> Int]
      /\ pc \in [Worker -> {"idle", "assign", "loading", "unload", "assigned",
                            "accepted", "submit", "reply", "waiting"}]
      /\ ptr \in [Worker -> Slot \cup {NoSlot}] /\ replies \in Seq(Char)
  BY DEF Base, TypeOK, SlotsOK, WorkersOK, MailOK
<1>4. /\ CharacterID'[s] = who[t] /\ Sticky'[s] = 0 /\ Locked'[s] = t
      /\ \A r \in Slot \ {s} : CharacterID'[r] = CharacterID[r] /\ Sticky'[r] = Sticky[r] /\ Locked'[r] = Locked[r]
      /\ pc'[t] = "loading" /\ ptr'[t] = s
      /\ \A u \in Worker \ {t} : pc'[u] = pc[u] /\ ptr'[u] = ptr[u]
  BY <1>1, <1>2, <1>3
<1>5. CharacterID[s] # NoChar => Marks(s) = {}
  <2> SUFFICES ASSUME CharacterID[s] # NoChar PROVE Marks(s) = {}
    OBVIOUS
  <2>1. IsFiniteSet(Marks(s)) /\ 0 >= Cardinality(Marks(s))
    BY <1>1 DEF Served, Count
  <2>2. Cardinality(Marks(s)) = 0
    BY <2>1, FS_CardinalityType
  <2> QED
    BY <2>1, <2>2, FS_EmptySet
<1>6. ASSUME NEW u \in Worker \ {t}, pc[u] \in {"loading", "assigned", "accepted", "submit", "reply"}, Serves(u)
      PROVE  ptr[u] # s
  <2> SUFFICES ASSUME ptr[u] = s PROVE FALSE
    OBVIOUS
  <2>1. CharacterID[s] = who[u] /\ who[u] \in Char
    BY <1>6 DEF Served, Base, Control, WorkerControl
  <2>2. Locked[s] = NoThread /\ Marks(s) = {}
    BY <1>1, <1>5, <2>1, Consts
  <2>3. u # NoThread /\ (pc[u] = "loading" => Locked[s] = u)
    BY Consts DEF Locks, WorkerLocks
  <2>4. LoginOn(u, s)
    BY <1>6, <2>2, <2>3 DEF Serves, LoginOn
  <2> QED
    BY <2>2, <2>4, HasMark
<1>7. ASSUME NEW u \in Worker \ {t}, Serves(u)'
      PROVE  Serves(u) /\ pc[u] \in {"loading", "assigned", "accepted", "submit", "reply"}
  <2>1. pc[u] = "assigned" => ptr[u] \in Slot
    BY DEF Base, Control, WorkerControl
  <2> QED
    BY <1>4, <1>7, <2>1 DEF Serves
<1>8. \A u \in Worker : Serves(u)' => CharacterID'[ptr'[u]] = who'[u]
  <2> SUFFICES ASSUME NEW u \in Worker, Serves(u)' PROVE CharacterID'[ptr'[u]] = who'[u]
    OBVIOUS
  <2>1. CASE u = t
    BY <1>2, <1>4, <2>1
  <2>2. CASE u # t
    <3>1. Serves(u) /\ ptr[u] # s /\ ptr[u] \in Slot
      BY <1>6, <1>7, <2>2 DEF Base, Control, WorkerControl
    <3> QED
      BY <1>2, <1>4, <2>2, <3>1 DEF Served
  <2> QED
    BY <2>1, <2>2
<1>9. ASSUME NEW u \in Comm, pc'[u] = "waiting"
      PROVE  pc[u] = "waiting" /\ login[u] # NoChar /\ \E r \in Slot \ {s} : CharacterID[r] = login[u]
  <2>1. u \in Worker /\ u # t /\ pc[u] = "waiting"
    BY <1>4, <1>9, Consts
  <2>2. PICK r \in Slot : CharacterID[r] = login[u] /\ login[u] # NoChar
    BY <2>1 DEF Served
  <2>3. LoginOn(u, r)
    BY <2>1, <2>2 DEF LoginOn
  <2>4. r # s
    BY <1>5, <2>1, <2>2, <2>3, HasMark
  <2> QED
    BY <2>1, <2>2, <2>4
<1>10. ASSUME NEW j \in DOMAIN replies PROVE \E r \in Slot \ {s} : CharacterID[r] = replies[j]
  <2>1. PICK r \in Slot : CharacterID[r] = replies[j]
    BY DEF Served
  <2>2. replies[j] \in Char
    BY <1>3, ElementOfSeq
  <2>3. r # s
    BY <1>5, <2>1, <2>2, HasMark, Consts DEF ReplyOn
  <2> QED
    BY <2>1, <2>3
<1>11. ASSUME NEW r \in Slot, CharacterID'[r] # NoChar PROVE Count(Marks(r)', Sticky'[r])
  <2>1. CASE r # s
    <3>1. /\ Count(Marks(r), Sticky[r]) /\ Sticky[r] \in Int
          /\ Sticky'[r] = Sticky[r] /\ CharacterID'[r] = CharacterID[r]
      BY <1>3, <1>4, <1>11, <2>1 DEF Served
    <3>2. \A u \in Worker : LoginOn(u, r)' => LoginOn(u, r)
      <4> SUFFICES ASSUME NEW u \in Worker, LoginOn(u, r)' PROVE LoginOn(u, r)
        OBVIOUS
      <4>1. u # t
        BY <1>4 DEF LoginOn
      <4>2. pc'[u] = pc[u] /\ ptr'[u] = ptr[u] /\ Locked'[r] = Locked[r] /\ login' = login
        BY <1>2, <1>4, <2>1, <4>1
      <4> QED
        BY <3>1, <4>2 DEF LoginOn
    <3>3. \A u \in Worker : LoginOn(u, r)' => <<"login", u>> \in Marks(r)
      BY <3>2, HasMark
    <3>4. \A j : ReplyOn(j, r)' => <<"reply", j>> \in Marks(r)
      BY <1>2, <3>1, HasMark DEF ReplyOn
    <3>5. \A c \in Char : Player'[c] = r => <<"player", c>> \in Marks(r)
      BY <1>2, HasMark
    <3>6. DropOn(r)' => <<"drop", 0>> \in Marks(r)
      BY <1>2, HasMark DEF DropOn
    <3>7. Marks(r)' \subseteq Marks(r)
      BY <3>3, <3>4, <3>5, <3>6, MarksWithin
    <3> QED
      BY <3>1, <3>7, CountFewer
  <2>2. CASE r = s
    <3>1. \A u \in Worker : ~LoginOn(u, s)'
      <4> SUFFICES ASSUME NEW u \in Worker, LoginOn(u, s)' PROVE FALSE
        OBVIOUS
      <4>1. u # t
        BY <1>4 DEF LoginOn
      <4>2. CASE u \in Comm /\ pc'[u] = "waiting"
        <5>1. login[u] = who[t]
          BY <1>2, <1>4, <4>1, <4>2 DEF LoginOn
        <5> QED
          BY <1>2, <1>9, <4>2, <5>1
      <4>3. CASE ~(u \in Comm /\ pc'[u] = "waiting")
        <5>1. /\ ptr[u] = s /\ pc[u] \in {"accepted", "submit", "reply", "assigned"}
              /\ (pc[u] = "assigned" => u \in Comm)
          BY <1>4, <4>1, <4>3 DEF LoginOn
        <5>2. Serves(u)
          BY <5>1 DEF Serves
        <5> QED
          BY <1>6, <4>1, <5>1, <5>2
      <4> QED
        BY <4>2, <4>3
    <3>2. \A j : ~ReplyOn(j, s)'
      BY <1>2, <1>4, <1>10 DEF ReplyOn
    <3>3. ~DropOn(s)'
      <4>1. DropOn(s) => Locked[s] = Game /\ CharacterID[s] # NoChar
        BY DEF DropOn, Locks, GameLocks
      <4> QED
        BY <1>1, <1>2, <4>1, Consts DEF DropOn
    <3>4. \A c \in Char : Player'[c] # s
      <4>1. \A c \in Char : Player[c] = s => Locked[s] = Game /\ CharacterID[s] = c
        BY Consts DEF Locks, GameLocks
      <4> QED
        BY <1>1, <1>2, <4>1, Consts
    <3> DEFINE Y == {}
    <3> HIDE DEF Y
    <3>5. Marks(s)' \subseteq Y
      BY <3>1, <3>2, <3>3, <3>4, MarksWithin
    <3>6. Marks(s)' = {}
      BY <3>5 DEF Y
    <3> QED
      BY <1>4, <2>2, <3>6, FS_EmptySet DEF Count
  <2> QED
    BY <2>1, <2>2
<1>12. \A u \in Comm : pc'[u] = "waiting" => \E r \in Slot : CharacterID'[r] = login'[u] /\ login'[u] # NoChar
  BY <1>2, <1>4, <1>9
<1>13. \A j \in DOMAIN replies' : \E r \in Slot : CharacterID'[r] = replies'[j]
  BY <1>2, <1>4, <1>10
<1> QED
  BY <1>8, <1>11, <1>12, <1>13 DEF Served


\* A step of the game or the writer thread that leaves the marks alone.
LEMMA NoWorkerStep ==
  ASSUME Base, Served, Running' => Running, UNCHANGED <<workers, CharacterID, Sticky, replies, Player>>,
         \A u \in Worker, s \in Slot : Locked'[s] = u <=> Locked[s] = u,
         \A s \in Slot : DropOn(s)' => DropOn(s)
  PROVE  Served'
<1>1. /\ OnlyThread(Reader)
      /\ Running => (Serves(Reader)' => CharacterID[ptr'[Reader]] = who'[Reader])
      /\ \A u \in Worker, s \in Slot : LoginOn(u, s)' => LoginOn(u, s)
  BY NoWorker
<1>2. Reader \in Worker /\ ~(Reader \in Comm)
  BY Consts, PoolAssumption
<1>3. Sticky \in [Slot -> Int]
  BY DEF Base, TypeOK, SlotsOK
<1>4. CountsItsMark(Reader)
  BY <1>1, <1>2, <1>3 DEF Counts, CountsItsMark
<1> QED
  BY <1>1, <1>2, <1>3, <1>4, ThreadStep

\* The steps of a login, and those of an order before its reply, count the mark
\* of their thread.
LEMMA MarkOfThread ==
  ASSUME Base, Locks, Served, Next
  PROVE  /\ \A t \in Worker : (AssignLock(t) \/ AssignBusy(t) \/ AssignNone(t) \/ LoadPlayerData(t)
                              \/ ReleaseSlot(t)) => CountsItsMark(t)
         /\ \A t \in Comm : (BlockLogin(t) \/ AcceptLogin(t) \/ SubmitLogin(t) \/ JoinFails(t)
                            \/ JoinRefused(t) \/ TakeOver(t) \/ DropLogin(t)) => CountsItsMark(t)
         /\ \A t \in Comm, c \in Char : PerformRegistration(t, c) => CountsItsMark(t)
         /\ (GetOrder \/ OrderSuperseded \/ OrderLoaded \/ OrderRetry) => CountsItsMark(Reader)
<1>0. /\ Running' => Running
      /\ Sticky' \in [Slot -> Int] /\ Sticky \in [Slot -> Int] /\ Locked \in [Slot -> Thread \cup {NoThread}]
      /\ pc \in [Worker -> {"idle", "assign", "loading", "unload", "assigned",
                            "accepted", "submit", "reply", "waiting"}]
      /\ ptr \in [Worker -> Slot \cup {NoSlot}] /\ who \in [Worker -> Char \cup {NoChar}]
      /\ login \in [Comm -> Char \cup {NoChar}]
  BY RunningBack, TypeStep DEF Base, TypeOK, SlotsOK, WorkersOK
<1>1. ASSUME NEW t \in Worker, AssignLock(t) PROVE CountsItsMark(t)
  <2>1. /\ OnlyThread(t) /\ UNCHANGED <<replies, Player>> /\ \A r \in Slot : DropOn(r)' => DropOn(r)
    BY <1>1, <1>0, Consts DEF OnlyThread, DropOn, AssignLock, SlotsOf, Lock, Goto, slots, game, mail
  <2>2. \A r \in Slot : ~LoginOn(t, r)'
    BY <1>1, <1>0, Consts DEF LoginOn, AssignLock, SlotsOf, Lock, Goto
  <2>3. \A r \in Slot : Counts(t, r)
    BY <1>1, <1>0, <2>2 DEF Counts, AssignLock
  <2> QED
    BY <2>1, <2>3 DEF CountsItsMark
<1>2. ASSUME NEW t \in Worker, AssignBusy(t) PROVE CountsItsMark(t)
  <2>1. /\ OnlyThread(t) /\ UNCHANGED <<replies, Player>> /\ \A r \in Slot : DropOn(r)' => DropOn(r)
    BY <1>2, <1>0, Consts DEF OnlyThread, DropOn, AssignBusy, SlotsOf, AddSticky, Goto, slots, game, mail
  <2>3. \A r \in Slot : Counts(t, r)
    <3>1. PICK s \in Slot : Sticky' = [Sticky EXCEPT ![s] = @ + 1] /\ ptr' = [ptr EXCEPT ![t] = s]
      BY <1>2 DEF AssignBusy, SlotsOf, AddSticky
    <3>2. \A r \in Slot \ {s} : ~LoginOn(t, r)'
      BY <1>2, <1>0, <3>1 DEF LoginOn, AssignBusy, Goto
    <3> QED
      BY <1>0, <3>1, <3>2 DEF Counts
  <2> QED
    BY <2>1, <2>3 DEF CountsItsMark
<1>3. ASSUME NEW t \in Worker, AssignNone(t) PROVE CountsItsMark(t)
  <2>1. /\ OnlyThread(t) /\ UNCHANGED <<replies, Player>> /\ \A r \in Slot : DropOn(r)' => DropOn(r)
    BY <1>3, <1>0, Consts DEF OnlyThread, DropOn, AssignNone, Finish, Goto, slots, game, mail
  <2>2. \A r \in Slot : ~LoginOn(t, r)'
    BY <1>3, <1>0, Consts DEF LoginOn, AssignNone, Finish, Goto
  <2>3. \A r \in Slot : Counts(t, r)
    BY <1>3, <1>0, <2>2 DEF Counts, AssignNone, Finish, Goto, slots
  <2> QED
    BY <2>1, <2>3 DEF CountsItsMark
<1>4. ASSUME NEW t \in Worker, LoadPlayerData(t) PROVE CountsItsMark(t)
  <2>1. /\ OnlyThread(t) /\ UNCHANGED <<replies, Player>> /\ \A r \in Slot : DropOn(r)' => DropOn(r)
    BY <1>4, <1>0, Consts DEF OnlyThread, DropOn, LoadPlayerData, Goto, slots, game, mail
  <2>2. \A r \in Slot : ~LoginOn(t, r)'
    <3>1. Locked[ptr[t]] = t
      BY <1>4 DEF LoadPlayerData, Locks, WorkerLocks
    <3> QED
      BY <1>4, <1>0, <3>1 DEF LoginOn, LoadPlayerData, Goto
  <2>3. \A r \in Slot : Counts(t, r)
    BY <1>4, <1>0, <2>2 DEF Counts, LoadPlayerData
  <2> QED
    BY <2>1, <2>3 DEF CountsItsMark
<1>5. ASSUME NEW t \in Worker, ReleaseSlot(t) PROVE CountsItsMark(t)
  <2>1. /\ OnlyThread(t) /\ UNCHANGED <<replies, Player>> /\ \A r \in Slot : DropOn(r)' => DropOn(r)
    BY <1>5, <1>0, Consts DEF OnlyThread, DropOn, ReleaseSlot, Release, Goto, slots, game, mail
  <2>3. \A r \in Slot : Counts(t, r)
    BY <1>5, <1>0 DEF Counts, LoginOn, ReleaseSlot, Goto
  <2> QED
    BY <2>1, <2>3 DEF CountsItsMark
<1>6. ASSUME NEW t \in Comm, BlockLogin(t) PROVE CountsItsMark(t)
  <2>1. /\ OnlyThread(t) /\ UNCHANGED <<replies, Player>> /\ \A r \in Slot : DropOn(r)' => DropOn(r)
    BY <1>6, <1>0, Consts DEF OnlyThread, DropOn, BlockLogin, Finish, Goto, Release, AddSticky, slots, game, mail
  <2>2. \A r \in Slot : ~LoginOn(t, r)'
    BY <1>6, <1>0, Consts DEF LoginOn, BlockLogin, Finish, Goto, Release, AddSticky
  <2>3. \A r \in Slot : Counts(t, r)
    BY <1>6, <1>0, <2>2, Consts DEF Counts, LoginOn, BlockLogin, AddSticky
  <2> QED
    BY <2>1, <2>3 DEF CountsItsMark
<1>7. ASSUME NEW t \in Comm, AcceptLogin(t) PROVE CountsItsMark(t)
  <2>1. /\ OnlyThread(t) /\ UNCHANGED <<replies, Player>> /\ \A r \in Slot : DropOn(r)' => DropOn(r)
    BY <1>7, <1>0, Consts DEF OnlyThread, DropOn, AcceptLogin, Goto, slots, game, mail
  <2>3. \A r \in Slot : Counts(t, r)
    <3>1. CASE Locked[ptr[t]] = t
      <4>1. Sticky' = [Sticky EXCEPT ![ptr[t]] = @ + 1] /\ \A r \in Slot : r # ptr[t] => ~LoginOn(t, r)'
        BY <1>7, <1>0, <3>1, Consts DEF LoginOn, AcceptLogin, AddSticky, Goto
      <4> QED
        BY <1>0, <4>1 DEF Counts
    <3>2. CASE Locked[ptr[t]] # t
      BY <1>7, <1>0, <3>2, Consts DEF Counts, LoginOn, AcceptLogin, Goto
    <3> QED
      BY <3>1, <3>2
  <2> QED
    BY <2>1, <2>3 DEF CountsItsMark
<1>8. ASSUME NEW t \in Comm, SubmitLogin(t) PROVE CountsItsMark(t)
  <2>1. /\ OnlyThread(t) /\ UNCHANGED <<replies, Player>> /\ \A r \in Slot : DropOn(r)' => DropOn(r)
    BY <1>8, <1>0, Consts DEF OnlyThread, DropOn, SubmitLogin, Goto, slots, game, mail
  <2>2. /\ Running => CharacterID[ptr[t]] = who[t] /\ ptr[t] \in Slot /\ who[t] \in Char
        /\ pc'[t] = "waiting" /\ login'[t] = CharacterID[ptr[t]]
    <3>1. Serves(t) /\ ptr[t] \in Slot /\ who[t] \in Char
      BY <1>8, Consts DEF SubmitLogin, Serves, Base, Control, WorkerControl
    <3> QED
      BY <1>8, <1>0, <3>1, Consts DEF Served, Serves, SubmitLogin, Goto
  <2>3. Running => \A r \in Slot : CharacterID[r] # NoChar => Counts(t, r)
    <3> SUFFICES ASSUME Running, NEW r \in Slot, CharacterID[r] # NoChar PROVE Counts(t, r)
      OBVIOUS
    <3>1. LoginOn(t, r)' => r = ptr[t]
      BY <1>8, <1>0, <2>2, Consts, OnlySlot DEF LoginOn, SubmitLogin, Goto, slots
    <3>2. LoginOn(t, ptr[t])
      BY <1>8 DEF LoginOn, SubmitLogin
    <3> QED
      BY <1>8, <1>0, <3>1, <3>2 DEF Counts, SubmitLogin, slots
  <2> QED
    BY <2>1, <2>3 DEF CountsItsMark
<1>9. ASSUME NEW t \in Comm, JoinFails(t) PROVE CountsItsMark(t)
  <2>1. /\ OnlyThread(t) /\ UNCHANGED <<replies, Player>> /\ \A r \in Slot : DropOn(r)' => DropOn(r)
    BY <1>9, <1>0, Consts DEF OnlyThread, DropOn, JoinFails, LoginOver, Goto, slots, game, mail
  <2>2. \A r \in Slot : ~LoginOn(t, r)'
    BY <1>9, <1>0, Consts DEF LoginOn, JoinFails, LoginOver, Goto
  <2>3. \A r \in Slot : Counts(t, r)
    BY <1>9, <1>0, <2>2 DEF Counts, JoinFails, LoginOver, Goto, slots
  <2> QED
    BY <2>1, <2>3 DEF CountsItsMark
<1>10. ASSUME NEW t \in Comm, JoinRefused(t) PROVE CountsItsMark(t)
  <2>1. /\ OnlyThread(t) /\ UNCHANGED <<replies, Player>> /\ \A r \in Slot : DropOn(r)' => DropOn(r)
    BY <1>10, <1>0, Consts DEF OnlyThread, DropOn, JoinRefused, LoginOver, Goto, slots, game, mail
  <2>2. \A r \in Slot : ~LoginOn(t, r)'
    BY <1>10, <1>0, Consts DEF LoginOn, JoinRefused, LoginOver, Goto
  <2>3. Running => \A r \in Slot : Counts(t, r)
    <3> SUFFICES ASSUME Running, NEW r \in Slot PROVE Counts(t, r)
      OBVIOUS
    <3>1. PICK s \in Slot : CharacterID[s] = login[t] /\ login[t] # NoChar
      BY <1>10 DEF JoinRefused, Served
    <3>2. Sticky' = [Sticky EXCEPT ![s] = @ + (-1)]
      BY <1>10, <3>1, FirstSlot DEF JoinRefused, AddSticky
    <3>3. LoginOn(t, s)
      BY <1>10, <3>1 DEF JoinRefused, LoginOn
    <3> QED
      BY <1>0, <2>2, <3>2, <3>3 DEF Counts
  <2> QED
    BY <2>1, <2>3 DEF CountsItsMark
<1>11. ASSUME NEW t \in Comm, TakeOver(t) PROVE CountsItsMark(t)
  <2>1. /\ OnlyThread(t) /\ UNCHANGED <<replies, Player>> /\ \A r \in Slot : DropOn(r)' => DropOn(r)
    BY <1>11, <1>0, Consts DEF OnlyThread, DropOn, TakeOver, LoginOver, Goto, slots, game, mail
  <2>2. \A r \in Slot : ~LoginOn(t, r)'
    BY <1>11, <1>0, Consts DEF LoginOn, TakeOver, LoginOver, Goto
  <2>3. Running => \A r \in Slot : Counts(t, r)
    <3> SUFFICES ASSUME Running, NEW r \in Slot PROVE Counts(t, r)
      OBVIOUS
    <3>1. PICK s \in Slot : CharacterID[s] = login[t] /\ login[t] # NoChar
      BY <1>11 DEF TakeOver, Served
    <3>2. Sticky' = Sticky \/ Sticky' = [Sticky EXCEPT ![s] = @ + (-1)]
      BY <1>11, <3>1, FirstSlot DEF TakeOver, AddSticky
    <3>3. LoginOn(t, s)
      BY <1>11, <3>1 DEF TakeOver, LoginOn
    <3> QED
      BY <1>0, <2>2, <3>2, <3>3 DEF Counts
  <2> QED
    BY <2>1, <2>3 DEF CountsItsMark
<1>12. ASSUME NEW t \in Comm, DropLogin(t) PROVE CountsItsMark(t)
  <2>1. /\ OnlyThread(t) /\ UNCHANGED <<replies, Player>> /\ \A r \in Slot : DropOn(r)' => DropOn(r)
    BY <1>12, <1>0, Consts DEF OnlyThread, DropOn, DropLogin, LoginOver, Goto, slots, game, mail
  <2>2. \A r \in Slot : ~LoginOn(t, r)'
    BY <1>12, <1>0, Consts DEF LoginOn, DropLogin, LoginOver, Goto
  <2>3. \A r \in Slot : Counts(t, r)
    BY <1>12, <1>0, <2>2 DEF Counts, DropLogin, LoginOver, Goto, slots
  <2> QED
    BY <2>1, <2>3 DEF CountsItsMark
<1>13. ASSUME NEW t \in Comm, NEW c \in Char, PerformRegistration(t, c) PROVE CountsItsMark(t)
  <2>1. /\ OnlyThread(t) /\ UNCHANGED <<replies, Player>> /\ \A r \in Slot : DropOn(r)' => DropOn(r)
    BY <1>13, <1>0, Consts DEF OnlyThread, DropOn, PerformRegistration, Goto, slots, game, mail
  <2>2. \A r \in Slot : ~LoginOn(t, r)'
    BY <1>13, <1>0, Consts DEF LoginOn, PerformRegistration, Goto
  <2>3. \A r \in Slot : Counts(t, r)
    BY <1>13, <1>0, <2>2 DEF Counts, PerformRegistration, Goto, slots
  <2> QED
    BY <2>1, <2>3 DEF CountsItsMark
<1>14. ASSUME GetOrder PROVE CountsItsMark(Reader)
  <2>1. /\ OnlyThread(Reader) /\ UNCHANGED <<replies, Player>> /\ \A r \in Slot : DropOn(r)' => DropOn(r)
    BY <1>14, <1>0, Consts DEF OnlyThread, DropOn, GetOrder, Goto, slots, game, mail
  <2>2. \A r \in Slot : ~LoginOn(Reader, r)'
    BY <1>14, <1>0, Consts DEF LoginOn, GetOrder, Goto
  <2>3. \A r \in Slot : Counts(Reader, r)
    BY <1>14, <1>0, <2>2 DEF Counts, GetOrder, Goto, slots
  <2> QED
    BY <2>1, <2>3 DEF CountsItsMark
<1>15. ASSUME OrderSuperseded PROVE CountsItsMark(Reader)
  <2>1. /\ OnlyThread(Reader) /\ UNCHANGED <<replies, Player>> /\ \A r \in Slot : DropOn(r)' => DropOn(r)
    BY <1>15, <1>0, Consts DEF OnlyThread, DropOn, OrderSuperseded, Finish, Goto, slots, game, mail
  <2>2. \A r \in Slot : ~LoginOn(Reader, r)'
    BY <1>15, <1>0, Consts DEF LoginOn, OrderSuperseded, Finish, Goto
  <2>3. \A r \in Slot : Counts(Reader, r)
    BY <1>15, <1>0, <2>2 DEF Counts, OrderSuperseded, Finish, Goto, slots
  <2> QED
    BY <2>1, <2>3 DEF CountsItsMark
<1>16. ASSUME OrderLoaded PROVE CountsItsMark(Reader)
  <2>1. /\ OnlyThread(Reader) /\ UNCHANGED <<replies, Player>> /\ \A r \in Slot : DropOn(r)' => DropOn(r)
    BY <1>16, <1>0, Consts DEF OnlyThread, DropOn, OrderLoaded, Goto, slots, game, mail
  <2>3. \A r \in Slot : Counts(Reader, r)
    <3>1. /\ Sticky' = [Sticky EXCEPT ![ptr[Reader]] = @ + 1]
          /\ \A r \in Slot : r # ptr[Reader] => ~LoginOn(Reader, r)'
      BY <1>16, <1>0, Consts DEF LoginOn, OrderLoaded, AddSticky, Goto
    <3> QED
      BY <1>0, <3>1 DEF Counts
  <2> QED
    BY <2>1, <2>3 DEF CountsItsMark
<1>17. ASSUME OrderRetry PROVE CountsItsMark(Reader)
  <2>1. /\ OnlyThread(Reader) /\ UNCHANGED <<replies, Player>> /\ \A r \in Slot : DropOn(r)' => DropOn(r)
    BY <1>17, <1>0, Consts DEF OnlyThread, DropOn, OrderRetry, Goto, slots, game, mail
  <2>2. \A r \in Slot : ~LoginOn(Reader, r)'
    BY <1>17, <1>0, Consts DEF LoginOn, OrderRetry, Goto
  <2>3. \A r \in Slot : Counts(Reader, r)
    BY <1>17, <1>0, <2>2 DEF Counts, OrderRetry, Goto, slots
  <2> QED
    BY <2>1, <2>3 DEF CountsItsMark
<1> QED
  BY <1>1, <1>2, <1>3, <1>4, <1>5, <1>6, <1>7, <1>8, <1>9, <1>10, <1>11, <1>12, <1>13, <1>14, <1>15, <1>16, <1>17

\* Each step of the system keeps everybody served.
LEMMA ServedStep ==
  ASSUME Unreadable = {}, Base, Locks, Served, Next PROVE Served'
<1>0. /\ Running' => Running
      /\ Sticky' \in [Slot -> Int] /\ Sticky \in [Slot -> Int] /\ Locked \in [Slot -> Thread \cup {NoThread}]
      /\ pc \in [Worker -> {"idle", "assign", "loading", "unload", "assigned",
                            "accepted", "submit", "reply", "waiting"}]
      /\ ptr \in [Worker -> Slot \cup {NoSlot}] /\ who \in [Worker -> Char \cup {NoChar}]
      /\ login \in [Comm -> Char \cup {NoChar}]
  BY RunningBack, TypeStep DEF Base, TypeOK, SlotsOK, WorkersOK
<1>1. ASSUME NEW t \in Worker, AssignLock(t) PROVE Served'
  <2>1. (Serves(t)' => CharacterID[ptr'[t]] = who'[t]) /\ pc'[t] # "waiting"
    BY <1>1, <1>0, Consts DEF Serves, AssignLock, SlotsOf, Lock, Goto
  <2> QED
    BY <1>1, <1>0, <2>1, Consts, MarkOfThread, ThreadStep
<1>2. ASSUME NEW t \in Worker, AssignBusy(t) PROVE Served'
  <2>1. (Serves(t)' => CharacterID[ptr'[t]] = who'[t]) /\ pc'[t] # "waiting"
    BY <1>2, <1>0, Consts DEF AssignBusy, SlotsOf, Goto
  <2> QED
    BY <1>2, <1>0, <2>1, Consts, MarkOfThread, ThreadStep
<1>3. ASSUME NEW t \in Worker, AssignFresh(t) PROVE Served'
  BY <1>3, <1>0, FreshServed
<1>4. ASSUME NEW t \in Worker, AssignNone(t) PROVE Served'
  <2>1. ~Serves(t)' /\ pc'[t] # "waiting"
    BY <1>4, <1>0, Consts DEF Serves, AssignNone, Finish, Goto
  <2> QED
    BY <1>4, <1>0, <2>1, Consts, MarkOfThread, ThreadStep
<1>5. ASSUME NEW t \in Worker, LoadPlayerData(t) PROVE Served'
  <2>1. (Running => (Serves(t)' => CharacterID[ptr'[t]] = who'[t])) /\ pc'[t] # "waiting"
    <3>1. Serves(t)
      BY <1>5 DEF LoadPlayerData, Serves
    <3> QED
      BY <1>5, <1>0, <3>1 DEF Served, LoadPlayerData, Goto
  <2> QED
    BY <1>5, <1>0, <2>1, Consts, MarkOfThread, ThreadStep
<1>6. ASSUME NEW t \in Worker, LoadFails(t) PROVE Served'
  BY <1>6 DEF LoadFails
<1>7. ASSUME NEW t \in Worker, Unload(t) PROVE Served'
  BY <1>7 DEF Unload, Locks, WorkerLocks
<1>8. ASSUME NEW t \in Worker, ReleaseSlot(t) PROVE Served'
  <2>1. (Running => (Serves(t)' => CharacterID[ptr'[t]] = who'[t])) /\ pc'[t] # "waiting"
    <3>1. Serves(t)
      BY <1>8 DEF ReleaseSlot, Serves
    <3> QED
      BY <1>8, <1>0, <3>1 DEF Served, ReleaseSlot, Goto
  <2> QED
    BY <1>8, <1>0, <2>1, Consts, MarkOfThread, ThreadStep
<1>9. ASSUME NEW t \in Comm, BlockLogin(t) PROVE Served'
  <2>1. ~Serves(t)' /\ pc'[t] # "waiting"
    BY <1>9, <1>0, Consts DEF Serves, BlockLogin, Finish, Goto, Release, AddSticky
  <2> QED
    BY <1>9, <1>0, <2>1, Consts, MarkOfThread, ThreadStep
<1>10. ASSUME NEW t \in Comm, AcceptLogin(t) PROVE Served'
  <2>1. (Running => (Serves(t)' => CharacterID[ptr'[t]] = who'[t])) /\ pc'[t] # "waiting"
    <3>1. Serves(t)
      BY <1>10 DEF AcceptLogin, Serves
    <3> QED
      BY <1>10, <1>0, <3>1, Consts DEF Served, AcceptLogin, Goto
  <2> QED
    BY <1>10, <1>0, <2>1, Consts, MarkOfThread, ThreadStep
<1>11. ASSUME NEW t \in Comm, SubmitLogin(t) PROVE Served'
  <2>1. /\ Running => CharacterID[ptr[t]] = who[t] /\ ptr[t] \in Slot /\ who[t] \in Char
        /\ pc'[t] = "waiting" /\ login'[t] = CharacterID[ptr[t]] /\ ~Serves(t)'
    <3>1. Serves(t) /\ ptr[t] \in Slot /\ who[t] \in Char
      BY <1>11, Consts DEF SubmitLogin, Serves, Base, Control, WorkerControl
    <3> QED
      BY <1>11, <1>0, <3>1, Consts DEF Served, Serves, SubmitLogin, Goto
  <2> QED
    BY <1>11, <1>0, <2>1, Consts, MarkOfThread, ThreadStep
<1>12. ASSUME NEW t \in Comm, JoinNew(t) PROVE Served'
  <2>1. /\ UNCHANGED <<workers, CharacterID, Sticky, replies, Player>>
        /\ \A u \in Worker, r \in Slot : Locked'[r] = u <=> Locked[r] = u
        /\ \A r \in Slot : DropOn(r)' => DropOn(r)
    BY <1>12, <1>0, Consts DEF JoinNew, slots, mail, DropOn
  <2> QED
    BY <1>0, <2>1, NoWorkerStep
<1>13. ASSUME NEW t \in Comm, JoinFails(t) PROVE Served'
  <2>1. ~Serves(t)' /\ pc'[t] # "waiting"
    BY <1>13, <1>0, Consts DEF Serves, JoinFails, LoginOver, Goto
  <2> QED
    BY <1>13, <1>0, <2>1, Consts, MarkOfThread, ThreadStep
<1>14. ASSUME NEW t \in Comm, JoinRefused(t) PROVE Served'
  <2>1. ~Serves(t)' /\ pc'[t] # "waiting"
    BY <1>14, <1>0, Consts DEF Serves, JoinRefused, LoginOver, Goto
  <2> QED
    BY <1>14, <1>0, <2>1, Consts, MarkOfThread, ThreadStep
<1>15. ASSUME NEW t \in Comm, TakeOver(t) PROVE Served'
  <2>1. ~Serves(t)' /\ pc'[t] # "waiting"
    BY <1>15, <1>0, Consts DEF Serves, TakeOver, LoginOver, Goto
  <2> QED
    BY <1>15, <1>0, <2>1, Consts, MarkOfThread, ThreadStep
<1>16. ASSUME NEW t \in Comm, DropLogin(t) PROVE Served'
  <2>1. ~Serves(t)' /\ pc'[t] # "waiting"
    BY <1>16, <1>0, Consts DEF Serves, DropLogin, LoginOver, Goto
  <2> QED
    BY <1>16, <1>0, <2>1, Consts, MarkOfThread, ThreadStep
<1>17. ASSUME NEW t \in Comm, NEW c \in Char, PerformRegistration(t, c) PROVE Served'
  <2>1. ~Serves(t)' /\ pc'[t] # "waiting"
    BY <1>17, <1>0, Consts DEF Serves, PerformRegistration, Goto
  <2> QED
    BY <1>17, <1>0, <2>1, Consts, MarkOfThread, ThreadStep
<1>18. ASSUME NEW c \in Char, WriteDepot(c) PROVE Served'
  <2>1. /\ UNCHANGED <<workers, CharacterID, Sticky, replies, Player>>
        /\ \A u \in Worker, r \in Slot : Locked'[r] = u <=> Locked[r] = u
        /\ \A r \in Slot : DropOn(r)' => DropOn(r)
    BY <1>18, <1>0, Consts DEF WriteDepot, game, mail, DropOn
  <2> QED
    BY <1>0, <2>1, NoWorkerStep
<1>19. ASSUME NEW c \in Char, SendMail(c) PROVE Served'
  <2>1. /\ UNCHANGED <<workers, CharacterID, Sticky, replies, Player>>
        /\ \A u \in Worker, r \in Slot : Locked'[r] = u <=> Locked[r] = u
        /\ \A r \in Slot : DropOn(r)' => DropOn(r)
    BY <1>19, <1>0, Consts DEF SendMail, slots, game, DropOn
  <2> QED
    BY <1>0, <2>1, NoWorkerStep
<1>20. ASSUME NEW c \in Char, Logout(c) PROVE Served'
  BY <1>20, <1>0, LogoutServed
<1>21. ASSUME NEW s \in Slot, SaveCheck(s) PROVE Served'
  <2>1. /\ UNCHANGED <<workers, CharacterID, Sticky, replies, Player>>
        /\ \A u \in Worker, r \in Slot : Locked'[r] = u <=> Locked[r] = u
        /\ \A r \in Slot : DropOn(r)' => DropOn(r)
    BY <1>21, <1>0, Consts DEF SaveCheck, slots, game, mail, DropOn
  <2> QED
    BY <1>0, <2>1, NoWorkerStep
<1>22. CASE GetOrder
  <2>1. ~Serves(Reader)' /\ pc'[Reader] # "waiting"
    BY <1>22, <1>0, Consts DEF Serves, GetOrder, Goto
  <2> QED
    BY <1>22, <1>0, <2>1, Consts, MarkOfThread, ThreadStep
<1>23. CASE OrderSuperseded
  <2>1. ~Serves(Reader)' /\ pc'[Reader] # "waiting"
    BY <1>23, <1>0, Consts DEF Serves, OrderSuperseded, Finish, Goto
  <2> QED
    BY <1>23, <1>0, <2>1, Consts, MarkOfThread, ThreadStep
<1>24. CASE OrderLoaded
  <2>1. (Running => (Serves(Reader)' => CharacterID[ptr'[Reader]] = who'[Reader])) /\ pc'[Reader] # "waiting"
    <3>1. Serves(Reader)
      BY <1>24 DEF OrderLoaded, Serves
    <3> QED
      BY <1>24, <1>0, <3>1, Consts DEF Served, OrderLoaded, Goto
  <2> QED
    BY <1>24, <1>0, <2>1, Consts, MarkOfThread, ThreadStep
<1>25. CASE OrderRetry
  <2>1. ~Serves(Reader)' /\ pc'[Reader] # "waiting"
    BY <1>25, <1>0, Consts DEF Serves, OrderRetry, Goto
  <2> QED
    BY <1>25, <1>0, <2>1, Consts, MarkOfThread, ThreadStep
<1>26. CASE CharacterReply
  BY <1>26, <1>0, ReplyServed
<1>27. CASE SaveAttach
  <2>1. /\ UNCHANGED <<workers, CharacterID, Sticky, replies, Player>>
        /\ \A u \in Worker, r \in Slot : Locked'[r] = u <=> Locked[r] = u
        /\ \A r \in Slot : DropOn(r)' => DropOn(r)
    BY <1>27, <1>0, Consts DEF SaveAttach, Lock, game, mail, DropOn
  <2> QED
    BY <1>0, <2>1, NoWorkerStep
<1>28. CASE SaveSlot
  <2>1. /\ UNCHANGED <<workers, CharacterID, Sticky, replies, Player>>
        /\ \A u \in Worker, r \in Slot : Locked'[r] = u <=> Locked[r] = u
        /\ \A r \in Slot : DropOn(r)' => DropOn(r)
    BY <1>28, <1>0, Consts DEF SaveSlot, game, mail, DropOn
  <2> QED
    BY <1>0, <2>1, NoWorkerStep
<1>29. CASE SaveRelease
  <2>1. /\ UNCHANGED <<workers, CharacterID, Sticky, replies, Player>>
        /\ \A u \in Worker, r \in Slot : Locked'[r] = u <=> Locked[r] = u
        /\ \A r \in Slot : DropOn(r)' => DropOn(r)
    BY <1>29, <1>0, Consts DEF SaveRelease, Release, game, mail, DropOn
  <2> QED
    BY <1>0, <2>1, NoWorkerStep
<1>30. CASE JoinAttach
  BY <1>30, <1>0, JoinServed
<1>31. CASE Decrease
  BY <1>31, <1>0, DecreaseServed
<1>32. CASE ReleaseGame
  <2>1. /\ UNCHANGED <<workers, CharacterID, Sticky, replies, Player>>
        /\ \A u \in Worker, r \in Slot : Locked'[r] = u <=> Locked[r] = u
        /\ \A r \in Slot : DropOn(r)' => DropOn(r)
    BY <1>32, <1>0, Consts DEF ReleaseGame, Release, mail, DropOn, GameOK, Base, TypeOK
  <2> QED
    BY <1>0, <2>1, NoWorkerStep
<1>33. CASE ProcessCharacterReply
  BY <1>33, <1>0, ProcessServed
<1>34. CASE IgnoreCharacterReply
  BY <1>34, <1>0, IgnoreServed
<1>35. CASE ExitStart
  BY <1>35 DEF Served, Running, ExitStart
<1>36. CASE ExitNext
  BY <1>36 DEF Served, Running, ExitNext
<1>37. CASE ExitDrain
  BY <1>37 DEF Served, Running, ExitDrain, DropSlot
<1>38. CASE ExitDrained
  BY <1>38 DEF Served, Running, ExitDrained
<1>39. CASE ExitAttach
  BY <1>39 DEF Served, Running, ExitAttach
<1>40. CASE ExitFree
  BY <1>40 DEF Served, Running, ExitFree
<1>41. CASE EndGame
  <2>1. /\ UNCHANGED <<workers, CharacterID, Sticky, replies, Player>>
        /\ \A u \in Worker, r \in Slot : Locked'[r] = u <=> Locked[r] = u
        /\ \A r \in Slot : DropOn(r)' => DropOn(r)
    BY <1>41, <1>0, Consts DEF EndGame, slots, mail, DropOn
  <2> QED
    BY <1>0, <2>1, NoWorkerStep
<1> QED
  BY <1>1, <1>2, <1>3, <1>4, <1>5, <1>6, <1>7, <1>8, <1>9, <1>10, <1>11, <1>12, <1>13, <1>14,
     <1>15, <1>16, <1>17, <1>18, <1>19, <1>20, <1>21, <1>22, <1>23, <1>24, <1>25, <1>26,
     <1>27, <1>28, <1>29, <1>30, <1>31, <1>32, <1>33, <1>34, <1>35, <1>36, <1>37, <1>38,
     <1>39, <1>40, <1>41
  DEF Next, Environment, CommStep, Join, Assign, ReaderStep, WriterStep, GameStep, ExitStep, Worker

\* Nobody needs a slot in the beginning.
LEMMA ServedInit == Init => Served
<1> SUFFICES ASSUME Init PROVE Served
  OBVIOUS
<1>1. /\ \A t \in Worker : pc[t] = "idle"
      /\ \A s \in Slot : CharacterID[s] = NoChar
      /\ replies = <<>>
  BY DEF Init
<1>2. \A t \in Worker : ~Serves(t)
  BY <1>1 DEF Serves
<1> QED
  BY <1>1, <1>2, Consts DEF Served

\* Whom the slots serve only depends on the variables.
LEMMA ServedStutter ==
  ASSUME Base, Served, UNCHANGED vars PROVE Served'
<1>1. /\ UNCHANGED <<workers, CharacterID, Locked, Sticky, replies, Player, gpc, gslot>>
      /\ Running' => Running
      /\ \A s : DropOn(s)' => DropOn(s)
  BY DEF vars, slots, game, mail, Running, DropOn
<1> QED
  BY <1>1, NoWorkerStep

\* While the server runs and every player file can be read, Sticky counts at
\* least the parties that rely on a slot: no thread takes the slot of a login,
\* of a mail delivery or of an online player for another character.
THEOREM MarksAreCounted ==
  ASSUME Unreadable = {} PROVE Spec => []MarksCounted
<1>1. Base /\ Locks /\ [Next]_vars => Locks'
  BY WorkerLocksStep, RunningLocksStep, GameLocksStep, LocksStutter DEF Locks
<1>2. Base /\ Locks /\ Served /\ [Next]_vars => Served'
  BY ServedStep, ServedStutter
<1>3. Served => MarksCounted
  BY DEF Served, MarksCounted, Count
<1> QED
  BY <1>1, <1>2, <1>3, LocksInit, ServedInit, BaseInvariance, PTL DEF Spec

-----------------------------------------------------------------------------
(* Deferred mail is kept.                                                  *)

\* The slot has one mark more than the logins and the order that use it: the
\* mark of a reply, which stays when the reply finds the slot locked.
LoginsOn(s) == {u \in Worker : LoginOn(u, s)}
Spare(s) == Count(LoginsOn(s), Sticky[s] - 1)

\* Why the mail of c will be delivered.
Ordered(c) == \E i \in DOMAIN orders : orders[i] = c
Kept(c) == Ordered(c) \/ who[Reader] = c \/ \E s \in Slot : CharacterID[s] = c /\ Spare(s)
MailKept == Running => \A c \in Char : DelayedMails[c] > 0 => Kept(c)

\* What the game thread has locked is the slot of a player or the one it is
\* about to release, and the mail of its character has been delivered.
MailDelivered ==
    Running => \A s \in Slot : Locked[s] = Game =>
        /\ DelayedMails[CharacterID[s]] = 0
        /\ (gpc \in {"decrease", "release"} /\ gslot = s) \/ \E c \in Char : Player[c] = s

\* The reader has a character while it works on an order, and the slot it looks at
\* is that character's.
ReaderOrder ==
    /\ pc[Reader] = "idle" => who[Reader] = NoChar
    /\ Running /\ pc[Reader] = "assigned" => CharacterID[ptr[Reader]] = who[Reader]

Mails == ReaderOrder /\ MailDelivered /\ MailKept

\* With a slot for every character there is an empty one for a character that is
\* not in the pool.
LEMMA RoomForAll ==
  ASSUME Base, IsFiniteSet(Char), Cardinality(Char) <= PoolSize, NEW c \in Char, SlotsOf(c) = {}
  PROVE  \E s \in Slot : CharacterID[s] = NoChar
<1> SUFFICES ASSUME \A s \in Slot : CharacterID[s] # NoChar PROVE FALSE
  OBVIOUS
<1>1. /\ PoolSize \in Nat /\ CharacterID \in [Slot -> Char \cup {NoChar}]
      /\ \A s \in Slot : CharacterID[s] # c
  BY PoolAssumption DEF Base, TypeOK, SlotsOK, SlotsOf
<1> DEFINE D == Char \ {c}
<1>2. CharacterID \in Injection(Slot, D)
  <2>1. CharacterID \in [Slot -> D]
    BY <1>1
  <2>2. \A r, s \in Slot : CharacterID[r] = CharacterID[s] => r = s
    BY DEF Base, OneSlotPerCharacter
  <2> QED
    BY <2>1, <2>2 DEF Injection, IsInjective
<1>3. IsFiniteSet(D) /\ Cardinality(D) = Cardinality(Char) - 1 /\ Cardinality(Char) \in Nat
  BY FS_RemoveElement, FS_CardinalityType
<1>4. Cardinality(Slot) = PoolSize
  <2>1. Slot = 1 .. PoolSize
    BY DEF Slot
  <2>2. Cardinality(1 .. PoolSize) = IF 1 > PoolSize THEN 0 ELSE PoolSize - 1 + 1
    BY <1>1, FS_Interval
  <2>3. PoolSize >= 1
    BY PoolAssumption
  <2> QED
    BY <1>1, <2>1, <2>2, <2>3
<1>5. Cardinality(Slot) <= Cardinality(D)
  BY <1>2, <1>3, FS_Injection
<1> QED
  BY <1>1, <1>3, <1>4, <1>5

\* So nobody loses a slot: a fresh one has been empty.
LEMMA FreshWasEmpty ==
  ASSUME Base, IsFiniteSet(Char), Cardinality(Char) <= PoolSize, NEW t \in Worker, AssignFresh(t)
  PROVE  \E s \in Slot : /\ CharacterID[s] = NoChar
                         /\ CharacterID' = [CharacterID EXCEPT ![s] = who[t]] /\ Locked' = [Locked EXCEPT ![s] = t]
                         /\ Sticky' = [Sticky EXCEPT ![s] = 0] /\ ptr' = [ptr EXCEPT ![t] = s]
<1>1. who[t] \in Char /\ SlotsOf(who[t]) = {}
  BY DEF AssignFresh, Base, Control, WorkerControl
<1>2. Candidates = {s \in Slot : CharacterID[s] = NoChar}
  BY <1>1, RoomForAll DEF Candidates
<1> QED
  BY <1>2 DEF AssignFresh, Lock

\* While the server runs a slot keeps its character.
LEMMA CharactersStay ==
  ASSUME Unreadable = {}, IsFiniteSet(Char), Cardinality(Char) <= PoolSize, Base, Locks, Next, Running',
         NEW s \in Slot, CharacterID[s] # NoChar
  PROVE  CharacterID'[s] = CharacterID[s]
<1>1. ASSUME NEW t \in Worker, AssignFresh(t) PROVE CharacterID'[s] = CharacterID[s]
  BY <1>1, FreshWasEmpty DEF Base, TypeOK, SlotsOK
<1>2. ASSUME NEW t \in Worker, LoadFails(t) PROVE FALSE
  BY <1>2 DEF LoadFails
<1>3. CASE ExitFree
  BY <1>3 DEF ExitFree, Running
<1> QED
  BY <1>1, <1>2, <1>3, Consts DEF Next, Environment, CommStep, Join, Assign, ReaderStep, WriterStep, GameStep, ExitStep,
     slots, PerformRegistration, DropLogin, WriteDepot, SendMail, Logout, SaveCheck, EndGame, AssignLock, AssignBusy,
     AssignNone, LoadPlayerData, Unload, BlockLogin, AcceptLogin, ReleaseSlot, SubmitLogin, JoinNew, JoinFails,
     JoinRefused, TakeOver, GetOrder, OrderSuperseded, OrderLoaded, OrderRetry, CharacterReply, SaveAttach, SaveSlot,
     SaveRelease, JoinAttach, Decrease, ReleaseGame, ProcessCharacterReply, IgnoreCharacterReply, ExitStart, ExitNext,
     ExitDrain, ExitDrained, ExitAttach

\* The reader forgets an order only when it is done with it, and its slot is not
\* given to another character.
LEMMA ReaderOrderStep ==
  ASSUME Unreadable = {}, IsFiniteSet(Char), Cardinality(Char) <= PoolSize, Base, Locks, Served, ReaderOrder, Next
  PROVE  ReaderOrder'
<1>1. /\ pc \in [Worker -> {"idle", "assign", "loading", "unload", "assigned",
                            "accepted", "submit", "reply", "waiting"}]
      /\ who \in [Worker -> Char \cup {NoChar}] /\ ptr \in [Worker -> Slot \cup {NoSlot}]
      /\ Reader \in Worker /\ Reader \notin Comm /\ NoChar \notin Char
      /\ Running' => Running
  BY Consts, PoolAssumption, RunningBack DEF Base, TypeOK, WorkersOK
<1>2. CASE pc'[Reader] = pc[Reader] /\ who'[Reader] = who[Reader] /\ ptr'[Reader] = ptr[Reader]
  <2>1. pc[Reader] = "assigned" => ptr[Reader] \in Slot /\ who[Reader] \in Char
    BY <1>1 DEF Base, Control, WorkerControl
  <2>2. Running' /\ pc[Reader] = "assigned" => CharacterID'[ptr[Reader]] = who[Reader]
    BY <1>1, <2>1, CharactersStay DEF ReaderOrder
  <2> QED
    BY <1>2, <2>2 DEF ReaderOrder
<1>3. CASE AssignLock(Reader) \/ AssignBusy(Reader)
  <2>1. /\ pc'[Reader] = "assigned" /\ UNCHANGED <<who, CharacterID>>
        /\ \E s \in Slot : CharacterID[s] = who[Reader] /\ ptr'[Reader] = s
    BY <1>1, <1>3 DEF AssignLock, AssignBusy, SlotsOf, Goto
  <2> QED
    BY <2>1 DEF ReaderOrder
<1>4. CASE LoadPlayerData(Reader)
  <2>1. pc[Reader] = "loading" /\ pc'[Reader] = "assigned" /\ UNCHANGED <<who, ptr, CharacterID>>
    BY <1>1, <1>4 DEF LoadPlayerData, Goto
  <2> QED
    BY <1>1, <2>1 DEF ReaderOrder, Served, Serves
<1>5. CASE AssignFresh(Reader) \/ LoadFails(Reader) \/ ReleaseSlot(Reader) \/ GetOrder \/ OrderLoaded \/ OrderRetry
  <2>1. pc'[Reader] \notin {"idle", "assigned"}
    BY <1>1, <1>5 DEF AssignFresh, LoadFails, ReleaseSlot, GetOrder, OrderLoaded, OrderRetry, Goto
  <2> QED
    BY <2>1 DEF ReaderOrder
<1>6. CASE AssignNone(Reader) \/ Unload(Reader) \/ OrderSuperseded \/ CharacterReply
  <2>1. pc'[Reader] = "idle" /\ who'[Reader] = NoChar
    BY <1>1, <1>6 DEF AssignNone, Unload, OrderSuperseded, CharacterReply, Finish, Goto
  <2> QED
    BY <2>1 DEF ReaderOrder
<1>7. ASSUME NEW t \in Comm, Assign(t) \/ ReleaseSlot(t) PROVE ReaderOrder'
  BY <1>1, <1>2, <1>7 DEF Assign, AssignLock, AssignBusy, AssignFresh, AssignNone, LoadPlayerData,
     LoadFails, Unload, ReleaseSlot, Finish, Goto
<1>8. ASSUME NEW t \in Comm, BlockLogin(t) \/ AcceptLogin(t) \/ SubmitLogin(t) \/ Join(t) \/ DropLogin(t)
      PROVE  ReaderOrder'
  BY <1>1, <1>2, <1>8 DEF BlockLogin, AcceptLogin, SubmitLogin, Join, JoinNew, JoinFails, JoinRefused,
     TakeOver, DropLogin, Finish, LoginOver, Goto, workers
<1>9. ASSUME NEW t \in Comm, NEW c \in Char, PerformRegistration(t, c) PROVE ReaderOrder'
  BY <1>1, <1>2, <1>9 DEF PerformRegistration, Goto
<1>10. CASE JoinAttach
  <2>1. gconn \in Comm
    BY <1>10 DEF JoinAttach, Base, Control, GameControl
  <2> QED
    BY <1>1, <1>2, <1>10, <2>1 DEF JoinAttach, LoginOver, Goto
<1>11. CASE UNCHANGED workers
  BY <1>2, <1>11 DEF workers
<1>12. CASE WriterStep \/ ExitStep \/ EndGame
  BY <1>11, <1>12 DEF WriterStep, ExitStep, EndGame, SaveAttach, SaveSlot, SaveRelease, ExitStart, ExitNext, ExitDrain,
     ExitDrained, ExitAttach, ExitFree
<1>13. CASE Decrease \/ ReleaseGame \/ ProcessCharacterReply \/ IgnoreCharacterReply
  BY <1>11, <1>13 DEF Decrease, ReleaseGame, ProcessCharacterReply, IgnoreCharacterReply
<1>14. ASSUME NEW c \in Char, WriteDepot(c) \/ SendMail(c) \/ Logout(c) PROVE ReaderOrder'
  BY <1>11, <1>14 DEF WriteDepot, SendMail, Logout
<1>15. ASSUME NEW s \in Slot, SaveCheck(s) PROVE ReaderOrder'
  BY <1>11, <1>15 DEF SaveCheck
<1> QED
  BY <1>3, <1>4, <1>5, <1>6, <1>7, <1>8, <1>9, <1>10, <1>12, <1>13, <1>14, <1>15
  DEF Next, Environment, CommStep, ReaderStep, GameStep, Assign

-----------------------------------------------------------------------------
\* A step that gives the game thread no lock, delivers no new mail into a locked
\* slot and leaves the players alone.
LEMMA DeliveredFrame ==
  ASSUME MailDelivered, Running' => Running, UNCHANGED <<DelayedMails, Player>>,
         \A s \in Slot : Locked'[s] = Game => Locked[s] = Game /\ CharacterID'[s] = CharacterID[s],
         \A s \in Slot : gpc \in {"decrease", "release"} /\ gslot = s /\ Locked'[s] = Game
                            => gpc' \in {"decrease", "release"} /\ gslot' = s
  PROVE  MailDelivered'
BY DEF MailDelivered

\* send_mails leaves no mail of the slot's character.
LEMMA MailsSent ==
  ASSUME Base, NEW s \in Slot, CharacterID[s] # NoChar, SendMails(s)
  PROVE  /\ DelayedMails'[CharacterID[s]] = 0
         /\ \A c \in Char \ {CharacterID[s]} : DelayedMails'[c] = DelayedMails[c]
         /\ \A c \in Char : DelayedMails'[c] > 0 => DelayedMails[c] > 0
<1>1. DelayedMails \in [Char -> Nat] /\ CharacterID[s] \in Char
  BY DEF Base, TypeOK, SlotsOK, MailOK
<1> QED
  BY <1>1 DEF SendMails

\* Every step keeps delivered what the game thread has locked.
LEMMA DeliveredStep ==
  ASSUME Unreadable = {}, Base, Locks, MailDelivered, Next PROVE MailDelivered'
<1>0. /\ Running' => Running
      /\ Locked \in [Slot -> Thread \cup {NoThread}] /\ CharacterID \in [Slot -> Char \cup {NoChar}]
      /\ Player \in [Char -> Slot \cup {NoSlot}] /\ DelayedMails \in [Char -> Nat]
      /\ Game # NoThread /\ Game # Writer /\ \A t \in Worker : t # Game
  BY RunningBack, Consts DEF Base, TypeOK, SlotsOK, GameOK, MailOK
<1> SUFFICES ASSUME Running, Running' PROVE MailDelivered'
  BY <1>0 DEF MailDelivered
<1>1. ASSUME NEW t \in Worker, AssignLock(t) \/ AssignBusy(t) \/ AssignNone(t) \/ LoadPlayerData(t) \/ ReleaseSlot(t)
      PROVE  MailDelivered'
  <2>1. /\ UNCHANGED <<DelayedMails, Player, CharacterID, gpc, gslot>>
        /\ \A s \in Slot : Locked'[s] = Game => Locked[s] = Game
    BY <1>0, <1>1 DEF AssignLock, AssignBusy, AssignNone, LoadPlayerData, ReleaseSlot, Lock, Release, SlotsOf,
       slots, game, mail
  <2> QED
    BY <1>0, <2>1, DeliveredFrame
<1>2. ASSUME NEW t \in Worker, AssignFresh(t) PROVE MailDelivered'
  <2>1. PICK s \in Slot : /\ CharacterID' = [CharacterID EXCEPT ![s] = who[t]]
                          /\ Locked' = [Locked EXCEPT ![s] = t]
    BY <1>2, CandidateIsSlot DEF AssignFresh, Lock
  <2>2. UNCHANGED <<DelayedMails, Player, gpc, gslot>>
    BY <1>2 DEF AssignFresh, game, mail
  <2>3. \A r \in Slot : Locked'[r] = Game => Locked[r] = Game /\ CharacterID'[r] = CharacterID[r]
    BY <1>0, <2>1
  <2> QED
    BY <1>0, <2>2, <2>3, DeliveredFrame
<1>3. ASSUME NEW t \in Worker, LoadFails(t) \/ Unload(t) PROVE MailDelivered'
  BY <1>3 DEF LoadFails, Unload, Locks, WorkerLocks
<1>4. ASSUME NEW t \in Comm, BlockLogin(t) \/ AcceptLogin(t) \/ SubmitLogin(t) \/ DropLogin(t) \/ Join(t)
      PROVE  MailDelivered'
  <2>1. /\ UNCHANGED <<DelayedMails, Player, CharacterID, gslot>>
        /\ \A s \in Slot : Locked'[s] = Game => Locked[s] = Game
        /\ gpc' = gpc \/ gpc \in {"idle", "attach"}
    BY <1>0, <1>4 DEF BlockLogin, AcceptLogin, SubmitLogin, DropLogin, Join, JoinNew, JoinFails, JoinRefused,
       TakeOver, Release, slots, game, mail
  <2> QED
    BY <1>0, <2>1, DeliveredFrame
<1>5. ASSUME NEW t \in Comm, NEW c \in Char, PerformRegistration(t, c) PROVE MailDelivered'
  BY <1>0, <1>5, DeliveredFrame DEF PerformRegistration, slots, game, mail
<1>6. CASE GetOrder \/ OrderSuperseded \/ OrderLoaded \/ OrderRetry \/ CharacterReply
  BY <1>0, <1>6, DeliveredFrame DEF GetOrder, OrderSuperseded, OrderLoaded, OrderRetry, CharacterReply,
     slots, game, mail
<1>7. CASE WriterStep
  <2>1. /\ UNCHANGED <<DelayedMails, Player, CharacterID, gpc, gslot>>
        /\ \A s \in Slot : Locked'[s] = Game => Locked[s] = Game
    BY <1>0, <1>7 DEF WriterStep, SaveAttach, SaveSlot, SaveRelease, Lock, Release, game, mail
  <2> QED
    BY <1>0, <2>1, DeliveredFrame
<1>8. ASSUME NEW s \in Slot, SaveCheck(s) PROVE MailDelivered'
  BY <1>0, <1>8, DeliveredFrame DEF SaveCheck, slots, game, mail
<1>9. CASE EndGame
  BY <1>0, <1>9, DeliveredFrame DEF EndGame, slots, mail
<1>10. ASSUME NEW c \in Char, WriteDepot(c) PROVE MailDelivered'
  BY <1>0, <1>10, DeliveredFrame DEF WriteDepot, game, mail
<1>11. ASSUME NEW c \in Char, SendMail(c) PROVE MailDelivered'
  <2>1. /\ gpc = "idle" /\ Player[c] = NoSlot /\ DelayedMails' = [DelayedMails EXCEPT ![c] = @ + 1]
        /\ UNCHANGED <<CharacterID, Locked, Player, gpc, gslot>>
    BY <1>11 DEF SendMail, slots, game
  <2>2. ASSUME NEW s \in Slot, Locked'[s] = Game PROVE DelayedMails'[CharacterID'[s]] = 0 /\ \E d \in Char : Player'[d] = s
    <3>1. PICK d \in Char : Player[d] = s
      BY <2>1, <2>2 DEF MailDelivered
    <3>2. CharacterID[s] = d /\ d # c
      BY <2>1, <3>1, Consts DEF Locks, GameLocks
    <3>3. DelayedMails[d] = 0
      BY <2>1, <2>2, <3>2 DEF MailDelivered
    <3> QED
      BY <1>0, <2>1, <3>1, <3>2, <3>3
  <2> QED
    BY <2>2 DEF MailDelivered
<1>12. ASSUME NEW c \in Char, Logout(c) PROVE MailDelivered'
  <2>1. /\ gpc \in {"idle", "ending"} /\ gpc' = "decrease" /\ gslot' = Player[c]
        /\ Player' = [Player EXCEPT ![c] = NoSlot] /\ UNCHANGED <<CharacterID, Locked, DelayedMails>>
    BY <1>12 DEF Logout, DropSlot, mail
  <2>2. ASSUME NEW s \in Slot, Locked'[s] = Game
        PROVE  DelayedMails'[CharacterID'[s]] = 0 /\ (gslot' = s \/ \E d \in Char : Player'[d] = s)
    <3>1. DelayedMails[CharacterID[s]] = 0 /\ \E d \in Char : Player[d] = s
      BY <2>1, <2>2 DEF MailDelivered
    <3> QED
      BY <1>0, <2>1, <3>1
  <2> QED
    BY <2>1, <2>2 DEF MailDelivered
<1>13. CASE JoinAttach
  <2>1. login[gconn] \in Char
    BY <1>13 DEF JoinAttach, Base, Control, GameControl
  <2>2. PICK s \in Slot : /\ CharacterID[s] = login[gconn] /\ Locked[s] = NoThread
                          /\ Locked' = [Locked EXCEPT ![s] = Game] /\ SendMails(s)
                          /\ Player' = [Player EXCEPT ![login[gconn]] = s]
    BY <1>13 DEF JoinAttach, SlotsOf, Lock
  <2>3. gpc = "attach" /\ UNCHANGED CharacterID
    BY <1>13 DEF JoinAttach
  <2>4. /\ DelayedMails'[CharacterID[s]] = 0
        /\ \A c \in Char \ {CharacterID[s]} : DelayedMails'[c] = DelayedMails[c]
    BY <2>1, <2>2, Consts, MailsSent
  <2>5. ASSUME NEW r \in Slot, Locked'[r] = Game
        PROVE  DelayedMails'[CharacterID'[r]] = 0 /\ \E d \in Char : Player'[d] = r
    <3>1. CASE r = s
      BY <1>0, <2>1, <2>2, <2>3, <2>4, <3>1
    <3>2. CASE r # s
      <4>1. Locked[r] = Game
        BY <1>0, <2>2, <2>5, <3>2
      <4>2. PICK d \in Char : Player[d] = r
        BY <2>3, <4>1 DEF MailDelivered
      <4>3. CharacterID[r] = d /\ DelayedMails[d] = 0
        BY <4>1, <4>2, Consts DEF MailDelivered, Locks, GameLocks
      <4>4. d # login[gconn]
        BY <2>1, <2>2, <3>2, <4>3, OnlySlot, Consts
      <4> QED
        BY <1>0, <2>2, <2>3, <2>4, <4>2, <4>3, <4>4
    <3> QED
      BY <3>1, <3>2
  <2> QED
    BY <2>5 DEF MailDelivered
<1>14. CASE ProcessCharacterReply
  <2>1. PICK s \in Slot : /\ CharacterID[s] = Head(replies) /\ Locked[s] = NoThread
                          /\ Locked' = [Locked EXCEPT ![s] = Game] /\ SendMails(s)
                          /\ gpc' = "decrease" /\ gslot' = s
    BY <1>14 DEF ProcessCharacterReply, SlotsOf, Lock, DropSlot
  <2>2. gpc = "idle" /\ UNCHANGED <<CharacterID, Player>> /\ replies # <<>> /\ replies \in Seq(Char)
    BY <1>14 DEF ProcessCharacterReply, Base, TypeOK, MailOK
  <2>3. CharacterID[s] \in Char
    BY <2>1, <2>2, HeadTailProperties
  <2>4. /\ DelayedMails'[CharacterID[s]] = 0
        /\ \A c \in Char \ {CharacterID[s]} : DelayedMails'[c] = DelayedMails[c]
    BY <2>1, <2>3, Consts, MailsSent
  <2>5. ASSUME NEW r \in Slot, Locked'[r] = Game
        PROVE  DelayedMails'[CharacterID'[r]] = 0 /\ (gslot' = r \/ \E d \in Char : Player'[d] = r)
    <3>1. CASE r = s
      BY <2>1, <2>2, <2>4, <3>1
    <3>2. CASE r # s
      <4>1. Locked[r] = Game
        BY <1>0, <2>1, <2>5, <3>2
      <4>2. DelayedMails[CharacterID[r]] = 0 /\ \E d \in Char : Player[d] = r
        BY <2>2, <4>1 DEF MailDelivered
      <4>3. CharacterID[r] # NoChar
        BY <1>0, <4>1 DEF Locks, RunningLocks
      <4>4. CharacterID[r] \in Char \ {CharacterID[s]}
        BY <1>0, <3>2, <4>3, OnlySlot
      <4> QED
        BY <2>2, <2>4, <4>2, <4>4
    <3> QED
      BY <3>1, <3>2
  <2> QED
    BY <2>1, <2>5 DEF MailDelivered
<1>15. CASE IgnoreCharacterReply
  BY <1>0, <1>15, DeliveredFrame DEF IgnoreCharacterReply, slots, game
<1>16. CASE Decrease
  BY <1>0, <1>16, DeliveredFrame DEF Decrease, mail
<1>17. CASE ReleaseGame
  <2>1. /\ UNCHANGED <<DelayedMails, Player, CharacterID>> /\ gslot \in Slot
        /\ Locked' = IF Locked[gslot] = Game THEN [Locked EXCEPT ![gslot] = NoThread] ELSE Locked
    BY <1>17 DEF ReleaseGame, Release, mail, Base, Control, GameControl
  <2>2. \A s \in Slot : Locked'[s] = Game => Locked[s] = Game /\ s # gslot
    BY <1>0, <2>1
  <2> QED
    BY <1>0, <2>1, <2>2, DeliveredFrame
<1>18. CASE ExitStep
  BY <1>18 DEF ExitStep, ExitStart, ExitNext, ExitDrain, ExitDrained, ExitAttach, ExitFree, DropSlot, Running
<1> QED
  BY <1>1, <1>2, <1>3, <1>4, <1>5, <1>6, <1>7, <1>8, <1>9, <1>10, <1>11, <1>12, <1>13, <1>14, <1>15, <1>16,
     <1>17, <1>18, Consts
  DEF Next, Environment, CommStep, Assign, ReaderStep, GameStep

-----------------------------------------------------------------------------
\* A slot keeps its spare mark when a thread takes care of its own.
LEMMA SpareStep ==
  ASSUME Base, NEW t \in Worker, OnlyThread(t), NEW s \in Slot, Counts(t, s), Sticky'[s] \in Int, Spare(s)
  PROVE  Spare(s)'
<1> DEFINE n == Sticky[s] - 1
           m == Sticky'[s] - 1
           K == LoginsOn(s)'
<1>1. n \in Int /\ m \in Int /\ Count(LoginsOn(s), n)
  BY DEF Base, TypeOK, SlotsOK, Spare
<1>2. \A u \in K : u \in Worker /\ LoginOn(u, s)'
  BY DEF LoginsOn
<1>3. \A u \in K \ {t} : u \in LoginsOn(s)
  BY <1>2, OtherThreads DEF LoginsOn
<1>4. CASE Sticky'[s] >= Sticky[s] /\ (LoginOn(t, s)' => LoginOn(t, s))
  <2>1. K \subseteq LoginsOn(s)
    BY <1>2, <1>3, <1>4 DEF LoginsOn
  <2>2. m >= n
    BY <1>1, <1>4 DEF Base, TypeOK, SlotsOK
  <2> HIDE DEF n, m, K
  <2>3. Count(K, m)
    BY <1>1, <2>1, <2>2, CountFewer
  <2> QED
    BY <2>3 DEF K, m, Spare
<1>5. CASE Sticky'[s] >= Sticky[s] + 1
  <2>1. K \subseteq LoginsOn(s) \cup {t}
    BY <1>3
  <2>2. m >= n + 1
    BY <1>1, <1>5 DEF Base, TypeOK, SlotsOK
  <2> HIDE DEF n, m, K
  <2>3. Count(K, m)
    BY <1>1, <2>1, <2>2, CountMore
  <2> QED
    BY <2>3 DEF K, m, Spare
<1>6. CASE Sticky'[s] >= Sticky[s] - 1 /\ LoginOn(t, s) /\ ~LoginOn(t, s)'
  <2>1. K \subseteq LoginsOn(s) \ {t} /\ t \in LoginsOn(s)
    BY <1>2, <1>3, <1>6 DEF LoginsOn
  <2>2. m >= n - 1
    BY <1>1, <1>6 DEF Base, TypeOK, SlotsOK
  <2> HIDE DEF n, m, K
  <2>3. Count(K, m)
    BY <1>1, <2>1, <2>2, CountLess
  <2> QED
    BY <2>3 DEF K, m, Spare
<1> QED
  BY <1>4, <1>5, <1>6 DEF Counts

\* The marks of a slot bound the logins that use it.
LEMMA LoginsAreMarks ==
  ASSUME Base, NEW s \in Slot, NEW x, NEW T, T \subseteq LoginsOn(s), x \in Marks(s),
         \A u \in T : <<"login", u>> # x, Count(Marks(s), Sticky[s])
  PROVE  Count(T, Sticky[s] - 1)
<1> DEFINE n == Sticky[s] - 1
           L == Marks(s) \ {x}
           h == [u \in T |-> <<"login", u>>]
<1>1. Sticky[s] \in Int /\ n \in Int
  BY DEF Base, TypeOK, SlotsOK
<1>2. Count(L, n)
  BY <1>1, CountLess
<1>3. \A u \in T : <<"login", u>> \in L
  BY HasMark DEF LoginsOn
<1>4. h \in Injection(T, L)
  <2>1. h \in [T -> L]
    BY <1>3
  <2>2. \A u, v \in T : h[u] = h[v] => u = v
    OBVIOUS
  <2> QED
    BY <2>1, <2>2 DEF Injection, IsInjective
<1>5. IsFiniteSet(T) /\ Cardinality(T) <= Cardinality(L)
  BY <1>2, <1>4, FS_Injection DEF Count
<1>6. Cardinality(T) \in Nat /\ Cardinality(L) \in Nat /\ n >= Cardinality(L)
  BY <1>2, <1>5, FS_CardinalityType DEF Count
<1>7. n >= Cardinality(T)
  BY <1>1, <1>5, <1>6
<1> QED
  BY <1>5, <1>7 DEF Count

\* Mail is kept by a step of a thread that counts its mark, when the reader has
\* not just given up the order.
LEMMA KeptByThread ==
  ASSUME Base, MailKept, Running' => Running, NEW t \in Worker, CountsItsMark(t), Sticky' \in [Slot -> Int],
         UNCHANGED DelayedMails, \A c \in Char : Ordered(c) => Kept(c)',
         Running => \A c \in Char : who[Reader] = c /\ DelayedMails[c] > 0 => Kept(c)'
  PROVE  MailKept'
<1> SUFFICES ASSUME Running, Running', NEW c \in Char, DelayedMails[c] > 0 PROVE Kept(c)'
  BY DEF MailKept
<1>1. Ordered(c) \/ who[Reader] = c \/ \E s \in Slot : CharacterID[s] = c /\ Spare(s)
  BY DEF MailKept, Kept
<1>2. CASE \E s \in Slot : CharacterID[s] = c /\ Spare(s)
  <2>1. PICK s \in Slot : CharacterID[s] = c /\ Spare(s)
    BY <1>2
  <2>2. OnlyThread(t) /\ Counts(t, s) /\ CharacterID' = CharacterID
    BY <2>1, Consts DEF CountsItsMark, OnlyThread
  <2>3. Spare(s)'
    BY <2>1, <2>2, SpareStep
  <2> QED
    BY <2>1, <2>2, <2>3 DEF Kept
<1> QED
  BY <1>1, <1>2

\* A step of the game or the writer thread: no login changes, and the slots of the
\* characters with deferred mail keep their marks.
LEMMA KeptByGame ==
  ASSUME Base, MailKept, Running' => Running, UNCHANGED <<workers, CharacterID>>, Sticky' \in [Slot -> Int],
         \A u \in Worker, s \in Slot : Locked'[s] = u <=> Locked[s] = u,
         \A c \in Char : Ordered(c) => Ordered(c)',
         \A c \in Char : DelayedMails'[c] > 0 => DelayedMails[c] > 0 \/ Ordered(c)',
         Running => \A s \in Slot : CharacterID[s] \in Char /\ DelayedMails'[CharacterID[s]] > 0
                                        => Sticky'[s] >= Sticky[s]
  PROVE  MailKept'
<1> SUFFICES ASSUME Running, Running', NEW c \in Char, DelayedMails'[c] > 0, ~Ordered(c)' PROVE Kept(c)'
  BY DEF MailKept, Kept
<1>1. who[Reader] = c \/ \E s \in Slot : CharacterID[s] = c /\ Spare(s)
  BY DEF MailKept, Kept
<1>2. CASE \E s \in Slot : CharacterID[s] = c /\ Spare(s)
  <2>1. PICK s \in Slot : CharacterID[s] = c /\ Spare(s)
    BY <1>2
  <2>2. OnlyThread(Reader) /\ LoginOn(Reader, s)' = LoginOn(Reader, s)
    BY Consts DEF OnlyThread, LoginOn, workers
  <2>3. Counts(Reader, s) /\ Sticky'[s] \in Int
    BY <2>1, <2>2 DEF Counts
  <2>4. Spare(s)'
    BY <2>1, <2>2, <2>3, SpareStep, Consts
  <2> QED
    BY <2>1, <2>4 DEF Kept
<1> QED
  BY <1>1, <1>2 DEF Kept, workers

\* Each step of the system keeps the deferred mail.
LEMMA KeptStep ==
  ASSUME Unreadable = {}, IsFiniteSet(Char), Cardinality(Char) <= PoolSize,
         Base, Locks, Served, Mails, Next
  PROVE  MailKept'
<1>0. /\ Running' => Running
      /\ Sticky' \in [Slot -> Int] /\ Sticky \in [Slot -> Int] /\ Locked \in [Slot -> Thread \cup {NoThread}]
      /\ pc \in [Worker -> {"idle", "assign", "loading", "unload", "assigned",
                            "accepted", "submit", "reply", "waiting"}]
      /\ who \in [Worker -> Char \cup {NoChar}] /\ orders \in Seq(Char)
      /\ CharacterID \in [Slot -> Char \cup {NoChar}] /\ DelayedMails \in [Char -> Nat]
      /\ Reader \in Worker /\ Reader \notin Comm /\ NoChar \notin Char
      /\ ReaderOrder /\ MailDelivered /\ MailKept
  BY RunningBack, TypeStep, Consts, PoolAssumption DEF Base, TypeOK, SlotsOK, WorkersOK, MailOK, Mails
<1>1. ASSUME NEW t \in Worker, AssignLock(t) \/ AssignBusy(t) \/ LoadPlayerData(t) \/ ReleaseSlot(t)
      PROVE  MailKept'
  <2>1. CountsItsMark(t)
    BY <1>1, MarkOfThread
  <2>2. UNCHANGED <<DelayedMails, orders, who>>
    BY <1>1 DEF AssignLock, AssignBusy, LoadPlayerData, ReleaseSlot, mail
  <2>3. \A c \in Char : (Ordered(c) => Kept(c)') /\ (who[Reader] = c => Kept(c)')
    BY <2>2 DEF Ordered, Kept
  <2> QED
    BY <1>0, <2>1, <2>2, <2>3, KeptByThread
<1>2. ASSUME NEW t \in Worker, AssignFresh(t) PROVE MailKept'
  <2> SUFFICES ASSUME Running, NEW c \in Char, DelayedMails'[c] > 0, ~Ordered(c)', who'[Reader] # c
               PROVE  \E s \in Slot : CharacterID'[s] = c /\ Spare(s)'
    BY <1>0 DEF MailKept, Kept
  <2>1. PICK s \in Slot :
           /\ CharacterID[s] = NoChar
           /\ CharacterID' = [CharacterID EXCEPT ![s] = who[t]] /\ Locked' = [Locked EXCEPT ![s] = t]
           /\ Sticky' = [Sticky EXCEPT ![s] = 0] /\ ptr' = [ptr EXCEPT ![t] = s]
    BY <1>2, FreshWasEmpty
  <2>2. /\ pc[t] = "assign" /\ pc' = [pc EXCEPT ![t] = "loading"]
        /\ UNCHANGED <<who, login, DelayedMails, orders>>
    BY <1>2 DEF AssignFresh, Goto, mail
  <2>3. PICK r \in Slot : CharacterID[r] = c /\ Spare(r)
    BY <1>0, <2>2 DEF MailKept, Kept, Ordered
  <2>5. r # s
    BY <1>0, <2>1, <2>3
  <2>6. LoginsOn(r)' \subseteq LoginsOn(r)
    <3> SUFFICES ASSUME NEW u \in Worker, LoginOn(u, r)' PROVE LoginOn(u, r)
      BY DEF LoginsOn
    <3>1. ptr \in [Worker -> Slot \cup {NoSlot}]
      BY DEF Base, TypeOK, WorkersOK
    <3>2. u # t
      BY <1>0, <2>2 DEF LoginOn
    <3>3. /\ pc'[u] = pc[u] /\ ptr'[u] = ptr[u] /\ Locked'[r] = Locked[r] /\ login' = login
          /\ CharacterID'[r] = CharacterID[r]
      BY <1>0, <2>1, <2>2, <2>5, <3>1, <3>2
    <3> QED
      BY <3>3 DEF LoginOn
  <2>7. CharacterID'[r] = c /\ Sticky'[r] = Sticky[r]
    BY <1>0, <2>1, <2>3, <2>5
  <2> DEFINE n == Sticky[r] - 1
             K == LoginsOn(r)'
  <2>8. n \in Int /\ Count(LoginsOn(r), n) /\ K \subseteq LoginsOn(r)
    BY <1>0, <2>3, <2>6 DEF Spare
  <2> HIDE DEF n, K
  <2>9. Count(K, n)
    BY <2>8, CountFewer
  <2>10. Spare(r)'
    BY <2>7, <2>9 DEF n, K, Spare
  <2> QED
    BY <2>7, <2>10
<1>3. ASSUME NEW t \in Worker, AssignNone(t) PROVE MailKept'
  <2>1. who[t] \in Char /\ SlotsOf(who[t]) = {} /\ Candidates = {}
    BY <1>3 DEF AssignNone, Base, Control, WorkerControl
  <2>2. Candidates # {}
    BY <2>1, RoomForAll DEF Candidates
  <2> QED
    BY <2>1, <2>2
<1>4. ASSUME NEW t \in Worker, LoadFails(t) \/ Unload(t) PROVE MailKept'
  BY <1>4 DEF LoadFails, Unload, Locks, WorkerLocks
<1>5. ASSUME NEW t \in Comm, \/ BlockLogin(t) \/ AcceptLogin(t) \/ SubmitLogin(t) \/ JoinFails(t)
                             \/ JoinRefused(t) \/ TakeOver(t) \/ DropLogin(t)
      PROVE  MailKept'
  <2>1. CountsItsMark(t) /\ t \in Worker
    BY <1>5, MarkOfThread, Consts
  <2>2. UNCHANGED <<DelayedMails, orders>>
    BY <1>5 DEF BlockLogin, AcceptLogin, SubmitLogin, JoinFails, JoinRefused, TakeOver, DropLogin, mail
  <2>3. who'[Reader] = who[Reader]
    BY <1>0, <2>1 DEF CountsItsMark, OnlyThread
  <2>4. \A c \in Char : (Ordered(c) => Kept(c)') /\ (who[Reader] = c => Kept(c)')
    BY <2>2, <2>3 DEF Ordered, Kept
  <2> QED
    BY <1>0, <2>1, <2>2, <2>4, KeptByThread
<1>6. ASSUME NEW t \in Comm, NEW d \in Char, PerformRegistration(t, d) PROVE MailKept'
  <2>1. CountsItsMark(t) /\ t \in Worker
    BY <1>6, MarkOfThread, Consts
  <2>2. UNCHANGED <<DelayedMails, orders>>
    BY <1>6 DEF PerformRegistration, mail
  <2>3. who'[Reader] = who[Reader]
    BY <1>0, <2>1 DEF CountsItsMark, OnlyThread
  <2>4. \A c \in Char : (Ordered(c) => Kept(c)') /\ (who[Reader] = c => Kept(c)')
    BY <2>2, <2>3 DEF Ordered, Kept
  <2> QED
    BY <1>0, <2>1, <2>2, <2>4, KeptByThread
<1>7. ASSUME NEW t \in Comm, JoinNew(t) PROVE MailKept'
  <2>1. UNCHANGED <<slots, workers, mail>>
    BY <1>7 DEF JoinNew
  <2> QED
    BY <1>0, <2>1, KeptByGame DEF slots, mail, Ordered
<1>8. CASE GetOrder
  <2>1. CountsItsMark(Reader)
    BY <1>8, MarkOfThread
  <2>2. /\ pc[Reader] = "idle" /\ orders # <<>> /\ orders' = Tail(orders) /\ UNCHANGED DelayedMails
        /\ who' = [who EXCEPT ![Reader] = Head(orders)]
    BY <1>8 DEF GetOrder
  <2>3. who[Reader] = NoChar
    BY <1>0, <2>2 DEF ReaderOrder
  <2>4. ASSUME NEW c \in Char, Ordered(c) PROVE Kept(c)'
    <3>1. PICK i \in DOMAIN orders : orders[i] = c
      BY <2>4 DEF Ordered
    <3>2. /\ Head(orders) = orders[1] /\ Len(Tail(orders)) = Len(orders) - 1 /\ Tail(orders) \in Seq(Char)
          /\ \A j \in 1 .. Len(Tail(orders)) : Tail(orders)[j] = orders[j + 1]
      BY <1>0, <2>2, HeadTailProperties
    <3>3. CASE i = 1
      BY <1>0, <2>2, <3>1, <3>2, <3>3 DEF Kept
    <3>4. CASE i # 1
      <4>1. i - 1 \in DOMAIN orders' /\ orders'[i - 1] = c
        BY <1>0, <2>2, <3>1, <3>2, <3>4, LenProperties
      <4> QED
        BY <4>1 DEF Kept, Ordered
    <3> QED
      BY <3>3, <3>4
  <2> QED
    BY <1>0, <2>1, <2>2, <2>3, <2>4, KeptByThread
<1>9. CASE OrderLoaded \/ OrderRetry
  <2>1. CountsItsMark(Reader)
    BY <1>9, MarkOfThread
  <2>2. UNCHANGED <<DelayedMails, orders, who>>
    BY <1>9 DEF OrderLoaded, OrderRetry, mail
  <2>3. \A c \in Char : (Ordered(c) => Kept(c)') /\ (who[Reader] = c => Kept(c)')
    BY <2>2 DEF Ordered, Kept
  <2> QED
    BY <1>0, <2>1, <2>2, <2>3, KeptByThread
<1>10. CASE OrderSuperseded
  <2>1. CountsItsMark(Reader)
    BY <1>10, MarkOfThread
  <2>2. /\ pc[Reader] = "assigned" /\ Locked[ptr[Reader]] = Game /\ ptr[Reader] \in Slot
        /\ UNCHANGED <<DelayedMails, orders>>
    BY <1>0, <1>10 DEF OrderSuperseded, mail, Base, Control, WorkerControl
  <2>3. \A c \in Char : Ordered(c) => Kept(c)'
    BY <2>2 DEF Ordered, Kept
  <2>4. Running => DelayedMails[who[Reader]] = 0
    <3> SUFFICES ASSUME Running PROVE DelayedMails[who[Reader]] = 0
      OBVIOUS
    <3>1. CharacterID[ptr[Reader]] = who[Reader]
      BY <1>0, <2>2 DEF ReaderOrder
    <3> QED
      BY <1>0, <2>2, <3>1 DEF MailDelivered
  <2> QED
    BY <1>0, <2>1, <2>2, <2>3, <2>4, KeptByThread
<1>11. CASE CharacterReply
  <2> SUFFICES ASSUME Running, NEW c \in Char, DelayedMails'[c] > 0, ~Ordered(c)'
               PROVE  \E r \in Slot : CharacterID'[r] = c /\ Spare(r)'
    BY <1>0 DEF MailKept, Kept
  <2>1. /\ pc[Reader] = "reply" /\ pc' = [pc EXCEPT ![Reader] = "idle"] /\ ptr' = [ptr EXCEPT ![Reader] = NoSlot]
        /\ UNCHANGED <<login, CharacterID, Locked, Sticky, DelayedMails, orders>>
        /\ who' = [who EXCEPT ![Reader] = NoChar]
    BY <1>11 DEF CharacterReply, Finish, Goto, slots
  <2>2. ptr[Reader] \in Slot /\ CharacterID[ptr[Reader]] = who[Reader] /\ who[Reader] \in Char
    BY <1>0, <2>1 DEF Served, Serves, Base, Control, WorkerControl
  <2>3. \A r \in Slot : LoginsOn(r)' \subseteq LoginsOn(r) \ {Reader}
    <3> SUFFICES ASSUME NEW r \in Slot, NEW u \in Worker, LoginOn(u, r)' PROVE LoginOn(u, r) /\ u # Reader
      BY DEF LoginsOn
    <3>1. ptr \in [Worker -> Slot \cup {NoSlot}]
      BY DEF Base, TypeOK, WorkersOK
    <3>2. u # Reader
      BY <1>0, <2>1 DEF LoginOn
    <3> QED
      BY <1>0, <2>1, <3>1, <3>2 DEF LoginOn
  <2>4. CASE who[Reader] = c
    <3>0. PICK r \in Slot : r = ptr[Reader]
      BY <2>2
    <3> DEFINE T == LoginsOn(r)'
    <3>1. LoginOn(Reader, r) /\ <<"login", Reader>> \in Marks(r)
      BY <1>0, <2>1, <3>0, HasMark DEF LoginOn
    <3>2. T \subseteq LoginsOn(r) /\ \A u \in T : <<"login", u>> # <<"login", Reader>>
      BY <2>3
    <3>3. Count(Marks(r), Sticky[r])
      BY <1>0, <2>2, <3>0 DEF Served
    <3> HIDE DEF T
    <3>4. Count(T, Sticky[r] - 1)
      BY <3>1, <3>2, <3>3, LoginsAreMarks
    <3>5. Spare(r)'
      BY <2>1, <3>4 DEF Spare, T
    <3> QED
      BY <2>1, <2>2, <2>4, <3>0, <3>5
  <2>5. CASE who[Reader] # c
    <3>1. PICK r \in Slot : CharacterID[r] = c /\ Spare(r)
      BY <1>0, <2>1, <2>5 DEF MailKept, Kept, Ordered
    <3> DEFINE n == Sticky[r] - 1
               K == LoginsOn(r)'
    <3>2. n \in Int /\ Count(LoginsOn(r), n) /\ K \subseteq LoginsOn(r)
      BY <1>0, <2>3, <3>1 DEF Spare
    <3> HIDE DEF n, K
    <3>3. Count(K, n)
      BY <3>2, CountFewer
    <3>4. Spare(r)'
      BY <2>1, <3>3 DEF n, K, Spare
    <3> QED
      BY <2>1, <3>1, <3>4
  <2> QED
    BY <2>4, <2>5
<1>12. CASE WriterStep
  <2>1. /\ UNCHANGED <<workers, CharacterID, Sticky, mail>>
        /\ \A u \in Worker, s \in Slot : Locked'[s] = u <=> Locked[s] = u
    BY <1>0, <1>12, Consts DEF WriterStep, SaveAttach, SaveSlot, SaveRelease, Lock, Release
  <2> QED
    BY <1>0, <2>1, KeptByGame DEF mail, Ordered
<1>13. ASSUME NEW s \in Slot, SaveCheck(s) PROVE MailKept'
  <2>1. UNCHANGED <<slots, workers, mail>>
    BY <1>13 DEF SaveCheck
  <2> QED
    BY <1>0, <2>1, KeptByGame DEF slots, mail, Ordered
<1>14. CASE EndGame
  <2>1. UNCHANGED <<slots, workers, mail>>
    BY <1>14 DEF EndGame
  <2> QED
    BY <1>0, <2>1, KeptByGame DEF slots, mail, Ordered
<1>15. ASSUME NEW c \in Char, WriteDepot(c) \/ Logout(c) PROVE MailKept'
  <2>1. UNCHANGED <<CharacterID, Locked, Sticky, workers, mail>>
    BY <1>15 DEF WriteDepot, Logout
  <2> QED
    BY <1>0, <2>1, KeptByGame DEF mail, Ordered
<1>16. ASSUME NEW c \in Char, SendMail(c) PROVE MailKept'
  <2>1. /\ UNCHANGED <<slots, workers>> /\ orders' = Append(orders, c)
        /\ DelayedMails' = [DelayedMails EXCEPT ![c] = @ + 1]
    BY <1>16 DEF SendMail
  <2>2. /\ \A d \in Char : Ordered(d) => Ordered(d)'
        /\ Ordered(c)'
    <3>1. /\ DOMAIN orders = 1 .. Len(orders) /\ DOMAIN orders' = 1 .. Len(orders) + 1 /\ Len(orders) \in Nat
          /\ \A i \in 1 .. Len(orders) : orders'[i] = orders[i]
          /\ orders'[Len(orders) + 1] = c
      BY <1>0, <2>1, AppendProperties, LenProperties
    <3>2. DOMAIN orders \subseteq DOMAIN orders' /\ Len(orders) + 1 \in DOMAIN orders'
      BY <3>1
    <3> QED
      BY <3>1, <3>2 DEF Ordered
  <2>3. \A d \in Char : DelayedMails'[d] > 0 => DelayedMails[d] > 0 \/ Ordered(d)'
    BY <1>0, <2>1, <2>2
  <2> QED
    BY <1>0, <2>1, <2>2, <2>3, KeptByGame DEF slots
<1>17. CASE JoinAttach
  <2>1. gconn \in Comm /\ login[gconn] \in Char /\ pc[gconn] = "waiting" /\ gconn \in Worker
    BY <1>17, Consts DEF JoinAttach, Base, Control, GameControl
  <2>2. PICK s \in Slot : /\ CharacterID[s] = login[gconn] /\ Locked' = [Locked EXCEPT ![s] = Game] /\ SendMails(s)
    BY <1>17 DEF JoinAttach, SlotsOf, Lock
  <2>3. /\ UNCHANGED <<CharacterID, Sticky, ptr, orders>>
        /\ pc' = [pc EXCEPT ![gconn] = "idle"] /\ who' = [who EXCEPT ![gconn] = NoChar]
        /\ login' = [login EXCEPT ![gconn] = NoChar]
    BY <1>17 DEF JoinAttach, LoginOver, Goto
  <2> SUFFICES ASSUME Running, NEW c \in Char, DelayedMails'[c] > 0, ~Ordered(c)', who'[Reader] # c
               PROVE  \E r \in Slot : CharacterID'[r] = c /\ Spare(r)'
    BY <1>0 DEF MailKept, Kept
  <2>4. DelayedMails'[login[gconn]] = 0 /\ DelayedMails[c] > 0
    BY <1>0, <2>1, <2>2, MailsSent
  <2>5. PICK r \in Slot : CharacterID[r] = c /\ Spare(r)
    BY <1>0, <2>1, <2>3, <2>4 DEF MailKept, Kept, Ordered
  <2>6. r # s
    BY <2>2, <2>4, <2>5
  <2>7. LoginsOn(r)' \subseteq LoginsOn(r)
    <3> SUFFICES ASSUME NEW u \in Worker, LoginOn(u, r)' PROVE LoginOn(u, r)
      BY DEF LoginsOn
    <3>1. u # gconn
      BY <1>0, <2>1, <2>3 DEF LoginOn
    <3>2. pc'[u] = pc[u] /\ Locked'[r] = Locked[r] /\ (u \in Comm => login'[u] = login[u])
      BY <1>0, <2>2, <2>3, <2>6, <3>1 DEF Base, TypeOK, WorkersOK
    <3> QED
      BY <2>3, <3>2 DEF LoginOn
  <2> DEFINE n == Sticky[r] - 1
             K == LoginsOn(r)'
  <2>8. n \in Int /\ Count(LoginsOn(r), n) /\ K \subseteq LoginsOn(r)
    BY <1>0, <2>5, <2>7 DEF Spare
  <2> HIDE DEF n, K
  <2>9. Count(K, n)
    BY <2>8, CountFewer
  <2>10. Spare(r)'
    BY <2>3, <2>9 DEF n, K, Spare
  <2> QED
    BY <2>3, <2>5, <2>10
<1>18. CASE ProcessCharacterReply
  <2>1. PICK s \in Slot : /\ CharacterID[s] = Head(replies) /\ Locked[s] = NoThread
                          /\ Locked' = [Locked EXCEPT ![s] = Game] /\ SendMails(s)
    BY <1>18 DEF ProcessCharacterReply, SlotsOf, Lock
  <2>2. UNCHANGED <<CharacterID, Sticky, workers, orders>> /\ replies # <<>> /\ replies \in Seq(Char)
    BY <1>18 DEF ProcessCharacterReply, Base, TypeOK, MailOK
  <2>3. CharacterID[s] \in Char
    BY <2>1, <2>2, HeadTailProperties
  <2>4. \A c \in Char : DelayedMails'[c] > 0 => DelayedMails[c] > 0
    BY <2>1, <2>3, Consts, MailsSent
  <2>5. \A u \in Worker, r \in Slot : Locked'[r] = u <=> Locked[r] = u
    BY <1>0, <2>1, Consts
  <2> QED
    BY <1>0, <2>2, <2>4, <2>5, KeptByGame DEF Ordered
<1>19. CASE IgnoreCharacterReply
  <2>1. UNCHANGED <<slots, workers, DelayedMails, orders>>
    BY <1>19 DEF IgnoreCharacterReply
  <2> QED
    BY <1>0, <2>1, KeptByGame DEF slots, Ordered
<1>20. CASE Decrease
  <2>1. /\ gslot \in Slot /\ Locked[gslot] = Game /\ Sticky' = [Sticky EXCEPT ![gslot] = @ + (-1)]
        /\ UNCHANGED <<CharacterID, Locked, workers, mail>>
    BY <1>20 DEF Decrease, AddSticky, Base, Control, GameControl, Locks, GameLocks
  <2>2. Running => DelayedMails[CharacterID[gslot]] = 0
    BY <1>0, <2>1 DEF MailDelivered
  <2>3. Running => \A s \in Slot : CharacterID[s] \in Char /\ DelayedMails'[CharacterID[s]] > 0
                                       => Sticky'[s] >= Sticky[s]
    BY <1>0, <2>1, <2>2 DEF mail
  <2> QED
    BY <1>0, <2>1, <2>3, KeptByGame DEF mail, Ordered
<1>21. CASE ReleaseGame
  <2>1. /\ UNCHANGED <<workers, CharacterID, Sticky, mail>>
        /\ \A u \in Worker, s \in Slot : Locked'[s] = u <=> Locked[s] = u
    BY <1>0, <1>21, Consts DEF ReleaseGame, Release
  <2> QED
    BY <1>0, <2>1, KeptByGame DEF mail, Ordered
<1>22. CASE ExitStep
  BY <1>22 DEF ExitStep, ExitStart, ExitNext, ExitDrain, ExitDrained, ExitAttach, ExitFree, DropSlot, Running, MailKept
<1> QED
  BY <1>1, <1>2, <1>3, <1>4, <1>5, <1>6, <1>7, <1>8, <1>9, <1>10, <1>11, <1>12, <1>13, <1>14, <1>15, <1>16,
     <1>17, <1>18, <1>19, <1>20, <1>21, <1>22, Consts
  DEF Next, Environment, CommStep, Join, Assign, ReaderStep, GameStep

\* There is no mail in the beginning.
LEMMA MailsInit == Init => Mails
BY Consts DEF Init, Mails, ReaderOrder, MailDelivered, MailKept

\* Mails only depends on the variables.
LEMMA MailsStutter ==
  ASSUME Mails, UNCHANGED vars PROVE Mails'
<1>1. UNCHANGED <<pc, ptr, who, login, CharacterID, Locked, Sticky, gpc, gslot, gnext, Player, DelayedMails, orders>>
  BY DEF vars, slots, workers, game, mail
<1>2. Running' = Running /\ \A s : Spare(s)' = Spare(s)
  BY <1>1 DEF Running, Spare, LoginsOn, LoginOn
<1> QED
  BY <1>1, <1>2 DEF Mails, ReaderOrder, MailDelivered, MailKept, Kept, Ordered

\* When every player file can be read and the pool has a slot for every character,
\* deferred mail is not forgotten: an order for it is under way or its addressee's
\* slot is marked.
THEOREM MailIsKept ==
  ASSUME Unreadable = {}, IsFiniteSet(Char), Cardinality(Char) <= PoolSize
  PROVE  Spec => []MailNotForgotten
<1>1. Base /\ Locks /\ [Next]_vars => Locks'
  BY WorkerLocksStep, RunningLocksStep, GameLocksStep, LocksStutter DEF Locks
<1>2. Base /\ Locks /\ Served /\ [Next]_vars => Served'
  BY ServedStep, ServedStutter
<1>3. Base /\ Locks /\ Served /\ Mails /\ [Next]_vars => Mails'
  <2>1. ASSUME Base, Locks, Served, Mails, Next PROVE Mails'
    BY <2>1, ReaderOrderStep, DeliveredStep, KeptStep DEF Mails
  <2> QED
    BY <2>1, MailsStutter
<1>4. Base /\ Mails => MailNotForgotten
  <2> SUFFICES ASSUME Base, Mails, Running, NEW c \in Char, DelayedMails[c] > 0, ~Ordered(c), who[Reader] # c
               PROVE  \E s \in SlotsOf(c) : Sticky[s] > 0
    BY DEF MailNotForgotten, Ordered
  <2>1. PICK s \in Slot : CharacterID[s] = c /\ Spare(s)
    BY DEF Mails, MailKept, Kept
  <2>2. Sticky[s] \in Int /\ Cardinality(LoginsOn(s)) \in Nat /\ Sticky[s] - 1 >= Cardinality(LoginsOn(s))
    BY <2>1, FS_CardinalityType DEF Spare, Count, Base, TypeOK, SlotsOK
  <2>3. Sticky[s] > 0
    BY <2>2
  <2> QED
    BY <2>1, <2>3 DEF SlotsOf
<1> QED
  BY <1>1, <1>2, <1>3, <1>4, LocksInit, ServedInit, MailsInit, BaseInvariance, PTL DEF Spec

=============================================================================
