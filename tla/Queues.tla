------------------------------- MODULE Queues --------------------------------
(***************************************************************************)
(* Whatever waits for its turn: threads at a semaphore (Semaphore),        *)
(* replies to the game thread (ReplyRing), bytes of a WebSocket            *)
(* (SPSCRingBuffer), creatures for the next entry of their to-do list      *)
(* (ToDo), effects for the round in which their timer ends them (Skills),  *)
(* objects for the round in which they expire (Cron), players for an NPC   *)
(* (Npc) and points of the map for the path finder to expand (Shortway).   *)
(*                                                                         *)
(* The parts share nothing: one of them is at work in a behaviour, the     *)
(* others stay in an initial state; the variables of Shortway are then     *)
(* unused (0).                                                             *)
(***************************************************************************)
EXTENDS Semaphore, ReplyRing, SPSCRingBuffer, ToDo, Skills, Cron, Npc

CONSTANTS
    Topic,     \* the parts of a run
    VisibleX, VisibleY, Slow, MaxUneven, Infinity, Few

VARIABLES
    topic,     \* the part that is at work
    Waypoints, Waylength, Heuristic, Predecessor, ToExpand, dest, MustReach, goSteps, goPath, searching, notInList

W == INSTANCE Shortway WITH MaxSteps <- goSteps

wayVars == <<Waypoints, Waylength, Heuristic, Predecessor, ToExpand, dest, MustReach, goSteps,
             goPath, searching, notInList>>

ASSUME SkillAssumption
ASSUME CronAssumption

QueuesInit ==
    /\ topic \in Topic
    /\ Init /\ ReplyInit /\ ByteInit /\ ToDoInit /\ SkillInit /\ CronInit /\ NpcInit
    /\ topic # "creature" => \A c \in Creature : todo[c].player
    /\ \/ topic = "way" /\ W!ShortInit
       \/ /\ topic # "way"
          /\ Waypoints = 0 /\ Waylength = 0 /\ Heuristic = 0 /\ Predecessor = 0 /\ ToExpand = 0 /\ dest = 0
          /\ MustReach = 0 /\ goSteps = 0 /\ goPath = 0 /\ searching = 0 /\ notInList = 0

QueuesNext ==
    /\ \/ /\ topic = "semaphore" /\ Next
          /\ UNCHANGED <<replyVars, byteVars, todoVars, skillVars, cronVars, npcVars, wayVars>>
       \/ /\ topic = "replies" /\ ReplyNext
          /\ UNCHANGED <<vars, byteVars, todoVars, skillVars, cronVars, npcVars, wayVars>>
       \/ /\ topic = "bytes" /\ ByteNext
          /\ UNCHANGED <<vars, replyVars, todoVars, skillVars, cronVars, npcVars, wayVars>>
       \/ /\ topic = "creature" /\ ToDoNext
          /\ UNCHANGED <<vars, replyVars, byteVars, skillVars, cronVars, npcVars, wayVars>>
       \/ /\ topic = "skills" /\ SkillNext
          /\ UNCHANGED <<vars, replyVars, byteVars, todoVars, cronVars, npcVars, wayVars>>
       \/ /\ topic = "cron" /\ CronNext
          /\ UNCHANGED <<vars, replyVars, byteVars, todoVars, skillVars, npcVars, wayVars>>
       \/ /\ topic = "npc" /\ NpcNext
          /\ UNCHANGED <<vars, replyVars, byteVars, todoVars, skillVars, cronVars, wayVars>>
       \/ /\ topic = "way" /\ W!ShortNext
          /\ UNCHANGED <<vars, replyVars, byteVars, todoVars, skillVars, cronVars, npcVars>>
    /\ UNCHANGED topic

\* The main loop goes on and executes what is due, and time passes.
QueuesFairness ==
    /\ WF_todoVars(topic = "creature" /\ Beat)
    /\ WF_todoVars(topic = "creature" /\ BeatDone)
    /\ WF_todoVars(topic = "creature" /\ (Rest \/ Act))
    /\ \A c \in Creature : WF_todoVars(topic = "creature" /\ deleteMin(c))
    /\ WF_npcVars(topic = "npc" /\ ExecuteNpc)
    /\ WF_npcVars(topic = "npc" /\ Silence)

QueuesSpec ==
    /\ QueuesInit
    /\ [][QueuesNext]_<<topic, vars, replyVars, byteVars, todoVars, skillVars, cronVars, npcVars, wayVars>>
    /\ QueuesFairness

-----------------------------------------------------------------------------
\* The search returns a cheapest way, see Shortway (TShortway::Calculate).
ShortestWay == topic = "way" => W!ShortestWay

=============================================================================
