------------------------------- MODULE Query --------------------------------
(***************************************************************************)
(* The connections to the query manager (query_client.cpp) and the pool    *)
(* from which the communication threads borrow them for a login            *)
(* (query_connection_pool.cpp).                                            *)
(*                                                                         *)
(* A client sends its request and waits for the answer; a broken           *)
(* connection is closed and the request sent again on a new one, after a   *)
(* login that uses the same buffer.  The query manager is a program of its *)
(* own, known here by what the client can see of it: it may be slow, break *)
(* the connection at any time, and act on a request whose sender has given *)
(* up.                                                                     *)
(***************************************************************************)
EXTENDS Integers, FiniteSets, TLC

CONSTANTS
    User,                   \* threads that need a client
    NoUser,
    NumberOfConnections,
    Asked,                  \* the queries of a run, names of Queries
    Limit,                  \* room in the caller's arrays
    MaxAttempts,            \* of executeQuery: 2
    MaxQueries              \* bound on the queries of a user

ASSUME QueryAssumption ==
    /\ IsFiniteSet(User) /\ NoUser \notin User
    /\ NumberOfConnections \in Nat
    /\ Limit \in Nat
    /\ MaxAttempts \in Nat \ {0}
    /\ MaxQueries \in Nat

VARIABLES
    pool,       \* FreeQueryManagerConnections, QueryManagerConnectionMutex, ...Free
    user,       \* where a thread is, the client it uses and its query
    wire,       \* of a client: Socket, Buffer, what is under way on the connection
    manager     \* of the query manager: how often it acted on a request, and requests
                \* it may have got from a client that hung up

queryVars == <<pool, user, wire, manager>>

Client == 1 .. NumberOfConnections

-----------------------------------------------------------------------------
(* The queries, each with the highest error code it hands on.              *)

AccountQueries == [checkAccountPassword |-> 4, loginAdmin |-> 1, loadWorldConfig |-> 0]
LoginQueries == [resolveEmail |-> 255, loginGame |-> 15, logoutGame |-> 0]
GamemasterQueries == [setNotation |-> 2, setNamelock |-> 4, banishAccount |-> 3, reportStatement |-> 2, banishIPAddress |-> 2]
CharacterQueries == [logCharacterDeath |-> 0, addBuddy |-> 0, removeBuddy |-> 0, decrementIsOnline |-> 0]
AuctionQueries == [finishAuctions |-> 0, excludeFromAuctions |-> 0, transferHouses |-> 0, cancelHouseTransfer |-> 0]
EvictionQueries == [evictFreeAccounts |-> 0, evictDeletedCharacters |-> 0, evictExGuildleaders |-> 0]
OwnerQueries == [insertHouseOwner |-> 0, updateHouseOwner |-> 0, deleteHouseOwner |-> 0, getHouseOwners |-> 0]
HouseQueries == [getAuctions |-> 0, startAuction |-> 0, insertHouses |-> 0]
WorldQueries == [clearIsOnline |-> 0, createPlayerlist |-> 0, logKilledCreatures |-> 0, loadPlayers |-> 0]

Queries ==
    AccountQueries @@ LoginQueries @@ GamemasterQueries @@ CharacterQueries @@ AuctionQueries
    @@ EvictionQueries @@ OwnerQueries @@ HouseQueries @@ WorldQueries

\* Lists that are refused when they do not fit; buddies are cut off instead.
Capped == {"finishAuctions", "transferHouses", "evictFreeAccounts", "evictDeletedCharacters", "getHouseOwners", "getAuctions"}

\* What a query returns for an answer: 0, an error code, or -1.
Decode(q, a) ==
    CASE a.status = "OK" -> IF q \in Capped /\ a.length > Limit THEN -1 ELSE 0
      [] a.status = "ERROR" /\ (a.code \in 1 .. Queries[q] \/ q = "resolveEmail") -> a.code
      [] OTHER -> -1

\* Answers to a query; the list may be longer than its reader expects.
Answers(q) ==
    [status : {"OK"}, code : {0}, length : IF q \in Capped THEN {Limit, Limit + 1} ELSE {0}]
    \cup [status : {"ERROR"}, code : {1, Queries[q] + 1} \cap 0 .. 255, length : {0}]
    \cup [status : {"FAILED"}, code : {0}, length : {0}]

-----------------------------------------------------------------------------
(* Requests are told apart by their sender and its count of queries; the   *)
(* login of a new connection is a request, too.                            *)

Request(u) == [sender |-> u, number |-> user[u].number]
LoginRequest == [sender |-> NoUser, number |-> 0]
NoRequest == [sender |-> NoUser, number |-> -1]

NoData == [status |-> "FAILED", code |-> 0, length |-> 0]

\* A connection as `connect' leaves it.
Fresh(buffer) == [open |-> TRUE, Buffer |-> buffer, sent |-> NoRequest, head |-> FALSE, answer |-> NoRequest, data |-> NoData]
disconnect(w) == [Fresh(w.Buffer) EXCEPT !.open = FALSE]

QueryInit ==
    /\ pool = [permits |-> NumberOfConnections, mutex |-> NoUser, free |-> [c \in Client |-> TRUE]]
    /\ user = [u \in User |-> [pc |-> "idle", client |-> 0, number |-> 0, query |-> "none", attempt |-> 0,
                              result |-> -1, answer |-> NoRequest]]
    /\ wire = [c \in Client |-> Fresh(LoginRequest)]
    /\ manager = [acted |-> [r \in {} |-> 0], lost |-> {}]

Goto(u, from, to) ==
    /\ user[u].pc = from
    /\ user' = [user EXCEPT ![u].pc = to]

-----------------------------------------------------------------------------
(* The pool.                                                               *)

\* getConnection: FreeQueryManagerConnections.down().
TakePermit(u) ==
    /\ Goto(u, "idle", "lock")
    /\ user[u].number < MaxQueries
    /\ pool.permits > 0
    /\ pool' = [pool EXCEPT !.permits = @ - 1]
    /\ UNCHANGED <<wire, manager>>

\* Mutant: the search does without QueryManagerConnectionMutex.
BugLock(u) ==
    /\ user[u].pc = "lock"
    /\ user' = [user EXCEPT ![u].pc = "scan", ![u].client = 1]
    /\ UNCHANGED <<pool, wire, manager>>

Lock(u) ==
    /\ user[u].pc = "lock" /\ pool.mutex = NoUser
    /\ user' = [user EXCEPT ![u].pc = "scan", ![u].client = 1]
    /\ pool' = [pool EXCEPT !.mutex = u]
    /\ UNCHANGED <<wire, manager>>

\* The flag is read and cleared in two steps: another thread may set one.
Scan(u) ==
    LET c == user[u].client IN
    /\ user[u].pc = "scan"
    /\ user' = [user EXCEPT ![u] = IF c > NumberOfConnections THEN [@ EXCEPT !.pc = "null"]
                                   ELSE IF pool.free[c] THEN [@ EXCEPT !.pc = "claim"]
                                   ELSE [@ EXCEPT !.client = c + 1]]
    /\ UNCHANGED <<pool, wire, manager>>

Claim(u) ==
    /\ Goto(u, "claim", "hold")
    /\ pool' = [pool EXCEPT !.free[user[u].client] = FALSE, !.mutex = NoUser]
    /\ UNCHANGED <<wire, manager>>

\* releaseConnection sets the flag without the mutex, and then the permit.
Release(u) ==
    /\ user[u].pc = "hold"
    /\ user' = [user EXCEPT ![u] = [@ EXCEPT !.pc = "up", !.query = "none", !.result = -1, !.answer = NoRequest]]
    /\ pool' = [pool EXCEPT !.free[user[u].client] = TRUE]
    /\ UNCHANGED <<wire, manager>>

GivePermit(u) ==
    /\ user[u].pc = "up"
    /\ user' = [user EXCEPT ![u].pc = "idle", ![u].client = 0]
    /\ pool' = [pool EXCEPT !.permits = @ + 1]
    /\ UNCHANGED <<wire, manager>>

-----------------------------------------------------------------------------
(* A query.                                                                *)

\* prepareQuery and the send functions: the request is put into the buffer.
Prepare(u, q) ==
    LET c == user[u].client IN
    /\ user[u].pc = "hold" /\ user[u].number < MaxQueries
    /\ user' = [user EXCEPT ![u] = [@ EXCEPT !.pc = "connect", !.number = user[u].number + 1, !.query = q,
                                             !.attempt = 1, !.result = -1, !.answer = NoRequest]]
    /\ wire' = [wire EXCEPT ![c].Buffer = [sender |-> u, number |-> user[u].number + 1]]
    /\ UNCHANGED <<pool, manager>>

\* Mutant: the login of the new connection stays in the buffer.
BugReconnect(w) == {disconnect(w), Fresh(LoginRequest)}

\* connect: the login uses the buffer, whose content executeQuery keeps aside.
Reconnect(w) == {disconnect(w), Fresh(w.Buffer)}

\* The beginning of an attempt.  Before the first one executeQuery refuses a request
\* that does not fit or was not put together.
Connect(u) ==
    LET c == user[u].client IN
    /\ user[u].pc = "connect"
    /\ \/ /\ wire' \in IF wire[c].open THEN {wire} ELSE {[wire EXCEPT ![c] = w] : w \in Reconnect(wire[c])}
          /\ user' = [user EXCEPT ![u].pc = IF wire'[c].open THEN "write" ELSE "hold"]
       \/ /\ user[u].attempt = 1
          /\ user' = [user EXCEPT ![u].pc = "hold"]
          /\ UNCHANGED wire
    /\ UNCHANGED <<pool, manager>>

\* The client closes its socket; what the manager has got may still be acted upon.
Hangup(c) ==
    /\ wire' = [wire EXCEPT ![c] = disconnect(@)]
    /\ manager' = [manager EXCEPT !.lost = @ \cup ({wire[c].sent} \ {NoRequest})]

\* An attempt has failed: another one, or the query has.
Again(u) == IF user[u].attempt < MaxAttempts
            THEN user' = [user EXCEPT ![u] = [@ EXCEPT !.pc = "connect", !.attempt = user[u].attempt + 1]]
            ELSE user' = [user EXCEPT ![u].pc = "hold"]

Write(u) ==
    LET c == user[u].client IN
    /\ user[u].pc = "write"
    /\ \/ /\ wire[c].open
          /\ wire' = [wire EXCEPT ![c].sent = wire[c].Buffer]
          /\ user' = [user EXCEPT ![u].pc = "head"]
          /\ UNCHANGED manager
       \/ Hangup(c) /\ Again(u)
    /\ UNCHANGED pool

\* Two bytes of length: read, refused by a broken connection, or too late.
ReadHead(u) ==
    LET c == user[u].client IN
    /\ user[u].pc = "head"
    /\ \/ /\ wire[c].answer # NoRequest /\ wire[c].head
          /\ wire' = [wire EXCEPT ![c].head = FALSE]
          /\ user' = [user EXCEPT ![u].pc = "data"]
          /\ UNCHANGED manager
       \/ Hangup(c) /\ (Again(u) \/ user' = [user EXCEPT ![u].pc = "hold"])
    /\ UNCHANGED pool

\* A size that cannot be, or data that do not come, end the query at once.
ReadData(u) ==
    LET c == user[u].client IN
    /\ user[u].pc = "data"
    /\ \/ /\ wire[c].answer # NoRequest
          /\ wire' = [wire EXCEPT ![c] = [@ EXCEPT !.answer = NoRequest, !.data = NoData]]
          /\ user' = [user EXCEPT ![u] = [@ EXCEPT !.pc = "hold", !.answer = wire[c].answer,
                                                   !.result = Decode(user[u].query, wire[c].data)]]
          /\ UNCHANGED manager
       \/ Hangup(c) /\ user' = [user EXCEPT ![u].pc = "hold"]
    /\ UNCHANGED pool

-----------------------------------------------------------------------------
(* The query manager and the network.                                      *)

Act(r) == [x \in DOMAIN manager.acted \cup {r} |->
              IF x \notin DOMAIN manager.acted THEN 1 ELSE IF x = r THEN manager.acted[x] + 1 ELSE manager.acted[x]]

\* Which query a request is; a login is answered in `connect'.
Asks(r) == IF r.sender \in User /\ user[r.sender].number = r.number THEN user[r.sender].query ELSE "logoutGame"

Serve(c) ==
    LET r == wire[c].sent IN
    /\ r # NoRequest
    /\ \E a \in Answers(Asks(r)) :
           /\ wire' = [wire EXCEPT ![c] = [@ EXCEPT !.sent = NoRequest, !.head = TRUE, !.answer = r, !.data = a]]
           /\ manager' = [manager EXCEPT !.acted = Act(r)]
    /\ UNCHANGED <<pool, user>>

\* A request whose sender has hung up is acted upon, or never was received.
ServeLost(r) ==
    /\ r \in manager.lost
    /\ manager' \in {[manager EXCEPT !.lost = @ \ {r}],
                     [manager EXCEPT !.lost = @ \ {r}, !.acted = Act(r)]}
    /\ UNCHANGED <<pool, user, wire>>

QueryNext ==
    \/ \E u \in User : \/ TakePermit(u) \/ Lock(u) \/ Scan(u) \/ Claim(u) \/ Release(u) \/ GivePermit(u)
                       \/ \E q \in Asked : Prepare(u, q)
                       \/ Connect(u) \/ Write(u) \/ ReadHead(u) \/ ReadData(u)
    \/ \E c \in Client : Serve(c)
    \/ \E r \in manager.lost : ServeLost(r)

QuerySpec == QueryInit /\ [][QueryNext]_queryVars

-----------------------------------------------------------------------------
\* getConnection hands a client to one thread at a time and never comes back
\* without one, although releaseConnection sets the flag without the mutex.
OneUser ==
    /\ \A u \in User : user[u].pc # "null"
    /\ \A u, v \in User : u # v /\ user[u].client = user[v].client
           => user[u].pc \notin {"hold", "connect", "write", "head", "data"}
              \/ user[v].pc \notin {"hold", "connect", "write", "head", "data"}

\* What a query returns other than -1 is what the manager answered to this very
\* request, however often connections broke, answers came late or the request was
\* sent again (executeQuery); and the manager acts on a request no more than twice.
QueryAnswered ==
    /\ \A u \in User : user[u].pc = "hold" /\ user[u].result # -1 => user[u].answer = Request(u)
    /\ \A r \in DOMAIN manager.acted : manager.acted[r] <= MaxAttempts

=============================================================================
