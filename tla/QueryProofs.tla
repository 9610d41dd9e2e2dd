---------------------------- MODULE QueryProofs -----------------------------
(***************************************************************************)
(* Proofs about Query, for any number of threads, connections and          *)
(* attempts: getConnection hands a client to one thread at a time and      *)
(* never comes back without one, a query returns the answer to its own     *)
(* request, and the query manager acts on a request at most once for every *)
(* attempt to send it.                                                     *)
(***************************************************************************)
EXTENDS Query, FiniteSetTheorems, TLAPS

Using == {"hold", "connect", "write", "head", "data"}
Asking == {"connect", "write", "head", "data"}
Sent == {"head", "data"}

UserRequest == [sender : User, number : Nat]
AnyRequest == UserRequest \cup {NoRequest, LoginRequest}

Answer == [status : {"OK", "ERROR", "FAILED"}, code : Int, length : Int]

UserType == [pc : {"idle", "lock", "scan", "claim", "null", "up"} \cup Using,
             client : Nat, number : Nat, query : Asked \cup {"none"},
             attempt : 0 .. MaxAttempts, result : Int, answer : AnyRequest]
WireType == [open : BOOLEAN, Buffer : AnyRequest, sent : UserRequest \cup {NoRequest},
             head : BOOLEAN, answer : UserRequest \cup {NoRequest}, data : Answer]

QueryTypeOK ==
    /\ pool \in [permits : Nat, mutex : User \cup {NoUser}, free : [Client -> BOOLEAN]]
    /\ user \in [User -> UserType]
    /\ wire \in [Client -> WireType]
    /\ manager = [acted |-> manager.acted, lost |-> manager.lost]
    /\ manager.acted \in [DOMAIN manager.acted -> Nat]
    /\ DOMAIN manager.acted \subseteq UserRequest
    /\ manager.lost \subseteq UserRequest

-----------------------------------------------------------------------------
(* Who has which client.                                                   *)

Holds(u) == user[u].pc \in Using
Busy == {u \in User : user[u].pc # "idle"}

\* A thread has its permit from down to up.
Permits == pool.permits + Cardinality(Busy) = NumberOfConnections

\* The search is done under the mutex.
Mutex == \A u \in User : user[u].pc \in {"scan", "claim"} <=> pool.mutex = u

\* A flag is down exactly while a thread has the client, and that is one thread.
Clients ==
    /\ \A u \in User : Holds(u) => user[u].client \in Client /\ ~pool.free[user[u].client]
    /\ \A c \in Client : ~pool.free[c] => \E u \in User : Holds(u) /\ user[u].client = c
    /\ \A u, v \in User : Holds(u) /\ Holds(v) /\ user[u].client = user[v].client => u = v

\* A free client is left at or after the place of the search: flags go up
\* behind its back, but only the thread with the mutex lowers one.
Search ==
    /\ \A u \in User : user[u].pc = "scan" => /\ user[u].client >= 1
                                             /\ \E d \in Client : d >= user[u].client /\ pool.free[d]
    /\ \A u \in User : user[u].pc = "claim" => user[u].client \in Client /\ pool.free[user[u].client]
    /\ \A u \in User : user[u].pc # "null"

Ownership == Permits /\ Mutex /\ Clients /\ Search

-----------------------------------------------------------------------------
(* What is under way on a connection.                                      *)

\* Nothing is under way unless a thread waits for an answer.
Quiet ==
    \A c \in Client :
        /\ wire[c].sent = NoRequest \/ wire[c].answer = NoRequest
        /\ wire[c].sent # NoRequest \/ wire[c].answer # NoRequest
              => \E u \in User : user[u].pc \in Sent /\ user[u].client = c

\* The buffer has the request of the thread that asks, and what is under way is
\* that request or the answer to it.
OwnRequest ==
    \A u \in User :
        /\ user[u].pc \in Asking => /\ wire[user[u].client].Buffer = Request(u)
                                    /\ user[u].attempt >= 1
        /\ user[u].pc \in Sent => /\ wire[user[u].client].sent \in {NoRequest, Request(u)}
                                  /\ wire[user[u].client].answer \in {NoRequest, Request(u)}

OwnAnswer ==
    \A u \in User :
        /\ user[u].pc # "hold" => user[u].result = -1
        /\ user[u].pc = "hold" /\ user[u].result # -1 => user[u].answer = Request(u)

Exchange == Quiet /\ OwnRequest /\ OwnAnswer

\* How often the manager has acted or may yet act on a request.
Acted(r) == IF r \in DOMAIN manager.acted THEN manager.acted[r] ELSE 0
OnWire(r) == \E c \in Client : wire[c].sent = r
MayAct(r) == (IF r \in manager.lost THEN 1 ELSE 0) + (IF OnWire(r) THEN 1 ELSE 0)

\* The attempts made to send a request.
Attempts(r) ==
    LET u == user[r.sender] IN
    IF r.number > u.number THEN 0
    ELSE IF r.number = u.number /\ u.pc \in {"connect", "write"} THEN u.attempt - 1
    ELSE IF r.number = u.number /\ u.pc \in Sent THEN u.attempt
    ELSE MaxAttempts

ActsCounted == \A r \in UserRequest : Acted(r) + MayAct(r) <= Attempts(r)

IInv == QueryTypeOK /\ Ownership /\ Exchange /\ ActsCounted

-----------------------------------------------------------------------------
(* Types.                                                                  *)

\* No request of a user is one of the two others.
LEMMA Distinct == NoRequest \notin UserRequest /\ LoginRequest \notin UserRequest /\ NoRequest # LoginRequest
  BY QueryAssumption DEF NoRequest, LoginRequest, UserRequest

\* The record of the manager's acts stays one of numbers of acts on requests.
LEMMA ActType ==
  ASSUME NEW r \in UserRequest, QueryTypeOK
  PROVE  Act(r) \in [DOMAIN Act(r) -> Nat] /\ DOMAIN Act(r) \subseteq UserRequest
<1> DEFINE done == manager.acted
<1>1. done \in [DOMAIN done -> Nat] /\ DOMAIN done \subseteq UserRequest
  BY DEF QueryTypeOK
<1>2. Act(r) = [x \in DOMAIN done \cup {r} |->
                   IF x \notin DOMAIN done THEN 1 ELSE IF x = r THEN done[x] + 1 ELSE done[x]]
  BY DEF Act
<1> HIDE DEF done
<1>3. DOMAIN Act(r) = DOMAIN done \cup {r}
  BY <1>2
<1>4. ASSUME NEW x \in DOMAIN done \cup {r} PROVE Act(r)[x] \in Nat
  <2>1. x \in DOMAIN done => done[x] \in Nat /\ done[x] + 1 \in Nat
    BY <1>1
  <2>2. Act(r)[x] = IF x \notin DOMAIN done THEN 1 ELSE IF x = r THEN done[x] + 1 ELSE done[x]
    BY <1>2
  <2> QED
    BY <2>1, <2>2
<1> QED
  BY <1>1, <1>2, <1>3, <1>4

\* The manager has acted once more on a request, and not on another.
LEMMA ActOnce ==
  ASSUME NEW r, NEW s, manager'.acted = Act(r)
  PROVE  Acted(s)' = IF s = r THEN Acted(s) + 1 ELSE Acted(s)
<1>1. DOMAIN Act(r) = DOMAIN manager.acted \cup {r}
  BY DEF Act
<1>2. ASSUME s \in DOMAIN manager.acted \cup {r}
      PROVE  Act(r)[s] = IF s \notin DOMAIN manager.acted THEN 1
                         ELSE IF s = r THEN manager.acted[s] + 1 ELSE manager.acted[s]
  BY <1>2 DEF Act
<1>3. Acted(s)' = IF s \in DOMAIN Act(r) THEN Act(r)[s] ELSE 0
  BY DEF Acted
<1>4. CASE s \in DOMAIN manager.acted
  BY <1>1, <1>2, <1>3, <1>4 DEF Acted
<1>5. CASE s \notin DOMAIN manager.acted /\ s = r
  BY <1>1, <1>2, <1>3, <1>5 DEF Acted
<1>6. CASE s \notin DOMAIN manager.acted /\ s # r
  BY <1>1, <1>3, <1>6 DEF Acted
<1> QED
  BY <1>4, <1>5, <1>6

\* Nobody has a client.
LEMMA InitTypeOK == QueryInit => QueryTypeOK
<1> SUFFICES ASSUME QueryInit PROVE QueryTypeOK
  OBVIOUS
<1> USE QueryAssumption DEF QueryInit, QueryTypeOK, Fresh, AnyRequest, UserRequest, NoRequest, LoginRequest, NoData, Answer, Using, Client
<1>1. pool \in [permits : Nat, mutex : User \cup {NoUser}, free : [Client -> BOOLEAN]]
  OBVIOUS
<1>2. user \in [User -> UserType]
  BY DEF UserType
<1>3. wire \in [Client -> WireType]
  BY DEF WireType
<1>4. /\ manager = [acted |-> manager.acted, lost |-> manager.lost]
      /\ manager.acted \in [DOMAIN manager.acted -> Nat]
      /\ DOMAIN manager.acted \subseteq UserRequest
      /\ manager.lost \subseteq UserRequest
  OBVIOUS
<1> QED
  BY <1>1, <1>2, <1>3, <1>4

-----------------------------------------------------------------------------
(* What a step does to the thread that takes it.                           *)

Step(u, pc, client) ==
    /\ user' \in [User -> UserType]
    /\ \A v \in User : v # u => user'[v] = user[v]
    /\ user'[u].pc = pc /\ user'[u].client = client

\* The thread goes on with its query.
SameQuery(u) ==
    /\ user'[u].number = user[u].number /\ user'[u].attempt = user[u].attempt
    /\ user'[u].result = user[u].result /\ user'[u].answer = user[u].answer

Idle == /\ UNCHANGED <<wire, manager>>
        /\ pool' \in [permits : Nat, mutex : User \cup {NoUser}, free : [Client -> BOOLEAN]]

\* One thread takes a step.
LEMMA UserUpdate ==
  ASSUME NEW u \in User, QueryTypeOK, NEW n \in UserType, user' = [user EXCEPT ![u] = n]
  PROVE  Step(u, n.pc, n.client) /\ user'[u] = n
  BY DEF QueryTypeOK, Step

\* A thread goes on with its query at another place, with a client.
LEMMA UserMoves ==
  ASSUME NEW u \in User, QueryTypeOK,
         NEW p \in {"idle", "lock", "scan", "claim", "null", "up"} \cup Using, NEW c \in Nat,
         user' = [user EXCEPT ![u] = [user[u] EXCEPT !.pc = p, !.client = c]]
  PROVE  Step(u, p, c) /\ SameQuery(u)
<1> DEFINE n == [user[u] EXCEPT !.pc = p, !.client = c]
<1>1. user[u] \in UserType
  BY DEF QueryTypeOK
<1>2. /\ n \in UserType /\ n.pc = p /\ n.client = c /\ n.number = user[u].number
      /\ n.attempt = user[u].attempt /\ n.result = user[u].result /\ n.answer = user[u].answer
  BY <1>1 DEF UserType
<1> HIDE DEF n
<1>3. user' = [user EXCEPT ![u] = n]
  BY DEF n
<1>4. Step(u, n.pc, n.client) /\ user'[u] = n
  BY <1>2, <1>3, UserUpdate
<1> QED
  BY <1>2, <1>4 DEF SameQuery

\* The same when it keeps its client.
LEMMA UserGoes ==
  ASSUME NEW u \in User, QueryTypeOK, NEW from,
         NEW to \in {"idle", "lock", "scan", "claim", "null", "up"} \cup Using, Goto(u, from, to)
  PROVE  Step(u, to, user[u].client) /\ SameQuery(u)
<1>1. user[u] \in UserType /\ user[u].client \in Nat
  BY DEF QueryTypeOK, UserType
<1>2. [user[u] EXCEPT !.pc = to] = [user[u] EXCEPT !.pc = to, !.client = user[u].client]
  BY <1>1 DEF UserType
<1>3. user' = [user EXCEPT ![u] = [user[u] EXCEPT !.pc = to, !.client = user[u].client]]
  BY <1>2 DEF Goto
<1> QED
  BY <1>1, <1>3, UserMoves

\* TakePermit, Lock and Scan: the search for a client.
LEMMA SearchStep ==
  ASSUME NEW u \in User, QueryTypeOK
  PROVE  /\ TakePermit(u) => Step(u, "lock", user[u].client) /\ SameQuery(u) /\ Idle
         /\ Lock(u) => Step(u, "scan", 1) /\ SameQuery(u) /\ Idle
         /\ Scan(u) => /\ \/ user[u].client > NumberOfConnections /\ Step(u, "null", user[u].client)
                          \/ user[u].client <= NumberOfConnections /\ pool.free[user[u].client] /\ Step(u, "claim", user[u].client)
                          \/ user[u].client <= NumberOfConnections /\ ~pool.free[user[u].client] /\ Step(u, "scan", user[u].client + 1)
                       /\ SameQuery(u) /\ Idle
<1> USE QueryAssumption DEF Step, SameQuery, Idle, QueryTypeOK, UserType, Using
<1>1. ASSUME TakePermit(u) PROVE Step(u, "lock", user[u].client) /\ SameQuery(u) /\ Idle
  <2>1. Goto(u, "idle", "lock") /\ pool' = [pool EXCEPT !.permits = pool.permits - 1]
        /\ pool.permits > 0 /\ UNCHANGED <<wire, manager>>
    BY <1>1 DEF TakePermit
  <2>2. pool.permits - 1 \in Nat
    BY <2>1
  <2>3. Idle
    BY <2>1, <2>2
  <2> HIDE DEF Step, SameQuery, Idle, QueryTypeOK, UserType, Using
  <2> QED
    BY <2>1, <2>3, UserGoes
<1>2. ASSUME Lock(u) PROVE Step(u, "scan", 1) /\ SameQuery(u) /\ Idle
  <2>1. user' = [user EXCEPT ![u] = [user[u] EXCEPT !.pc = "scan", !.client = 1]]
    BY <1>2 DEF Lock
  <2>2. Idle
    BY <1>2 DEF Lock
  <2> HIDE DEF Step, SameQuery, Idle, QueryTypeOK, UserType, Using
  <2> QED
    BY <2>1, <2>2, UserMoves
<1>3. ASSUME Scan(u)
      PROVE  /\ \/ user[u].client > NumberOfConnections /\ Step(u, "null", user[u].client)
                \/ user[u].client <= NumberOfConnections /\ pool.free[user[u].client] /\ Step(u, "claim", user[u].client)
                \/ user[u].client <= NumberOfConnections /\ ~pool.free[user[u].client] /\ Step(u, "scan", user[u].client + 1)
             /\ SameQuery(u) /\ Idle
  <2>1. CASE user[u].client > NumberOfConnections
    BY <1>3, <2>1 DEF Scan
  <2>2. CASE user[u].client <= NumberOfConnections /\ pool.free[user[u].client]
    BY <1>3, <2>2 DEF Scan
  <2>3. CASE user[u].client <= NumberOfConnections /\ ~pool.free[user[u].client]
    <3>1. user' = [user EXCEPT ![u] = [user[u] EXCEPT !.client = user[u].client + 1]]
      <4>1. ~ (user[u].client > NumberOfConnections)
        BY <2>3
      <4> HIDE DEF QueryTypeOK, UserType
      <4> QED
        BY <1>3, <2>3, <4>1 DEF Scan
    <3>2. user[u].pc = "scan" /\ UNCHANGED <<pool, wire, manager>> /\ user[u].client + 1 \in Nat
      BY <1>3 DEF Scan
    <3> QED
      BY <2>3, <3>1, <3>2
  <2> QED
    BY <2>1, <2>2, <2>3
<1> HIDE DEF Step, SameQuery, Idle, QueryTypeOK
<1> QED
  BY <1>1, <1>2, <1>3

\* Claim, Release and GivePermit: a client is taken and given back.
LEMMA HoldStep ==
  ASSUME NEW u \in User, QueryTypeOK
  PROVE  /\ Claim(u) => Step(u, "hold", user[u].client) /\ SameQuery(u) /\ Idle
         /\ Release(u) => Step(u, "up", user[u].client) /\ user'[u].result = -1 /\ user'[u].number = user[u].number /\ Idle
         /\ GivePermit(u) => Step(u, "idle", 0) /\ SameQuery(u) /\ Idle
<1> USE QueryAssumption DEF Step, SameQuery, Idle, QueryTypeOK, UserType, Using
<1>1. ASSUME Claim(u) PROVE Step(u, "hold", user[u].client) /\ SameQuery(u) /\ Idle
  <2>1. Idle
    BY <1>1 DEF Claim
  <2>2. Goto(u, "claim", "hold") /\ "hold" \in Using
    BY <1>1 DEF Claim, Using
  <2> HIDE DEF Step, SameQuery, Idle, QueryTypeOK, UserType, Using
  <2> QED
    BY <2>1, <2>2, UserGoes
<1>2. ASSUME Release(u)
      PROVE  Step(u, "up", user[u].client) /\ user'[u].result = -1 /\ user'[u].number = user[u].number /\ Idle
  <2>1. user' = [user EXCEPT ![u] = [user[u] EXCEPT !.pc = "up", !.query = "none", !.result = -1, !.answer = NoRequest]]
    BY <1>2 DEF Release
  <2> DEFINE new == [user[u] EXCEPT !.pc = "up", !.query = "none", !.result = -1, !.answer = NoRequest]
  <2>4. new \in UserType /\ new.pc = "up" /\ new.client = user[u].client /\ new.result = -1
        /\ new.number = user[u].number
    <3>1. user[u] \in UserType /\ NoRequest \in AnyRequest /\ -1 \in Int /\ "none" \in Asked \cup {"none"}
      BY DEF AnyRequest
    <3> QED
      BY <3>1
  <2>2. Step(u, "up", user[u].client) /\ user'[u].result = -1 /\ user'[u].number = user[u].number
    <3> HIDE DEF new, UserType
    <3>1. user' = [user EXCEPT ![u] = new]
      BY <2>1 DEF new
    <3> QED
      BY <2>4, <3>1
  <2>3. Idle
    BY <1>2 DEF Release
  <2> QED
    BY <2>2, <2>3
<1>3. ASSUME GivePermit(u) PROVE Step(u, "idle", 0) /\ SameQuery(u) /\ Idle
  <2>1. Step(u, "idle", 0) /\ SameQuery(u)
    <3>1. user' = [user EXCEPT ![u] = [user[u] EXCEPT !.pc = "idle", !.client = 0]]
      BY <1>3 DEF GivePermit
    <3> HIDE DEF Step, SameQuery, Idle, QueryTypeOK, UserType, Using
    <3> QED
      BY <3>1, UserMoves
  <2>2. Idle
    <3>1. pool.permits + 1 \in Nat
      OBVIOUS
    <3> QED
      BY <1>3, <3>1 DEF GivePermit
  <2> QED
    BY <2>1, <2>2
<1> HIDE DEF Step, SameQuery, Idle, QueryTypeOK
<1> QED
  BY <1>1, <1>2, <1>3

\* What a step does to a connection.
Traffic(c, buffer, sent, answer) ==
    /\ wire' \in [Client -> WireType]
    /\ \A d \in Client : d # c => wire'[d] = wire[d]
    /\ wire'[c].Buffer = buffer /\ wire'[c].sent = sent /\ wire'[c].answer = answer

\* An attempt has failed: what was sent may be acted upon later.
Failure(u) ==
    /\ Traffic(user[u].client, wire[user[u].client].Buffer, NoRequest, NoRequest)
    /\ manager' = [acted |-> manager.acted, lost |-> manager.lost \cup ({wire[user[u].client].sent} \ {NoRequest})]
    /\ user'[u].number = user[u].number /\ user'[u].result = user[u].result /\ user'[u].answer = user[u].answer
    /\ \/ Step(u, "connect", user[u].client) /\ user'[u].attempt = user[u].attempt + 1
       \/ Step(u, "hold", user[u].client)
    /\ UNCHANGED pool

\* One connection changes.
LEMMA WireUpdate ==
  ASSUME NEW c \in Client, QueryTypeOK, NEW w \in WireType, wire' = [wire EXCEPT ![c] = w]
  PROVE  Traffic(c, w.Buffer, w.sent, w.answer)
  BY DEF QueryTypeOK, Traffic

\* The request is in the buffer before the first attempt.
LEMMA PrepareStep ==
  ASSUME NEW u \in User, NEW q \in Asked, QueryTypeOK, user[u].client \in Client, Prepare(u, q)
  PROVE  /\ Step(u, "connect", user[u].client)
         /\ user'[u].number = user[u].number + 1 /\ user'[u].attempt = 1 /\ user'[u].result = -1
         /\ Traffic(user[u].client, Request(u)', wire[user[u].client].sent, wire[user[u].client].answer)
         /\ UNCHANGED <<pool, manager>>
<1> USE QueryAssumption
<1> DEFINE new == [user[u] EXCEPT !.pc = "connect", !.number = user[u].number + 1, !.query = q,
                                  !.attempt = 1, !.result = -1, !.answer = NoRequest]
<1>1. user[u] \in UserType /\ NoRequest \in AnyRequest /\ -1 \in Int /\ 1 \in 0 .. MaxAttempts
      /\ user[u].number + 1 \in Nat
  BY DEF QueryTypeOK, UserType, AnyRequest
<1>2. new \in UserType /\ new.pc = "connect" /\ new.client = user[u].client
      /\ new.number = user[u].number + 1 /\ new.attempt = 1 /\ new.result = -1
  BY <1>1 DEF UserType, Using
<1>3. user' = [user EXCEPT ![u] = new]
  BY DEF Prepare
<1> HIDE DEF new
<1>4. /\ Step(u, "connect", user[u].client)
      /\ user'[u].number = user[u].number + 1 /\ user'[u].attempt = 1 /\ user'[u].result = -1
  BY <1>2, <1>3 DEF QueryTypeOK, Step
<1>5. [sender |-> u, number |-> user[u].number + 1] = Request(u)'
  BY <1>4 DEF Request
<1>6. Request(u)' \in AnyRequest
  BY <1>1, <1>5 DEF AnyRequest, UserRequest
<1>7. wire' = [wire EXCEPT ![user[u].client].Buffer = Request(u)']
  BY <1>5 DEF Prepare
<1>8. Traffic(user[u].client, Request(u)', wire[user[u].client].sent, wire[user[u].client].answer)
  <2> DEFINE w == [wire[user[u].client] EXCEPT !.Buffer = Request(u)']
  <2>1. wire[user[u].client] \in WireType
    BY DEF QueryTypeOK
  <2>2. w \in WireType /\ w.Buffer = Request(u)' /\ w.sent = wire[user[u].client].sent
        /\ w.answer = wire[user[u].client].answer
    BY <1>6, <2>1 DEF WireType
  <2>3. wire' = [wire EXCEPT ![user[u].client] = w]
    BY <1>7
  <2> HIDE DEF w
  <2> QED
    BY <2>2, <2>3, WireUpdate
<1> QED
  BY <1>4, <1>8 DEF Prepare

\* A connection that is closed or opened anew has nothing under way.
LEMMA FreshWire ==
  ASSUME NEW w \in WireType
  PROVE  /\ disconnect(w) \in WireType /\ Fresh(w.Buffer) \in WireType
         /\ disconnect(w).Buffer = w.Buffer /\ Fresh(w.Buffer).Buffer = w.Buffer
         /\ disconnect(w).sent = NoRequest /\ Fresh(w.Buffer).sent = NoRequest
         /\ disconnect(w).answer = NoRequest /\ Fresh(w.Buffer).answer = NoRequest
<1>1. w.Buffer \in AnyRequest /\ NoData \in Answer
  BY DEF WireType, NoData, Answer
<1> QED
  BY <1>1 DEF WireType, disconnect, Fresh

\* A new connection is as good as the old one: the request is still in the buffer.
LEMMA ConnectStep ==
  ASSUME NEW u \in User, QueryTypeOK, user[u].client \in Client, Connect(u)
  PROVE  /\ Step(u, "write", user[u].client) \/ Step(u, "hold", user[u].client)
         /\ SameQuery(u)
         /\ \/ UNCHANGED wire
            \/ Traffic(user[u].client, wire[user[u].client].Buffer, NoRequest, NoRequest)
         /\ UNCHANGED <<pool, manager>>
<1> DEFINE c == user[u].client
<1>1. (Step(u, "write", c) \/ Step(u, "hold", c)) /\ SameQuery(u)
  <2>0. PICK pc \in {"write", "hold"} : user' = [user EXCEPT ![u].pc = pc]
    BY DEF Connect
  <2> DEFINE n == [user[u] EXCEPT !.pc = pc]
  <2>1. n \in UserType /\ n.pc \in {"write", "hold"} /\ n.client = c /\ n.number = user[u].number
        /\ n.attempt = user[u].attempt /\ n.result = user[u].result /\ n.answer = user[u].answer
    <3>1. user[u] \in UserType
      BY DEF QueryTypeOK
    <3> QED
      BY <3>1 DEF UserType, Using
  <2>2. user' = [user EXCEPT ![u] = n]
    BY <2>0
  <2> HIDE DEF n, c
  <2>3. Step(u, n.pc, n.client) /\ user'[u] = n
    BY <2>1, <2>2, UserUpdate
  <2> QED
    BY <2>1, <2>3 DEF SameQuery
<1>2. wire[c] \in WireType
  BY DEF QueryTypeOK
<1>3. UNCHANGED wire \/ Traffic(c, wire[c].Buffer, NoRequest, NoRequest)
  <2>1. ASSUME NEW w \in Reconnect(wire[c]), wire' = [wire EXCEPT ![c] = w]
        PROVE  Traffic(c, wire[c].Buffer, NoRequest, NoRequest)
    <3>1. w \in WireType /\ w.Buffer = wire[c].Buffer /\ w.sent = NoRequest /\ w.answer = NoRequest
      BY <1>2, FreshWire DEF Reconnect
    <3> HIDE DEF c
    <3>2. c \in Client
      BY DEF c
    <3> QED
      BY <2>1, <3>1, <3>2, WireUpdate
  <2> QED
    BY <2>1 DEF Connect
<1> QED
  BY <1>1, <1>3 DEF Connect

\* The connection is closed, and another attempt made or none.
LEMMA FailureStep ==
  ASSUME NEW u \in User, QueryTypeOK, user[u].client \in Client, Hangup(user[u].client),
         Again(u) \/ user' = [user EXCEPT ![u].pc = "hold"], UNCHANGED pool
  PROVE  Failure(u)
<1> DEFINE c == user[u].client
<1>1. wire[c] \in WireType /\ user[u] \in UserType /\ c \in Client
  BY DEF QueryTypeOK
<1>2. Traffic(c, wire[c].Buffer, NoRequest, NoRequest)
  <2>1. wire' = [wire EXCEPT ![c] = disconnect(wire[c])]
    BY DEF Hangup
  <2> HIDE DEF c
  <2> QED
    BY <1>1, <2>1, WireUpdate, FreshWire
<1>3. manager' = [acted |-> manager.acted, lost |-> manager.lost \cup ({wire[c].sent} \ {NoRequest})]
  BY DEF Hangup, QueryTypeOK
<1>4. CASE user[u].attempt < MaxAttempts /\ Again(u)
  <2> DEFINE n == [user[u] EXCEPT !.pc = "connect", !.attempt = user[u].attempt + 1]
  <2>1. user[u].attempt + 1 \in 0 .. MaxAttempts
    BY <1>1, <1>4, QueryAssumption DEF UserType
  <2>2. n \in UserType /\ n.pc = "connect" /\ n.client = c /\ n.number = user[u].number
        /\ n.attempt = user[u].attempt + 1 /\ n.result = user[u].result /\ n.answer = user[u].answer
    BY <1>1, <2>1 DEF UserType, Using
  <2>3. user' = [user EXCEPT ![u] = n]
    BY <1>4 DEF Again
  <2> HIDE DEF n
  <2>4. Step(u, "connect", c) /\ user'[u] = n
    BY <2>2, <2>3, UserUpdate
  <2> QED
    BY <1>2, <1>3, <2>2, <2>4 DEF Failure
<1>5. CASE user' = [user EXCEPT ![u].pc = "hold"]
  <2> DEFINE n == [user[u] EXCEPT !.pc = "hold"]
  <2>2. n \in UserType /\ n.pc = "hold" /\ n.client = c /\ n.number = user[u].number
        /\ n.result = user[u].result /\ n.answer = user[u].answer
    BY <1>1 DEF UserType, Using
  <2>3. user' = [user EXCEPT ![u] = n]
    BY <1>5
  <2> HIDE DEF n
  <2>4. Step(u, "hold", c) /\ user'[u] = n
    BY <2>2, <2>3, UserUpdate
  <2> QED
    BY <1>2, <1>3, <2>2, <2>4 DEF Failure
<1> QED
  BY <1>4, <1>5 DEF Again

\* The request goes out, or the attempt fails.
LEMMA WriteStep ==
  ASSUME NEW u \in User, QueryTypeOK, user[u].client \in Client,
         wire[user[u].client].Buffer = Request(u), Write(u)
  PROVE  \/ /\ Step(u, "head", user[u].client) /\ SameQuery(u)
            /\ Traffic(user[u].client, Request(u), Request(u), wire[user[u].client].answer)
            /\ UNCHANGED <<pool, manager>>
         \/ Failure(u)
<1> DEFINE c == user[u].client
<1>1. wire[c] \in WireType /\ user[u] \in UserType /\ c \in Client
  BY DEF QueryTypeOK
<1>2. CASE Hangup(c) /\ Again(u)
  BY <1>2, FailureStep DEF Write
<1>3. CASE /\ wire' = [wire EXCEPT ![c].sent = wire[c].Buffer]
           /\ user' = [user EXCEPT ![u].pc = "head"]
           /\ UNCHANGED <<pool, manager>>
  <2> DEFINE n == [user[u] EXCEPT !.pc = "head"]
  <2> DEFINE w == [wire[c] EXCEPT !.sent = Request(u)]
  <2>1. Request(u) \in UserRequest
    BY <1>1 DEF UserType, UserRequest, Request
  <2>2. n \in UserType /\ n.pc = "head" /\ n.client = c /\ n.number = user[u].number
        /\ n.attempt = user[u].attempt /\ n.result = user[u].result /\ n.answer = user[u].answer
    BY <1>1 DEF UserType, Using
  <2>3. w \in WireType /\ w.Buffer = Request(u) /\ w.sent = Request(u) /\ w.answer = wire[c].answer
    BY <1>1, <2>1 DEF WireType
  <2>4. user' = [user EXCEPT ![u] = n] /\ wire' = [wire EXCEPT ![c] = w]
    BY <1>3
  <2> HIDE DEF n, w, c
  <2>5. Step(u, "head", c) /\ user'[u] = n
    BY <2>2, <2>4, UserUpdate
  <2>6. Traffic(c, Request(u), Request(u), wire[c].answer)
    BY <1>1, <2>3, <2>4, WireUpdate
  <2> QED
    BY <1>3, <2>2, <2>5, <2>6 DEF SameQuery, c
<1> QED
  BY <1>2, <1>3 DEF Write

\* The length of the answer is read, or the attempt fails.
LEMMA ReadHeadStep ==
  ASSUME NEW u \in User, QueryTypeOK, user[u].client \in Client, ReadHead(u)
  PROVE  \/ /\ Step(u, "data", user[u].client) /\ SameQuery(u)
            /\ Traffic(user[u].client, wire[user[u].client].Buffer, wire[user[u].client].sent, wire[user[u].client].answer)
            /\ UNCHANGED <<pool, manager>>
         \/ Failure(u)
<1> DEFINE c == user[u].client
<1>1. wire[c] \in WireType /\ user[u] \in UserType /\ c \in Client
  BY DEF QueryTypeOK
<1>2. CASE Hangup(c) /\ (Again(u) \/ user' = [user EXCEPT ![u].pc = "hold"])
  BY <1>2, FailureStep DEF ReadHead
<1>3. CASE /\ wire' = [wire EXCEPT ![c].head = FALSE]
           /\ user' = [user EXCEPT ![u].pc = "data"]
           /\ UNCHANGED <<pool, manager>>
  <2> DEFINE n == [user[u] EXCEPT !.pc = "data"]
  <2> DEFINE w == [wire[c] EXCEPT !.head = FALSE]
  <2>2. n \in UserType /\ n.pc = "data" /\ n.client = c /\ n.number = user[u].number
        /\ n.attempt = user[u].attempt /\ n.result = user[u].result /\ n.answer = user[u].answer
    BY <1>1 DEF UserType, Using
  <2>3. w \in WireType /\ w.Buffer = wire[c].Buffer /\ w.sent = wire[c].sent /\ w.answer = wire[c].answer
    BY <1>1 DEF WireType
  <2>4. user' = [user EXCEPT ![u] = n] /\ wire' = [wire EXCEPT ![c] = w]
    BY <1>3
  <2> HIDE DEF n, w, c
  <2>5. Step(u, "data", c) /\ user'[u] = n
    BY <2>2, <2>4, UserUpdate
  <2>6. Traffic(c, wire[c].Buffer, wire[c].sent, wire[c].answer)
    BY <1>1, <2>3, <2>4, WireUpdate
  <2> QED
    BY <1>3, <2>2, <2>5, <2>6 DEF SameQuery, c
<1> QED
  BY <1>2, <1>3 DEF ReadHead

\* The answer is read, or the query fails.
LEMMA ReadDataStep ==
  ASSUME NEW u \in User, QueryTypeOK, user[u].client \in Client, ReadData(u)
  PROVE  \/ /\ Step(u, "hold", user[u].client)
            /\ wire[user[u].client].answer # NoRequest
            /\ user'[u].number = user[u].number /\ user'[u].answer = wire[user[u].client].answer
            /\ Traffic(user[u].client, wire[user[u].client].Buffer, wire[user[u].client].sent, NoRequest)
            /\ UNCHANGED <<pool, manager>>
         \/ Failure(u)
<1> DEFINE c == user[u].client
<1>1. wire[c] \in WireType /\ user[u] \in UserType /\ c \in Client
  BY DEF QueryTypeOK
<1>2. CASE Hangup(c) /\ user' = [user EXCEPT ![u].pc = "hold"]
  BY <1>2, FailureStep DEF ReadData
<1>3. CASE /\ wire[c].answer # NoRequest
           /\ wire' = [wire EXCEPT ![c] = [wire[c] EXCEPT !.answer = NoRequest, !.data = NoData]]
           /\ user' = [user EXCEPT ![u] = [user[u] EXCEPT !.pc = "hold", !.answer = wire[c].answer,
                                                   !.result = Decode(user[u].query, wire[c].data)]]
           /\ UNCHANGED <<pool, manager>>
  <2> DEFINE n == [user[u] EXCEPT !.pc = "hold", !.answer = wire[c].answer, !.result = Decode(user[u].query, wire[c].data)]
  <2> DEFINE w == [wire[c] EXCEPT !.answer = NoRequest, !.data = NoData]
  <2>1. Decode(user[u].query, wire[c].data) \in Int
    <3>1. wire[c].data.code \in Int
      BY <1>1 DEF WireType, Answer
    <3> QED
      BY <3>1 DEF Decode
  <2>2. n \in UserType /\ n.pc = "hold" /\ n.client = c /\ n.number = user[u].number /\ n.answer = wire[c].answer
    <3>1. wire[c].answer \in AnyRequest
      BY <1>1 DEF WireType, AnyRequest
    <3> QED
      BY <1>1, <2>1, <3>1 DEF UserType, Using
  <2>3. w \in WireType /\ w.Buffer = wire[c].Buffer /\ w.sent = wire[c].sent /\ w.answer = NoRequest
    <3>1. NoData \in Answer
      BY DEF NoData, Answer
    <3> QED
      BY <1>1, <3>1 DEF WireType
  <2>4. user' = [user EXCEPT ![u] = n] /\ wire' = [wire EXCEPT ![c] = w]
    BY <1>3
  <2> HIDE DEF n, w, c
  <2>5. Step(u, "hold", c) /\ user'[u] = n
    BY <2>2, <2>4, UserUpdate
  <2>6. Traffic(c, wire[c].Buffer, wire[c].sent, NoRequest)
    BY <1>1, <2>3, <2>4, WireUpdate
  <2> QED
    BY <1>3, <2>2, <2>5, <2>6 DEF c
<1> QED
  BY <1>2, <1>3 DEF ReadData

\* The manager answers the request that is on its way.
LEMMA ServeStep ==
  ASSUME NEW c \in Client, QueryTypeOK, Serve(c)
  PROVE  /\ wire[c].sent \in UserRequest /\ wire[c].sent # NoRequest
         /\ Traffic(c, wire[c].Buffer, NoRequest, wire[c].sent)
         /\ manager' = [acted |-> Act(wire[c].sent), lost |-> manager.lost]
         /\ UNCHANGED <<pool, user>>
<1>1. wire[c] \in WireType /\ wire[c].sent \in UserRequest /\ wire[c].sent # NoRequest
  BY DEF QueryTypeOK, Serve, WireType
<1>2. PICK a \in Answers(Asks(wire[c].sent)) :
        /\ wire' = [wire EXCEPT ![c] = [wire[c] EXCEPT !.sent = NoRequest, !.head = TRUE, !.answer = wire[c].sent, !.data = a]]
        /\ manager' = [manager EXCEPT !.acted = Act(wire[c].sent)]
  BY DEF Serve
<1>3. a \in Answer
  BY QueryAssumption DEF Answers, Answer
<1> DEFINE w == [wire[c] EXCEPT !.sent = NoRequest, !.head = TRUE, !.answer = wire[c].sent, !.data = a]
<1>4. w \in WireType /\ w.Buffer = wire[c].Buffer /\ w.sent = NoRequest /\ w.answer = wire[c].sent
  BY <1>1, <1>3 DEF WireType
<1>5. Traffic(c, wire[c].Buffer, NoRequest, wire[c].sent)
  <2>1. wire' = [wire EXCEPT ![c] = w]
    BY <1>2
  <2> HIDE DEF w
  <2> QED
    BY <1>4, <2>1, WireUpdate
<1>6. manager' = [acted |-> Act(wire[c].sent), lost |-> manager.lost]
  <2>1. manager = [acted |-> manager.acted, lost |-> manager.lost]
    BY DEF QueryTypeOK
  <2> QED
    BY <1>2, <2>1
<1> QED
  BY <1>1, <1>5, <1>6 DEF Serve

\* A request that was given up is acted upon or not.
LEMMA ServeLostStep ==
  ASSUME NEW r, QueryTypeOK, ServeLost(r)
  PROVE  /\ r \in UserRequest /\ r \in manager.lost
         /\ \/ manager' = [acted |-> manager.acted, lost |-> manager.lost \ {r}]
            \/ manager' = [acted |-> Act(r), lost |-> manager.lost \ {r}]
         /\ UNCHANGED <<pool, user, wire>>
<1>1. manager = [acted |-> manager.acted, lost |-> manager.lost] /\ manager.lost \subseteq UserRequest
  BY DEF QueryTypeOK
<1> QED
  BY <1>1 DEF ServeLost

-----------------------------------------------------------------------------
(* A client has one user.                                                  *)

\* The threads with a permit can be counted.
LEMMA BusyFinite == IsFiniteSet(Busy) /\ Cardinality(Busy) \in Nat
<1>1. Busy \subseteq User
  BY DEF Busy
<1> QED
  BY <1>1, QueryAssumption, FS_Subset, FS_CardinalityType

\* A step that hands out no client and gives none back.
LEMMA OwnershipKept ==
  ASSUME QueryTypeOK, Ownership, UNCHANGED pool, NEW u \in User, NEW pc \in Using,
         user[u].pc \in Using, Step(u, pc, user[u].client)
  PROVE  Ownership'
<1> USE DEF Step
<1>1. \A v \in User : /\ user'[v].client = user[v].client
                      /\ user'[v].pc = user[v].pc \/ (user[v].pc \in Using /\ user'[v].pc \in Using)
  OBVIOUS
<1> HIDE DEF Step
<1>2. Busy' = Busy
  BY <1>1 DEF Busy, Using
<1>3. \A v \in User : Holds(v)' <=> Holds(v)
  BY <1>1 DEF Holds
<1>4. Permits'
  BY <1>2 DEF Ownership, Permits
<1>5. Mutex'
  BY <1>1 DEF Ownership, Mutex, Using
<1>6. Clients'
  BY <1>1, <1>3 DEF Ownership, Clients
<1>7. Search'
  BY <1>1 DEF Ownership, Search, Using
<1> QED
  BY <1>4, <1>5, <1>6, <1>7 DEF Ownership

\* FreeQueryManagerConnections.down: a permit is taken.
LEMMA TakePermitOwnership ==
  ASSUME QueryTypeOK, Ownership, NEW u \in User, TakePermit(u)
  PROVE  Ownership'
<1>1. Step(u, "lock", user[u].client) /\ user[u].pc = "idle" /\ pool.permits > 0
      /\ pool' = [pool EXCEPT !.permits = pool.permits - 1]
  BY SearchStep DEF TakePermit, Goto
<1>2. pool'.permits = pool.permits - 1 /\ pool'.mutex = pool.mutex /\ pool'.free = pool.free
  BY <1>1 DEF QueryTypeOK
<1>3. \A v \in User : Holds(v)' <=> Holds(v)
  BY <1>1 DEF Step, Holds, Using
<1>4. Permits'
  <2>1. Busy' = Busy \cup {u} /\ u \notin Busy
    BY <1>1 DEF Busy, Step
  <2>2. Cardinality(Busy') = Cardinality(Busy) + 1
    BY <2>1, BusyFinite, FS_AddElement
  <2> QED
    BY <1>2, <2>2, BusyFinite, QueryAssumption DEF Ownership, Permits, QueryTypeOK
<1>5. Mutex'
  BY <1>1, <1>2 DEF Ownership, Mutex, Step
<1>6. Clients'
  BY <1>1, <1>2, <1>3 DEF Ownership, Clients, Step
<1>7. Search'
  BY <1>1, <1>2 DEF Ownership, Search, Step
<1> QED
  BY <1>4, <1>5, <1>6, <1>7 DEF Ownership

\* With a permit there is a free client: the other permits are too few for all.
LEMMA FreeClient ==
  ASSUME QueryTypeOK, Ownership, NEW u \in User, user[u].pc = "lock"
  PROVE  \E d \in Client : pool.free[d]
<1> SUFFICES ASSUME \A d \in Client : ~pool.free[d] PROVE FALSE
  OBVIOUS
<1> DEFINE H == {v \in User : Holds(v)}
<1> DEFINE f == [d \in Client |-> CHOOSE v \in User : Holds(v) /\ user[v].client = d]
<1>1. \A d \in Client : f[d] \in User /\ Holds(f[d]) /\ user[f[d]].client = d
  BY DEF Ownership, Clients
<1>2. f \in [Client -> H]
  BY <1>1
<1>3. IsFiniteSet(Client) /\ Cardinality(Client) = NumberOfConnections
  BY FS_Interval, QueryAssumption DEF Client
<1>4. IsFiniteSet(H) /\ Cardinality(H) < NumberOfConnections
  <2>1. H \subseteq Busy \ {u} /\ u \in Busy
    BY DEF Holds, Using, Busy
  <2>2. IsFiniteSet(Busy \ {u}) /\ Cardinality(Busy \ {u}) = Cardinality(Busy) - 1
    BY <2>1, BusyFinite, FS_RemoveElement
  <2>3. IsFiniteSet(H) /\ Cardinality(H) <= Cardinality(Busy) - 1 /\ Cardinality(H) \in Nat
    <3> HIDE DEF H
    <3> QED
      BY <2>1, <2>2, FS_Subset, FS_CardinalityType
  <2> QED
    BY <2>3, BusyFinite, QueryAssumption DEF Ownership, Permits, QueryTypeOK
<1>5. PICK c \in Client, d \in Client : c # d /\ f[c] = f[d]
  <2> HIDE DEF f, H
  <2> QED
    BY <1>2, <1>3, <1>4, FS_PigeonHole
<1> QED
  BY <1>1, <1>5

\* The search begins with the first client.
LEMMA LockOwnership ==
  ASSUME QueryTypeOK, Ownership, NEW u \in User, Lock(u)
  PROVE  Ownership'
<1>1. Step(u, "scan", 1) /\ user[u].pc = "lock" /\ pool.mutex = NoUser
      /\ pool' = [pool EXCEPT !.mutex = u]
  BY SearchStep DEF Lock
<1>2. pool'.permits = pool.permits /\ pool'.mutex = u /\ pool'.free = pool.free
  BY <1>1 DEF QueryTypeOK
<1>3. \A v \in User : (Holds(v)' <=> Holds(v)) /\ (Holds(v) => v # u)
  BY <1>1 DEF Step, Holds, Using
<1>4. Permits'
  <2>1. Busy' = Busy
    BY <1>1 DEF Busy, Step
  <2> QED
    BY <1>2, <2>1 DEF Ownership, Permits
<1>5. Mutex'
  BY <1>1, <1>2, QueryAssumption DEF Ownership, Mutex, Step
<1>6. Clients'
  BY <1>1, <1>2, <1>3 DEF Ownership, Clients, Step
<1>7. Search'
  <2>1. PICK d \in Client : pool.free[d]
    BY <1>1, FreeClient
  <2>2. d >= 1
    BY DEF Client
  <2> QED
    BY <1>1, <1>2, <2>1, <2>2 DEF Ownership, Search, Step
<1> QED
  BY <1>4, <1>5, <1>6, <1>7 DEF Ownership

\* The search goes on, or has found a client.
LEMMA ScanOwnership ==
  ASSUME QueryTypeOK, Ownership, NEW u \in User, Scan(u)
  PROVE  Ownership'
<1> DEFINE c == user[u].client
<1>1. user[u].pc = "scan" /\ UNCHANGED pool
  BY DEF Scan
<1>2. PICK d \in Client : d >= c /\ pool.free[d]
  BY <1>1 DEF Ownership, Search
<1>3. \/ c <= NumberOfConnections /\ pool.free[c] /\ Step(u, "claim", c)
      \/ c <= NumberOfConnections /\ ~pool.free[c] /\ Step(u, "scan", c + 1)
  <2>1. c <= NumberOfConnections
    BY <1>2, QueryAssumption DEF Client, QueryTypeOK, UserType
  <2>2. ~ (c > NumberOfConnections)
    BY <2>1, QueryAssumption DEF QueryTypeOK, UserType
  <2> QED
    BY <2>2, SearchStep
<1>4. \A v \in User : (Holds(v)' <=> Holds(v)) /\ (Holds(v) => v # u)
  BY <1>1, <1>3 DEF Step, Holds, Using
<1>5. Permits'
  <2>1. Busy' = Busy
    BY <1>1, <1>3 DEF Busy, Step
  <2> QED
    BY <1>1, <2>1 DEF Ownership, Permits
<1>6. Mutex'
  BY <1>1, <1>3 DEF Ownership, Mutex, Step
<1>7. Clients'
  <2>1. \A v \in User : Holds(v) => user'[v] = user[v]
    BY <1>3, <1>4 DEF Step
  <2> QED
    BY <1>1, <1>4, <2>1 DEF Ownership, Clients
<1>8. CASE pool.free[c] /\ Step(u, "claim", c)
  <2>1. c \in Client
    <3>1. c >= 1
      BY <1>1 DEF Ownership, Search
    <3> QED
      BY <1>3, <3>1, QueryAssumption DEF QueryTypeOK, UserType, Client
  <2> QED
    BY <1>1, <1>5, <1>6, <1>7, <1>8, <2>1 DEF Ownership, Search, Step
<1>9. CASE ~pool.free[c] /\ Step(u, "scan", c + 1)
  <2>1. d >= c + 1 /\ c + 1 >= 1
    BY <1>2, <1>9 DEF Client, QueryTypeOK, UserType
  <2>2. Search'
    BY <1>1, <1>2, <1>9, <2>1 DEF Ownership, Search, Step
  <2> QED
    BY <1>5, <1>6, <1>7, <2>2 DEF Ownership
<1> QED
  BY <1>3, <1>8, <1>9

\* The flag that was found up is still up: the thread has the mutex.
LEMMA ClaimOwnership ==
  ASSUME QueryTypeOK, Ownership, NEW u \in User, Claim(u)
  PROVE  Ownership'
<1> DEFINE c == user[u].client
<1>1. Step(u, "hold", c) /\ user[u].pc = "claim"
      /\ pool' = [pool EXCEPT !.free[c] = FALSE, !.mutex = NoUser]
  BY HoldStep DEF Claim, Goto
<1>2. c \in Client /\ pool.free[c]
  BY <1>1 DEF Ownership, Search
<1>3. /\ pool'.permits = pool.permits /\ pool'.mutex = NoUser
      /\ pool'.free = [pool.free EXCEPT ![c] = FALSE] /\ pool.free \in [Client -> BOOLEAN]
  BY <1>1 DEF QueryTypeOK
<1>4. \A v \in User : (v # u => (Holds(v)' <=> Holds(v)) /\ user'[v] = user[v]) /\ (Holds(v) => v # u)
  BY <1>1 DEF Step, Holds, Using
<1>5. Holds(u)' /\ user'[u].client = c
  BY <1>1 DEF Step, Holds, Using
<1>6. Permits'
  <2>1. Busy' = Busy
    BY <1>1 DEF Busy, Step
  <2> QED
    BY <1>3, <2>1 DEF Ownership, Permits
<1>7. Mutex'
  BY <1>1, <1>3, QueryAssumption DEF Ownership, Mutex, Step
<1>8. Clients'
  <2> HIDE DEF c
  <2>1. \A v \in User : Holds(v) => user[v].client # c
    BY <1>2 DEF Ownership, Clients
  <2>2. \A v \in User : Holds(v)' => user'[v].client \in Client /\ ~pool'.free[user'[v].client]
    BY <1>2, <1>3, <1>4, <1>5 DEF Ownership, Clients
  <2>3. ASSUME NEW d \in Client, ~pool'.free[d] PROVE \E v \in User : Holds(v)' /\ user'[v].client = d
    <3>1. CASE d = c
      BY <3>1, <1>5
    <3>2. CASE d # c
      <4>1. PICK v \in User : Holds(v) /\ user[v].client = d
        BY <2>3, <3>2, <1>3 DEF Ownership, Clients
      <4> QED
        BY <4>1, <1>4
    <3> QED
      BY <3>1, <3>2
  <2>4. \A v, w \in User : Holds(v)' /\ Holds(w)' /\ user'[v].client = user'[w].client => v = w
    BY <2>1, <1>4, <1>5 DEF Ownership, Clients
  <2> QED
    BY <2>2, <2>3, <2>4 DEF Clients
<1>9. Search'
  <2>1. \A v \in User : v # u => user[v].pc \notin {"scan", "claim"}
    BY <1>1 DEF Ownership, Mutex
  <2> QED
    BY <1>1, <2>1 DEF Ownership, Search, Step
<1> QED
  BY <1>6, <1>7, <1>8, <1>9 DEF Ownership

\* releaseConnection sets a flag, which hurts no search.
LEMMA ReleaseOwnership ==
  ASSUME QueryTypeOK, Ownership, NEW u \in User, Release(u)
  PROVE  Ownership'
<1> DEFINE c == user[u].client
<1>1. Step(u, "up", c) /\ user[u].pc = "hold" /\ pool' = [pool EXCEPT !.free[c] = TRUE]
  BY HoldStep DEF Release
<1>2. c \in Client /\ ~pool.free[c] /\ Holds(u)
  BY <1>1 DEF Ownership, Clients, Holds, Using
<1>3. /\ pool'.permits = pool.permits /\ pool'.mutex = pool.mutex
      /\ pool'.free = [pool.free EXCEPT ![c] = TRUE] /\ pool.free \in [Client -> BOOLEAN]
  BY <1>1 DEF QueryTypeOK
<1>4. \A v \in User : v # u => (Holds(v)' <=> Holds(v)) /\ user'[v] = user[v]
  BY <1>1 DEF Step, Holds
<1>5. ~Holds(u)'
  BY <1>1 DEF Step, Holds, Using
<1>6. Permits'
  <2>1. Busy' = Busy
    BY <1>1 DEF Busy, Step
  <2> QED
    BY <1>3, <2>1 DEF Ownership, Permits
<1>7. Mutex'
  BY <1>1, <1>3 DEF Ownership, Mutex, Step
<1>8. Clients'
  <2> HIDE DEF c
  <2>1. \A v \in User : v # u /\ Holds(v) => user[v].client # c
    BY <1>2 DEF Ownership, Clients, c
  <2>2. \A v \in User : Holds(v)' => user'[v].client \in Client /\ ~pool'.free[user'[v].client]
    BY <1>3, <1>4, <1>5, <2>1 DEF Ownership, Clients
  <2>3. ASSUME NEW d \in Client, ~pool'.free[d] PROVE \E v \in User : Holds(v)' /\ user'[v].client = d
    <3>1. d # c /\ ~pool.free[d]
      BY <2>3, <1>3
    <3>2. PICK v \in User : Holds(v) /\ user[v].client = d
      BY <3>1 DEF Ownership, Clients
    <3>3. v # u
      BY <3>1, <3>2 DEF c
    <3> QED
      BY <3>2, <3>3, <1>4
  <2>4. \A v, w \in User : Holds(v)' /\ Holds(w)' /\ user'[v].client = user'[w].client => v = w
    BY <1>4, <1>5 DEF Ownership, Clients
  <2> QED
    BY <2>2, <2>3, <2>4 DEF Clients
<1>9. Search'
  <2>1. \A d \in Client : pool.free[d] => pool'.free[d]
    BY <1>3
  <2> QED
    BY <1>1, <2>1 DEF Ownership, Search, Step
<1> QED
  BY <1>6, <1>7, <1>8, <1>9 DEF Ownership

\* FreeQueryManagerConnections.up: the permit is given back after the client.
LEMMA GivePermitOwnership ==
  ASSUME QueryTypeOK, Ownership, NEW u \in User, GivePermit(u)
  PROVE  Ownership'
<1>1. Step(u, "idle", 0) /\ user[u].pc = "up" /\ pool' = [pool EXCEPT !.permits = pool.permits + 1]
  BY HoldStep DEF GivePermit
<1>2. pool'.permits = pool.permits + 1 /\ pool'.mutex = pool.mutex /\ pool'.free = pool.free
  BY <1>1 DEF QueryTypeOK
<1>3. \A v \in User : (Holds(v)' <=> Holds(v)) /\ (Holds(v) => v # u)
  BY <1>1 DEF Step, Holds, Using
<1>4. Permits'
  <2>1. Busy' = Busy \ {u} /\ u \in Busy
    BY <1>1 DEF Busy, Step
  <2>2. Cardinality(Busy') = Cardinality(Busy) - 1
    BY <2>1, BusyFinite, FS_RemoveElement
  <2> QED
    BY <1>2, <2>2, BusyFinite, QueryAssumption DEF Ownership, Permits, QueryTypeOK
<1>5. Mutex'
  BY <1>1, <1>2 DEF Ownership, Mutex, Step
<1>6. Clients'
  BY <1>1, <1>2, <1>3 DEF Ownership, Clients, Step
<1>7. Search'
  BY <1>1, <1>2 DEF Ownership, Search, Step
<1> QED
  BY <1>4, <1>5, <1>6, <1>7 DEF Ownership

-----------------------------------------------------------------------------
(* An answer belongs to its request.                                       *)

\* The state before a step of a thread that has a client.
LEMMA OthersHaveOthers ==
  ASSUME QueryTypeOK, Ownership, NEW u \in User, Holds(u), NEW v \in User, v # u, Holds(v)
  PROVE  user[v].client \in Client /\ user[v].client # user[u].client
  BY DEF Ownership, Clients

\* A thread that gets or gives back a client touches no connection.
LEMMA ExchangeIdle ==
  ASSUME QueryTypeOK, Exchange, NEW u \in User, NEW pc, NEW c, Step(u, pc, c), UNCHANGED <<wire, manager>>,
         pc \notin Asking, user[u].pc \notin Asking,
         user'[u].number = user[u].number, user'[u].result = -1
  PROVE  Exchange'
<1> USE DEF Step, Asking, Sent
<1>1. Quiet'
  BY DEF Exchange, Quiet
<1>2. \A v \in User : Request(v)' = Request(v)
  BY DEF Request
<1>3. OwnRequest'
  BY <1>2 DEF Exchange, OwnRequest
<1>4. OwnAnswer'
  BY <1>2 DEF Exchange, OwnAnswer
<1> QED
  BY <1>1, <1>3, <1>4 DEF Exchange

\* A thread uses the connection of its client, and nobody else does.
LEMMA ExchangeBusy ==
  ASSUME QueryTypeOK, Ownership, Exchange, NEW u \in User, Holds(u), NEW pc \in Using,
         Step(u, pc, user[u].client), NEW b, NEW s, NEW a, Traffic(user[u].client, b, s, a),
         s = NoRequest \/ a = NoRequest,
         s # NoRequest \/ a # NoRequest => pc \in Sent,
         pc \in Asking => b = Request(u)' /\ user'[u].attempt >= 1,
         pc \in Sent => s \in {NoRequest, Request(u)'} /\ a \in {NoRequest, Request(u)'},
         pc # "hold" => user'[u].result = -1,
         pc = "hold" /\ user'[u].result # -1 => user'[u].answer = Request(u)'
  PROVE  Exchange'
<1> DEFINE c == user[u].client
<1>1. c \in Client
  BY DEF Ownership, Clients
<1>2. /\ user'[u].pc = pc /\ user'[u].client = c
      /\ \A v \in User : v # u => user'[v] = user[v] /\ Request(v)' = Request(v)
  BY DEF Step, Request
<1>3. /\ wire'[c].Buffer = b /\ wire'[c].sent = s /\ wire'[c].answer = a
      /\ \A d \in Client : d # c => wire'[d] = wire[d]
  BY DEF Traffic
<1>4. Quiet'
  <2>1. ASSUME NEW d \in Client
        PROVE  /\ wire'[d].sent = NoRequest \/ wire'[d].answer = NoRequest
               /\ wire'[d].sent # NoRequest \/ wire'[d].answer # NoRequest
                     => \E v \in User : user'[v].pc \in Sent /\ user'[v].client = d
    <3>1. CASE d = c
      BY <3>1, <1>2, <1>3
    <3>2. CASE d # c
      <4>1. wire'[d] = wire[d]
        BY <3>2, <1>3
      <4>2. ASSUME NEW v \in User, user[v].pc \in Sent, user[v].client = d
            PROVE  user'[v].pc \in Sent /\ user'[v].client = d
        BY <3>2, <4>2, <1>2
      <4> QED
        BY <4>1, <4>2 DEF Exchange, Quiet
    <3> QED
      BY <3>1, <3>2
  <2> QED
    BY <2>1 DEF Quiet
<1>5. OwnRequest'
  <2>1. ASSUME NEW v \in User
        PROVE  /\ user'[v].pc \in Asking => /\ wire'[user'[v].client].Buffer = Request(v)'
                                            /\ user'[v].attempt >= 1
               /\ user'[v].pc \in Sent => /\ wire'[user'[v].client].sent \in {NoRequest, Request(v)'}
                                          /\ wire'[user'[v].client].answer \in {NoRequest, Request(v)'}
    <3>1. CASE v = u
      BY <3>1, <1>2, <1>3
    <3>2. CASE v # u /\ Holds(v)
      <4>1. user[v].client \in Client /\ user[v].client # c
        BY <3>2, OthersHaveOthers
      <4>2. wire'[user[v].client] = wire[user[v].client]
        BY <4>1, <1>3
      <4> QED
        BY <3>2, <4>2, <1>2 DEF Exchange, OwnRequest
    <3>3. CASE v # u /\ ~Holds(v)
      <4>1. user[v].pc \notin Asking /\ user[v].pc \notin Sent
        BY <3>3 DEF Holds, Using, Asking, Sent
      <4> QED
        BY <3>3, <4>1, <1>2
    <3> QED
      BY <3>1, <3>2, <3>3
  <2> QED
    BY <2>1 DEF OwnRequest
<1>6. OwnAnswer'
  BY <1>2 DEF Exchange, OwnAnswer
<1> QED
  BY <1>4, <1>5, <1>6 DEF Exchange

\* The manager answers what was sent, on the connection on which it was sent.
LEMMA ServeExchange ==
  ASSUME QueryTypeOK, Ownership, Exchange, NEW c \in Client, Serve(c)
  PROVE  Exchange'
<1>1. /\ wire[c].sent # NoRequest /\ Traffic(c, wire[c].Buffer, NoRequest, wire[c].sent)
      /\ UNCHANGED <<pool, user>>
  BY ServeStep
<1>2. \A v \in User : Request(v)' = Request(v)
  BY <1>1 DEF Request
<1>3. Quiet'
  BY <1>1 DEF Exchange, Quiet, Traffic
<1>4. OwnRequest'
  <2>1. ASSUME NEW v \in User, user[v].pc \in Asking
        PROVE  wire'[user[v].client].Buffer = Request(v) /\ user[v].attempt >= 1
    <3>1. user[v].client \in Client
      BY <2>1 DEF Ownership, Clients, Holds, Using, Asking
    <3> QED
      BY <2>1, <3>1, <1>1 DEF Exchange, OwnRequest, Traffic
  <2>2. ASSUME NEW v \in User, user[v].pc \in Sent
        PROVE  /\ wire'[user[v].client].sent \in {NoRequest, Request(v)}
               /\ wire'[user[v].client].answer \in {NoRequest, Request(v)}
    <3>1. user[v].client \in Client
      BY <2>2 DEF Ownership, Clients, Holds, Using, Sent
    <3> QED
      BY <2>2, <3>1, <1>1 DEF Exchange, OwnRequest, Traffic
  <2> QED
    BY <2>1, <2>2, <1>1, <1>2 DEF OwnRequest
<1>5. OwnAnswer'
  BY <1>1, <1>2 DEF Exchange, OwnAnswer
<1> QED
  BY <1>3, <1>4, <1>5 DEF Exchange

-----------------------------------------------------------------------------
(* The manager acts no more often than there were attempts.                *)

\* The counts are numbers.
LEMMA CountTypes ==
  ASSUME NEW r \in UserRequest, QueryTypeOK
  PROVE  Acted(r) \in Nat /\ MayAct(r) \in Nat /\ Attempts(r) \in Int /\ Attempts(r) <= MaxAttempts
<1>1. user[r.sender] \in UserType /\ r.number \in Nat
  BY DEF QueryTypeOK, UserRequest
<1>2. user[r.sender].attempt \in 0 .. MaxAttempts
  BY <1>1 DEF UserType
<1> QED
  BY <1>1, <1>2, QueryAssumption DEF Acted, MayAct, Attempts, QueryTypeOK

\* A request is under way on one connection only.
LEMMA SentOnce ==
  ASSUME QueryTypeOK, Exchange, NEW c \in Client, NEW d \in Client,
         wire[c].sent # NoRequest, wire[c].sent = wire[d].sent
  PROVE  c = d
<1>1. PICK u \in User : user[u].pc \in Sent /\ user[u].client = c
  BY DEF Exchange, Quiet
<1>2. PICK v \in User : user[v].pc \in Sent /\ user[v].client = d
  BY DEF Exchange, Quiet
<1>3. wire[c].sent = Request(u) /\ wire[d].sent = Request(v)
  BY <1>1, <1>2 DEF Exchange, OwnRequest
<1>4. u = v
  <2>1. Request(u).sender = u /\ Request(v).sender = v
    BY DEF Request
  <2> QED
    BY <1>3, <2>1
<1> QED
  BY <1>1, <1>2, <1>4

\* The attempts of the other threads stay as they are.
LEMMA AttemptsOfOthers ==
  ASSUME NEW u \in User, NEW pc, NEW c, Step(u, pc, c), NEW r \in UserRequest, r.sender # u
  PROVE  Attempts(r)' = Attempts(r)
<1>1. r.sender \in User
  BY DEF UserRequest
<1>2. user'[r.sender] = user[r.sender]
  BY <1>1 DEF Step
<1> QED
  BY <1>2 DEF Attempts

\* No new attempt and nothing new under way.
LEMMA CountsKept ==
  ASSUME QueryTypeOK, ActsCounted, UNCHANGED manager,
         \A r \in UserRequest : OnWire(r)' => OnWire(r),
         \A r \in UserRequest : Attempts(r)' \in Int /\ Attempts(r)' >= Attempts(r)
  PROVE  ActsCounted'
<1> SUFFICES ASSUME NEW r \in UserRequest PROVE Acted(r)' + MayAct(r)' <= Attempts(r)'
  BY DEF ActsCounted
<1>1. Acted(r)' = Acted(r)
  BY DEF Acted
<1>2. MayAct(r)' \in Nat /\ MayAct(r)' <= MayAct(r)
  BY DEF MayAct
<1>3. Acted(r) + MayAct(r) <= Attempts(r) /\ Attempts(r)' \in Int /\ Attempts(r)' >= Attempts(r)
  BY DEF ActsCounted
<1> QED
  BY <1>1, <1>2, <1>3, CountTypes

\* A thread that gets or gives back a client makes no attempt.
LEMMA CountsIdle ==
  ASSUME QueryTypeOK, ActsCounted, NEW u \in User, NEW pc, NEW c, Step(u, pc, c), UNCHANGED <<wire, manager>>,
         pc \notin Asking, user[u].pc \notin Asking, user'[u].number = user[u].number
  PROVE  ActsCounted'
<1>1. ASSUME NEW r \in UserRequest PROVE Attempts(r)' = Attempts(r)
  <2>1. CASE r.sender # u
    BY <2>1, AttemptsOfOthers
  <2>2. CASE r.sender = u
    BY <2>2 DEF Attempts, Step, Asking, Sent
  <2> QED
    BY <2>1, <2>2
<1>2. \A r \in UserRequest : Attempts(r)' \in Int /\ Attempts(r)' >= Attempts(r)
  BY <1>1, CountTypes
<1>3. \A r \in UserRequest : OnWire(r)' => OnWire(r)
  BY DEF OnWire
<1> QED
  BY <1>2, <1>3, CountsKept

\* The first attempt has not been made.
LEMMA PrepareCounts ==
  ASSUME QueryTypeOK, ActsCounted, NEW u \in User, user[u].pc = "hold", user[u].client \in Client,
         Step(u, "connect", user[u].client), user'[u].number = user[u].number + 1, user'[u].attempt = 1,
         Traffic(user[u].client, Request(u)', wire[user[u].client].sent, wire[user[u].client].answer),
         UNCHANGED manager
  PROVE  ActsCounted'
<1>1. ASSUME NEW r \in UserRequest PROVE Attempts(r)' \in Int /\ Attempts(r)' >= Attempts(r)
  <2>1. CASE r.sender # u
    BY <2>1, AttemptsOfOthers, CountTypes
  <2>2. CASE r.sender = u
    <3>1. user[u].number \in Nat /\ r.number \in Nat /\ MaxAttempts \in Nat
      BY QueryAssumption DEF QueryTypeOK, UserType, UserRequest
    <3>2. user'[u].pc = "connect"
      BY DEF Step
    <3>3. Attempts(r)' = IF r.number > user[u].number THEN 0 ELSE MaxAttempts
      <4>1. CASE r.number > user[u].number + 1
        BY <2>2, <3>1, <3>2, <4>1 DEF Attempts
      <4>2. CASE r.number = user[u].number + 1
        BY <2>2, <3>1, <3>2, <4>2 DEF Attempts
      <4>3. CASE r.number < user[u].number + 1
        BY <2>2, <3>1, <3>2, <4>3 DEF Attempts
      <4> QED
        BY <3>1, <4>1, <4>2, <4>3
    <3>4. Attempts(r) = IF r.number > user[u].number THEN 0 ELSE MaxAttempts
      BY <2>2 DEF Attempts, Sent
    <3> QED
      BY <3>1, <3>3, <3>4
  <2> QED
    BY <2>1, <2>2
<1>2. \A d \in Client : wire'[d].sent = wire[d].sent
  BY DEF Traffic
<1>3. \A r \in UserRequest : OnWire(r)' => OnWire(r)
  BY <1>2 DEF OnWire
<1> QED
  BY <1>1, <1>3, CountsKept

\* A thread goes on with the same attempt, or ends its query.
LEMMA SameAttempt ==
  ASSUME QueryTypeOK, ActsCounted, NEW u \in User, NEW pc \in Using, Step(u, pc, user[u].client),
         user'[u].number = user[u].number,
         \/ pc = "hold"
         \/ user'[u].attempt = user[u].attempt /\ pc = "write" /\ user[u].pc = "connect"
         \/ user'[u].attempt = user[u].attempt /\ pc = "data" /\ user[u].pc = "head",
         \A d \in Client : wire'[d].sent = wire[d].sent \/ wire'[d].sent = NoRequest,
         UNCHANGED manager
  PROVE  ActsCounted'
<1>1. ASSUME NEW r \in UserRequest PROVE Attempts(r)' \in Int /\ Attempts(r)' >= Attempts(r)
  <2>1. CASE r.sender # u
    BY <2>1, AttemptsOfOthers, CountTypes
  <2>2. CASE r.sender = u /\ pc = "hold"
    <3>1. Attempts(r)' = IF r.number > user[u].number THEN 0 ELSE MaxAttempts
      BY <2>2 DEF Attempts, Step, Sent
    <3>2. r.number > user[u].number => Attempts(r) = 0
      BY <2>2 DEF Attempts
    <3> QED
      BY <3>1, <3>2, CountTypes, QueryAssumption
  <2>3. CASE r.sender = u /\ pc # "hold"
    <3>1. Attempts(r)' = Attempts(r)
      BY <2>3 DEF Attempts, Step, Sent
    <3> QED
      BY <3>1, CountTypes
  <2> QED
    BY <2>1, <2>2, <2>3
<1>2. \A r \in UserRequest : OnWire(r)' => OnWire(r)
  BY Distinct DEF OnWire
<1> QED
  BY <1>1, <1>2, CountsKept

\* An attempt is made: the request is on its way.
LEMMA WriteCounts ==
  ASSUME QueryTypeOK, ActsCounted, NEW u \in User, user[u].pc = "write", user[u].client \in Client,
         Step(u, "head", user[u].client), SameQuery(u), NEW a,
         Traffic(user[u].client, Request(u), Request(u), a), UNCHANGED manager
  PROVE  ActsCounted'
<1> SUFFICES ASSUME NEW r \in UserRequest PROVE Acted(r)' + MayAct(r)' <= Attempts(r)'
  BY DEF ActsCounted
<1>1. Acted(r)' = Acted(r) /\ Acted(r) \in Nat /\ MayAct(r) \in Nat /\ Attempts(r) \in Int
      /\ Acted(r) + MayAct(r) <= Attempts(r)
  BY CountTypes DEF Acted, ActsCounted
<1>2. CASE r # Request(u)
  <2>1. OnWire(r)' => OnWire(r)
    BY <1>2 DEF OnWire, Traffic
  <2>2. MayAct(r)' \in Nat /\ MayAct(r)' <= MayAct(r)
    BY <2>1 DEF MayAct
  <2>3. Attempts(r)' = Attempts(r)
    <3>1. CASE r.sender # u
      BY <3>1, AttemptsOfOthers
    <3>2. CASE r.sender = u
      <4>1. r.number # user[u].number
        BY <1>2, <3>2 DEF Request, UserRequest
      <4> QED
        BY <3>2, <4>1 DEF Attempts, Step, SameQuery
    <3> QED
      BY <3>1, <3>2
  <2> QED
    BY <1>1, <2>2, <2>3
<1>3. CASE r = Request(u)
  <2>1. r.sender = u /\ r.number = user[u].number /\ user[u].number \in Nat
        /\ user[u].attempt \in Int
    BY <1>3 DEF Request, QueryTypeOK, UserType
  <2>2. Attempts(r) = user[u].attempt - 1
    BY <2>1 DEF Attempts
  <2>3. Attempts(r)' = user[u].attempt
    BY <2>1 DEF Attempts, Step, SameQuery, Sent
  <2>4. MayAct(r)' \in Nat /\ MayAct(r)' <= MayAct(r) + 1
    BY DEF MayAct
  <2> QED
    BY <1>1, <2>1, <2>2, <2>3, <2>4
<1> QED
  BY <1>2, <1>3

\* After a failure the manager may still act on what it has got, but then the
\* next attempt is another one.
LEMMA FailureCounts ==
  ASSUME QueryTypeOK, Exchange, ActsCounted, NEW u \in User, user[u].pc \in {"write", "head", "data"},
         user[u].client \in Client, Failure(u)
  PROVE  ActsCounted'
<1> DEFINE c == user[u].client
<1> SUFFICES ASSUME NEW r \in UserRequest PROVE Acted(r)' + MayAct(r)' <= Attempts(r)'
  BY DEF ActsCounted
<1>1. Acted(r) \in Nat /\ MayAct(r) \in Nat /\ Attempts(r) \in Int /\ Acted(r) + MayAct(r) <= Attempts(r)
      /\ Attempts(r) <= MaxAttempts /\ MaxAttempts \in Nat
  BY CountTypes, QueryAssumption DEF ActsCounted
<1>2. Acted(r)' = Acted(r)
  BY DEF Acted, Failure
<1>3. MayAct(r)' \in Nat /\ MayAct(r)' <= MayAct(r)
  <2>1. /\ wire'[c].sent = NoRequest /\ \A d \in Client : d # c => wire'[d] = wire[d]
        /\ manager'.lost = manager.lost \cup ({wire[c].sent} \ {NoRequest})
    BY DEF Failure, Traffic
  <2>2. r # NoRequest
    BY Distinct
  <2>3. OnWire(r)' => OnWire(r)
    BY <2>1, <2>2 DEF OnWire
  <2>4. CASE r = wire[c].sent
    <3>1. ~OnWire(r)'
      BY <2>1, <2>2, <2>4, SentOnce DEF OnWire
    <3>2. OnWire(r)
      BY <2>4 DEF OnWire
    <3> QED
      BY <3>1, <3>2 DEF MayAct
  <2>5. CASE r # wire[c].sent
    <3>1. r \in manager'.lost <=> r \in manager.lost
      BY <2>1, <2>5
    <3> QED
      BY <2>3, <3>1 DEF MayAct
  <2> QED
    BY <2>4, <2>5
<1>4. Attempts(r)' \in Int /\ Attempts(r)' >= Attempts(r)
  <2>1. user[u].number \in Nat /\ user[u].attempt \in Nat /\ r.number \in Nat
    BY DEF QueryTypeOK, UserType, UserRequest
  <2>2. CASE r.sender # u
    <3>1. Attempts(r)' = Attempts(r)
      BY <2>2, AttemptsOfOthers DEF Failure
    <3> QED
      BY <1>1, <3>1
  <2>3. CASE r.sender = u /\ r.number # user[u].number
    <3>1. Attempts(r)' = Attempts(r)
      BY <2>3 DEF Attempts, Failure
    <3> QED
      BY <1>1, <3>1
  <2>4. CASE r.sender = u /\ r.number = user[u].number
    <3>1. Attempts(r) <= user[u].attempt
      BY <2>1, <2>4 DEF Attempts, Sent
    <3>2. CASE Step(u, "connect", c) /\ user'[u].attempt = user[u].attempt + 1
      <4>1. Attempts(r)' = user[u].attempt
        BY <2>1, <2>4, <3>2 DEF Attempts, Failure, Step
      <4> QED
        BY <2>1, <3>1, <4>1
    <3>3. CASE Step(u, "hold", c)
      <4>1. Attempts(r)' = MaxAttempts
        BY <2>1, <2>4, <3>3 DEF Attempts, Failure, Step, Sent
      <4> QED
        BY <1>1, <4>1
    <3> QED
      BY <3>2, <3>3 DEF Failure
  <2> QED
    BY <2>2, <2>3, <2>4
<1> QED
  BY <1>1, <1>2, <1>3, <1>4

\* The manager acts on a request that was under way and no longer is.
LEMMA ServeCounts ==
  ASSUME QueryTypeOK, Exchange, ActsCounted, NEW c \in Client, Serve(c)
  PROVE  ActsCounted'
<1>1. /\ wire[c].sent \in UserRequest /\ wire[c].sent # NoRequest
      /\ wire'[c].sent = NoRequest /\ \A d \in Client : d # c => wire'[d] = wire[d]
      /\ manager'.acted = Act(wire[c].sent) /\ manager'.lost = manager.lost /\ UNCHANGED user
  BY ServeStep DEF Traffic
<1> SUFFICES ASSUME NEW r \in UserRequest PROVE Acted(r)' + MayAct(r)' <= Attempts(r)'
  BY DEF ActsCounted
<1>2. Acted(r) \in Nat /\ MayAct(r) \in Nat /\ Attempts(r) \in Int /\ Acted(r) + MayAct(r) <= Attempts(r)
  BY CountTypes DEF ActsCounted
<1>3. Attempts(r)' = Attempts(r)
  BY <1>1 DEF Attempts
<1>4. r # NoRequest
  BY Distinct
<1>5. CASE r = wire[c].sent
  <2>1. Acted(r)' = Acted(r) + 1
    BY <1>1, <1>5, ActOnce
  <2>2. OnWire(r) /\ ~OnWire(r)'
    BY <1>1, <1>4, <1>5, SentOnce DEF OnWire
  <2>3. MayAct(r)' = MayAct(r) - 1
    BY <1>1, <2>2 DEF MayAct
  <2> QED
    BY <1>2, <1>3, <2>1, <2>3
<1>6. CASE r # wire[c].sent
  <2>1. Acted(r)' = Acted(r)
    BY <1>1, <1>6, ActOnce
  <2>2. OnWire(r)' => OnWire(r)
    BY <1>1, <1>4 DEF OnWire
  <2>3. MayAct(r)' \in Nat /\ MayAct(r)' <= MayAct(r)
    BY <1>1, <2>2 DEF MayAct
  <2> QED
    BY <1>2, <1>3, <2>1, <2>3
<1> QED
  BY <1>5, <1>6

\* The same for a request whose sender has hung up.
LEMMA ServeLostCounts ==
  ASSUME QueryTypeOK, ActsCounted, NEW q, ServeLost(q)
  PROVE  ActsCounted'
<1>1. /\ q \in UserRequest /\ q \in manager.lost
      /\ manager'.acted = manager.acted \/ manager'.acted = Act(q)
      /\ manager'.lost = manager.lost \ {q} /\ UNCHANGED <<user, wire>>
  BY ServeLostStep
<1> SUFFICES ASSUME NEW r \in UserRequest PROVE Acted(r)' + MayAct(r)' <= Attempts(r)'
  BY DEF ActsCounted
<1>2. Acted(r) \in Nat /\ MayAct(r) \in Nat /\ Attempts(r) \in Int /\ Acted(r) + MayAct(r) <= Attempts(r)
  BY CountTypes DEF ActsCounted
<1>3. Attempts(r)' = Attempts(r)
  BY <1>1 DEF Attempts
<1>4. OnWire(r)' <=> OnWire(r)
  BY <1>1 DEF OnWire
<1>5. CASE r = q
  <2>1. Acted(r)' \in {Acted(r), Acted(r) + 1}
    <3>1. CASE manager'.acted = manager.acted
      BY <3>1 DEF Acted
    <3>2. CASE manager'.acted = Act(q)
      BY <1>5, <3>2, ActOnce
    <3> QED
      BY <1>1, <3>1, <3>2
  <2>2. MayAct(r)' = MayAct(r) - 1
    BY <1>1, <1>4, <1>5 DEF MayAct
  <2> QED
    BY <1>2, <1>3, <2>1, <2>2
<1>6. CASE r # q
  <2>1. Acted(r)' = Acted(r)
    <3>1. CASE manager'.acted = manager.acted
      BY <3>1 DEF Acted
    <3>2. CASE manager'.acted = Act(q)
      BY <1>6, <3>2, ActOnce
    <3> QED
      BY <1>1, <3>1, <3>2
  <2>2. MayAct(r)' = MayAct(r)
    BY <1>1, <1>4, <1>6 DEF MayAct
  <2> QED
    BY <1>2, <1>3, <2>1, <2>2
<1> QED
  BY <1>5, <1>6

-----------------------------------------------------------------------------
(* The invariant.                                                          *)

\* All clients are free, nothing was sent.
LEMMA InitIInv == QueryInit => IInv
<1> SUFFICES ASSUME QueryInit PROVE IInv
  OBVIOUS
<1> USE QueryAssumption DEF QueryInit
<1>1. QueryTypeOK
  BY InitTypeOK
<1>2. \A u \in User : user[u].pc = "idle" /\ user[u].number = 0 /\ user[u].result = -1
  OBVIOUS
<1>3. \A c \in Client : pool.free[c] /\ wire[c].sent = NoRequest /\ wire[c].answer = NoRequest
  BY DEF Fresh
<1>4. Ownership
  <2>1. Busy = {}
    BY <1>2 DEF Busy
  <2>2. Permits
    BY <2>1, FS_EmptySet DEF Permits
  <2>3. Mutex /\ Clients /\ Search
    BY <1>2, <1>3 DEF Mutex, Clients, Search, Holds, Using
  <2> QED
    BY <2>2, <2>3 DEF Ownership
<1>5. Exchange
  BY <1>2, <1>3 DEF Exchange, Quiet, OwnRequest, OwnAnswer, Asking, Sent
<1>6. ActsCounted
  <2> SUFFICES ASSUME NEW r \in UserRequest PROVE Acted(r) + MayAct(r) <= Attempts(r)
    BY DEF ActsCounted
  <2>1. Acted(r) = 0 /\ MayAct(r) = 0
    BY <1>3, Distinct DEF Acted, MayAct, OnWire
  <2>2. Attempts(r) >= 0
    BY <1>2 DEF Attempts, UserRequest, Sent
  <2> QED
    BY <2>1, <2>2, <1>1, CountTypes
<1> QED
  BY <1>1, <1>4, <1>5, <1>6 DEF IInv

\* Steps of a thread that has no client or only holds one.
LEMMA PoolInv ==
  ASSUME IInv, NEW u \in User,
         TakePermit(u) \/ Lock(u) \/ Scan(u) \/ Claim(u) \/ Release(u) \/ GivePermit(u)
  PROVE  IInv'
<1> USE DEF IInv
<1>1. Ownership'
  BY TakePermitOwnership, LockOwnership, ScanOwnership, ClaimOwnership, ReleaseOwnership, GivePermitOwnership
<1>2. user[u].pc \notin Asking
  BY DEF TakePermit, Lock, Scan, Claim, Release, GivePermit, Goto, Asking
<1>3. user[u].pc # "hold" => user[u].result = -1
  BY DEF Exchange, OwnAnswer
<1>4. PICK pc, c : /\ Step(u, pc, c) /\ pc \notin Asking /\ Idle
                   /\ user'[u].number = user[u].number /\ user'[u].result = -1
  <2>1. CASE TakePermit(u)
    <3>1. Step(u, "lock", user[u].client) /\ SameQuery(u) /\ Idle /\ user[u].pc = "idle"
      BY <2>1, SearchStep DEF TakePermit, Goto
    <3> QED
      BY <3>1, <1>3 DEF SameQuery, Asking
  <2>2. CASE Lock(u)
    <3>1. Step(u, "scan", 1) /\ SameQuery(u) /\ Idle /\ user[u].pc = "lock"
      BY <2>2, SearchStep DEF Lock
    <3> QED
      BY <3>1, <1>3 DEF SameQuery, Asking
  <2>3. CASE Scan(u)
    <3>1. /\ Step(u, "null", user[u].client) \/ Step(u, "claim", user[u].client) \/ Step(u, "scan", user[u].client + 1)
          /\ SameQuery(u) /\ Idle /\ user[u].pc = "scan"
      BY <2>3, SearchStep DEF Scan
    <3> QED
      BY <3>1, <1>3 DEF SameQuery, Asking
  <2>4. CASE Claim(u)
    <3>1. Step(u, "hold", user[u].client) /\ SameQuery(u) /\ Idle /\ user[u].pc = "claim"
      BY <2>4, HoldStep DEF Claim, Goto
    <3> QED
      BY <3>1, <1>3 DEF SameQuery, Asking
  <2>5. CASE Release(u)
    <3>1. Step(u, "up", user[u].client) /\ user'[u].result = -1 /\ user'[u].number = user[u].number /\ Idle
      BY <2>5, HoldStep
    <3> QED
      BY <3>1 DEF Asking
  <2>6. CASE GivePermit(u)
    <3>1. Step(u, "idle", 0) /\ SameQuery(u) /\ Idle /\ user[u].pc = "up"
      BY <2>6, HoldStep DEF GivePermit
    <3> QED
      BY <3>1, <1>3 DEF SameQuery, Asking
  <2> QED
    BY <2>1, <2>2, <2>3, <2>4, <2>5, <2>6
<1>5. QueryTypeOK'
  BY <1>4 DEF QueryTypeOK, Step, Idle
<1>6. Exchange'
  BY <1>2, <1>4, ExchangeIdle DEF Idle
<1>7. ActsCounted'
  BY <1>2, <1>4, CountsIdle DEF Idle
<1> QED
  BY <1>1, <1>5, <1>6, <1>7

\* What is known of a thread that has a client.
LEMMA HolderFacts ==
  ASSUME IInv, NEW u \in User, user[u].pc \in Using
  PROVE  /\ Holds(u) /\ user[u].client \in Client
         /\ user[u].pc \notin Sent => /\ wire[user[u].client].sent = NoRequest
                                     /\ wire[user[u].client].answer = NoRequest
<1>1. Holds(u) /\ user[u].client \in Client
  BY DEF IInv, Ownership, Clients, Holds
<1>2. ASSUME user[u].pc \notin Sent, NEW v \in User, user[v].pc \in Sent, user[v].client = user[u].client
      PROVE  FALSE
  <2>1. Holds(v) /\ v # u
    BY <1>2 DEF Holds, Using, Sent
  <2> QED
    BY <1>1, <1>2, <2>1, OthersHaveOthers DEF IInv
<1> QED
  BY <1>1, <1>2 DEF IInv, Exchange, Quiet

\* The types after a step of a thread that has a client.
LEMMA BusyTypeOK ==
  ASSUME QueryTypeOK, NEW u \in User, NEW pc, NEW k, Step(u, pc, k), NEW c, NEW b, NEW s, NEW a,
         Traffic(c, b, s, a), UNCHANGED <<pool, manager>>
  PROVE  QueryTypeOK'
  BY DEF QueryTypeOK, Step, Traffic

\* An attempt that fails.
LEMMA FailureInv ==
  ASSUME IInv, NEW u \in User, user[u].pc \in {"write", "head", "data"}, Failure(u)
  PROVE  IInv'
<1> DEFINE c == user[u].client
<1>1. user[u].pc \in Using /\ user[u].pc \in Asking
  BY DEF Using, Asking
<1>2. Holds(u) /\ c \in Client
  BY <1>1, HolderFacts
<1>3. QueryTypeOK'
  <2>1. wire[c].sent \in UserRequest \cup {NoRequest}
    BY <1>2 DEF IInv, QueryTypeOK, WireType
  <2> QED
    BY <2>1 DEF IInv, QueryTypeOK, Failure, Step, Traffic
<1>4. PICK pc \in {"connect", "hold"} : Step(u, pc, c) /\ (pc = "connect" => user'[u].attempt = user[u].attempt + 1)
  BY DEF Failure
<1>5. pc \in Using
  BY DEF Using
<1>6. Ownership'
  BY <1>1, <1>4, <1>5, OwnershipKept DEF IInv, Failure
<1>7. Exchange'
  <2>1. Request(u)' = Request(u) /\ wire[c].Buffer = Request(u) /\ user[u].result = -1
    BY <1>1 DEF Request, Failure, IInv, Exchange, OwnRequest, OwnAnswer, Asking
  <2>2. user'[u].result = -1 /\ (pc = "connect" => user'[u].attempt >= 1)
    BY <1>4, <2>1 DEF Failure, IInv, QueryTypeOK, UserType
  <2>3. Traffic(c, wire[c].Buffer, NoRequest, NoRequest)
    BY DEF Failure
  <2>4. pc \notin Sent
    BY DEF Sent
  <2> QED
    BY <1>2, <1>4, <1>5, <2>1, <2>2, <2>3, <2>4, ExchangeBusy DEF IInv, Asking
<1>8. ActsCounted'
  BY <1>2, FailureCounts DEF IInv
<1> QED
  BY <1>3, <1>6, <1>7, <1>8 DEF IInv

\* A query is begun.
LEMMA PrepareInv ==
  ASSUME IInv, NEW u \in User, NEW q \in Asked, Prepare(u, q)
  PROVE  IInv'
<1> DEFINE c == user[u].client
<1>1. user[u].pc = "hold" /\ user[u].pc \in Using /\ user[u].pc \notin Sent
  BY DEF Prepare, Using, Sent
<1>2. Holds(u) /\ c \in Client /\ wire[c].sent = NoRequest /\ wire[c].answer = NoRequest
  BY <1>1, HolderFacts
<1>3. /\ Step(u, "connect", c)
      /\ user'[u].number = user[u].number + 1 /\ user'[u].attempt = 1 /\ user'[u].result = -1
      /\ Traffic(c, Request(u)', wire[c].sent, wire[c].answer)
      /\ UNCHANGED <<pool, manager>>
  BY <1>2, PrepareStep DEF IInv
<1>4. QueryTypeOK'
  BY <1>3, BusyTypeOK DEF IInv
<1>5. "connect" \in Using /\ "connect" \notin Sent
  BY DEF Using, Sent
<1>6. Ownership'
  BY <1>1, <1>3, <1>5, OwnershipKept DEF IInv
<1>7. Exchange'
  BY <1>2, <1>3, <1>5, ExchangeBusy DEF IInv
<1>8. ActsCounted'
  BY <1>1, <1>2, <1>3, PrepareCounts DEF IInv
<1> QED
  BY <1>4, <1>6, <1>7, <1>8 DEF IInv

\* The connection is there or is made again.
LEMMA ConnectInv ==
  ASSUME IInv, NEW u \in User, Connect(u)
  PROVE  IInv'
<1> DEFINE c == user[u].client
<1>1. user[u].pc = "connect" /\ user[u].pc \in Using /\ user[u].pc \notin Sent /\ user[u].pc \in Asking
  BY DEF Connect, Using, Sent, Asking
<1>2. Holds(u) /\ c \in Client /\ wire[c].sent = NoRequest /\ wire[c].answer = NoRequest
  BY <1>1, HolderFacts
<1>3. /\ SameQuery(u) /\ UNCHANGED <<pool, manager>>
      /\ UNCHANGED wire \/ Traffic(c, wire[c].Buffer, NoRequest, NoRequest)
  BY <1>2, ConnectStep DEF IInv
<1>4. Traffic(c, wire[c].Buffer, NoRequest, NoRequest)
  BY <1>2, <1>3 DEF Traffic, IInv, QueryTypeOK
<1>5. PICK pc \in {"write", "hold"} : Step(u, pc, c)
  BY <1>2, ConnectStep DEF IInv
<1>6. pc \in Using /\ pc \notin Sent
  BY DEF Using, Sent
<1>7. QueryTypeOK'
  BY <1>3, <1>4, <1>5, BusyTypeOK DEF IInv
<1>8. Ownership'
  BY <1>1, <1>3, <1>5, <1>6, OwnershipKept DEF IInv
<1>9. Exchange'
  <2>1. /\ Request(u)' = Request(u) /\ wire[c].Buffer = Request(u)
        /\ user'[u].result = -1 /\ user'[u].attempt >= 1
    BY <1>1, <1>3 DEF Request, SameQuery, IInv, Exchange, OwnRequest, OwnAnswer
  <2> QED
    BY <1>2, <1>4, <1>5, <1>6, <2>1, ExchangeBusy DEF IInv
<1>10. ActsCounted'
  <2>1. \A d \in Client : wire'[d].sent = wire[d].sent \/ wire'[d].sent = NoRequest
    BY <1>4 DEF Traffic
  <2> QED
    BY <1>1, <1>3, <1>5, <1>6, <2>1, SameAttempt DEF IInv, SameQuery
<1> QED
  BY <1>7, <1>8, <1>9, <1>10 DEF IInv

\* The request is sent.
LEMMA WriteInv ==
  ASSUME IInv, NEW u \in User, Write(u)
  PROVE  IInv'
<1> DEFINE c == user[u].client
<1>1. user[u].pc = "write" /\ user[u].pc \in Using /\ user[u].pc \notin Sent /\ user[u].pc \in Asking
  BY DEF Write, Using, Sent, Asking
<1>2. Holds(u) /\ c \in Client /\ wire[c].sent = NoRequest /\ wire[c].answer = NoRequest
  BY <1>1, HolderFacts
<1>3. wire[c].Buffer = Request(u) /\ user[u].attempt >= 1 /\ user[u].result = -1
  BY <1>1 DEF IInv, Exchange, OwnRequest, OwnAnswer
<1>4. CASE Failure(u)
  BY <1>1, <1>4, FailureInv
<1>5. CASE /\ Step(u, "head", c) /\ SameQuery(u)
           /\ Traffic(c, Request(u), Request(u), wire[c].answer)
           /\ UNCHANGED <<pool, manager>>
  <2>1. "head" \in Using /\ "head" \in Sent
    BY DEF Using, Sent
  <2>2. QueryTypeOK'
    BY <1>5, BusyTypeOK DEF IInv
  <2>3. Ownership'
    BY <1>1, <1>5, <2>1, OwnershipKept DEF IInv
  <2>4. Exchange'
    <3>1. Request(u)' = Request(u) /\ user'[u].result = -1 /\ user'[u].attempt >= 1
      BY <1>3, <1>5 DEF Request, SameQuery
    <3> QED
      BY <1>2, <1>5, <2>1, <3>1, ExchangeBusy DEF IInv
  <2>5. ActsCounted'
    BY <1>1, <1>2, <1>5, WriteCounts DEF IInv
  <2> QED
    BY <2>2, <2>3, <2>4, <2>5 DEF IInv
<1> QED
  BY <1>2, <1>3, <1>4, <1>5, WriteStep DEF IInv

\* The length of the answer is read.
LEMMA ReadHeadInv ==
  ASSUME IInv, NEW u \in User, ReadHead(u)
  PROVE  IInv'
<1> DEFINE c == user[u].client
<1>1. user[u].pc = "head" /\ user[u].pc \in Using /\ user[u].pc \in Sent /\ user[u].pc \in Asking
  BY DEF ReadHead, Using, Sent, Asking
<1>2. Holds(u) /\ c \in Client
  BY <1>1, HolderFacts
<1>3. /\ wire[c].Buffer = Request(u) /\ user[u].attempt >= 1 /\ user[u].result = -1
      /\ wire[c].sent \in {NoRequest, Request(u)} /\ wire[c].answer \in {NoRequest, Request(u)}
      /\ wire[c].sent = NoRequest \/ wire[c].answer = NoRequest
  BY <1>1, <1>2 DEF IInv, Exchange, OwnRequest, OwnAnswer, Quiet
<1>4. CASE Failure(u)
  BY <1>1, <1>4, FailureInv
<1>5. CASE /\ Step(u, "data", c) /\ SameQuery(u)
           /\ Traffic(c, wire[c].Buffer, wire[c].sent, wire[c].answer)
           /\ UNCHANGED <<pool, manager>>
  <2>1. "data" \in Using /\ "data" \in Sent
    BY DEF Using, Sent
  <2>2. QueryTypeOK'
    BY <1>5, BusyTypeOK DEF IInv
  <2>3. Ownership'
    BY <1>1, <1>5, <2>1, OwnershipKept DEF IInv
  <2>4. Exchange'
    <3>1. Request(u)' = Request(u) /\ user'[u].result = -1 /\ user'[u].attempt >= 1
      BY <1>3, <1>5 DEF Request, SameQuery
    <3> QED
      BY <1>2, <1>3, <1>5, <2>1, <3>1, ExchangeBusy DEF IInv
  <2>5. ActsCounted'
    <3>1. \A d \in Client : wire'[d].sent = wire[d].sent
      BY <1>5 DEF Traffic
    <3> QED
      BY <1>1, <1>5, <2>1, <3>1, SameAttempt DEF IInv, SameQuery
  <2> QED
    BY <2>2, <2>3, <2>4, <2>5 DEF IInv
<1> QED
  BY <1>2, <1>4, <1>5, ReadHeadStep DEF IInv

\* The answer is read: it is the one to the request of this thread.
LEMMA ReadDataInv ==
  ASSUME IInv, NEW u \in User, ReadData(u)
  PROVE  IInv'
<1> DEFINE c == user[u].client
<1>1. user[u].pc = "data" /\ user[u].pc \in Using /\ user[u].pc \in Sent /\ user[u].pc \in Asking
  BY DEF ReadData, Using, Sent, Asking
<1>2. Holds(u) /\ c \in Client
  BY <1>1, HolderFacts
<1>3. /\ wire[c].sent = NoRequest \/ wire[c].answer = NoRequest
      /\ wire[c].answer \in {NoRequest, Request(u)}
  BY <1>1, <1>2 DEF IInv, Exchange, OwnRequest, Quiet
<1>4. CASE Failure(u)
  BY <1>1, <1>4, FailureInv
<1>5. CASE /\ Step(u, "hold", c) /\ wire[c].answer # NoRequest
           /\ user'[u].number = user[u].number /\ user'[u].answer = wire[c].answer
           /\ Traffic(c, wire[c].Buffer, wire[c].sent, NoRequest)
           /\ UNCHANGED <<pool, manager>>
  <2>1. "hold" \in Using /\ "hold" \notin Sent /\ "hold" \notin Asking
    BY DEF Using, Sent, Asking
  <2>2. QueryTypeOK'
    BY <1>5, BusyTypeOK DEF IInv
  <2>3. Ownership'
    BY <1>1, <1>5, <2>1, OwnershipKept DEF IInv
  <2>4. Exchange'
    <3>1. Request(u)' = Request(u)
      BY <1>5 DEF Request
    <3>2. wire[c].sent = NoRequest /\ user'[u].answer = Request(u)'
      BY <1>3, <1>5, <3>1
    <3> QED
      BY <1>2, <1>5, <2>1, <3>2, ExchangeBusy DEF IInv
  <2>5. ActsCounted'
    <3>1. \A d \in Client : wire'[d].sent = wire[d].sent
      BY <1>5 DEF Traffic
    <3> QED
      BY <1>5, <2>1, <3>1, SameAttempt DEF IInv
  <2> QED
    BY <2>2, <2>3, <2>4, <2>5 DEF IInv
<1> QED
  BY <1>2, <1>4, <1>5, ReadDataStep DEF IInv

\* The query manager acts.
LEMMA ManagerInv ==
  ASSUME IInv, (\E c \in Client : Serve(c)) \/ (\E r \in manager.lost : ServeLost(r))
  PROVE  IInv'
<1>1. ASSUME NEW r \in UserRequest, QueryTypeOK
      PROVE  Act(r) \in [DOMAIN Act(r) -> Nat] /\ DOMAIN Act(r) \subseteq UserRequest
  BY <1>1, ActType
<1>2. ASSUME Ownership, UNCHANGED <<pool, user>> PROVE Ownership'
  BY <1>2 DEF Ownership, Permits, Busy, Mutex, Clients, Search, Holds
<1>3. ASSUME NEW c \in Client, Serve(c) PROVE IInv'
  <2>1. QueryTypeOK'
    BY <1>1, <1>3, ServeStep DEF IInv, QueryTypeOK, Traffic
  <2>2. Ownership'
    BY <1>2, <1>3 DEF IInv, Serve
  <2> QED
    BY <1>3, <2>1, <2>2, ServeExchange, ServeCounts DEF IInv
<1>4. ASSUME NEW r \in manager.lost, ServeLost(r) PROVE IInv'
  <2>1. QueryTypeOK'
    BY <1>1, <1>4, ServeLostStep DEF IInv, QueryTypeOK
  <2>2. Ownership'
    BY <1>2, <1>4 DEF IInv, ServeLost
  <2>3. Exchange'
    BY <1>4 DEF IInv, ServeLost, Exchange, Quiet, OwnRequest, OwnAnswer, Request
  <2> QED
    BY <1>4, <2>1, <2>2, <2>3, ServeLostCounts DEF IInv
<1> QED
  BY <1>3, <1>4

-----------------------------------------------------------------------------
\* The invariant holds in every behaviour of the pool and its clients.
THEOREM Invariance == QuerySpec => []IInv
<1>1. IInv /\ [QueryNext]_queryVars => IInv'
  <2> SUFFICES ASSUME IInv, [QueryNext]_queryVars PROVE IInv'
    OBVIOUS
  <2>1. CASE UNCHANGED queryVars
    <3> USE <2>1 DEF queryVars, IInv
    <3>1. QueryTypeOK'
      BY DEF QueryTypeOK
    <3>2. Ownership'
      BY DEF Ownership, Permits, Busy, Mutex, Clients, Search, Holds
    <3>3. Exchange'
      BY DEF Exchange, Quiet, OwnRequest, OwnAnswer, Request
    <3>4. ActsCounted'
      BY DEF ActsCounted, Acted, MayAct, OnWire, Attempts
    <3> QED
      BY <3>1, <3>2, <3>3, <3>4
  <2> QED
    BY <2>1, PoolInv, PrepareInv, ConnectInv, WriteInv, ReadHeadInv, ReadDataInv, ManagerInv DEF QueryNext
<1> QED
  BY <1>1, InitIInv, PTL DEF QuerySpec

\* getConnection hands a client to one thread at a time and never comes back
\* without one, for any number of threads and connections.
THEOREM ClientHasOneUser == QuerySpec => []OneUser
<1>1. IInv => OneUser
  BY DEF IInv, Ownership, Clients, Search, Holds, Using, OneUser
<1> QED
  BY <1>1, Invariance, PTL

\* executeQuery returns the answer to its own request, and the query manager
\* acts on a request at most as often as there are attempts.
THEOREM AnswerBelongs == QuerySpec => []QueryAnswered
<1>1. IInv => QueryAnswered
  <2> SUFFICES ASSUME IInv PROVE QueryAnswered
    OBVIOUS
  <2>1. ASSUME NEW r \in DOMAIN manager.acted PROVE manager.acted[r] <= MaxAttempts
    <3>1. r \in UserRequest
      BY DEF IInv, QueryTypeOK
    <3>2. Acted(r) + MayAct(r) <= Attempts(r)
      BY <3>1 DEF IInv, ActsCounted
    <3>3. Acted(r) = manager.acted[r]
      BY DEF Acted
    <3>4. Acted(r) \in Nat /\ MayAct(r) \in Nat /\ Attempts(r) \in Int /\ Attempts(r) <= MaxAttempts
      BY <3>1, CountTypes DEF IInv
    <3> QED
      BY <3>2, <3>3, <3>4, QueryAssumption
  <2> QED
    BY <2>1 DEF IInv, Exchange, OwnAnswer, QueryAnswered
<1> QED
  BY <1>1, Invariance, PTL

=============================================================================
