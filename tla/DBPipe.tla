------------------------------- MODULE DBPipe -------------------------------
(***************************************************************************)
(* The asynchronous database path: Lua coroutines on the logic thread call *)
(* g_oMongoDB, which queues an sQuery and returns a transaction ID; DB.lua *)
(* yields, and the caller files the coroutine in DBTManager under that ID. *)
(* The one DBThread executes the queries in turn and queues the results;   *)
(* dbDispatch resumes the coroutine of each.  The module also holds the    *)
(* orderly exit, which saves every character through this path.            *)
(*                                                                         *)
(* Both queues are RoundQueues, used here as the BoundedFifo they are      *)
(* shown to implement.  Every Push of this path ignores the answer, so     *)
(* what a full queue refuses is lost.  A document is a counter of the      *)
(* changes it has seen; a write stores the count it was made from.         *)
(***************************************************************************)
EXTENDS Integers, Sequences, FiniteSets

CONSTANTS
  Workers,   \* coroutines of packet, timer and HTTP handlers
  Humans,    \* online and offline characters: each a document and, at exit, a coroutine
  Shared,    \* documents the modules save synchronously at exit (guild, arena, mail...)
  NoCo,      \* no coroutine
  Idle,      \* the DB thread has no query
  QueueLen,  \* length of the request and of the response queue (20 in Globals.cpp)
  MaxTid,    \* bound: database calls in a run
  MaxVer     \* bound: changes of a document

ASSUME QueueLenAssumption == QueueLen \in Nat \ {0}
ASSUME BoundsAssumption   == MaxTid \in Nat /\ MaxVer \in Nat
ASSUME NamesAssumption ==
  /\ Workers \cap Humans = {} /\ Shared \cap Humans = {}
  /\ NoCo \notin Workers \cup Humans

VARIABLES
  lastTid,     \* LuaMongoDB::s_uiTID
  waits,       \* the call each coroutine is suspended in, 0 when in none
  DBTManager,  \* the coroutine filed under each transaction ID
  requestQ,    \* g_pDBRequestQueue
  running,     \* the query DBThread::Run is executing
  responseQ,   \* g_pDBResponseQueue
  mem,         \* changes each document has seen in memory
  stored,      \* changes the database holds of each document
  phase,       \* of the process: run, saving and draining (exit), exited
  toSave,      \* characters onHumanExit has yet to reach
  due,         \* what each character's save at exit is to store
  reported,    \* characters whose save at exit was answered with an error
  clean        \* the process left by _OnGameExit, not by the 30 s limit

callVars == <<lastTid, waits, DBTManager>>
dbVars   == <<requestQ, running, responseQ, stored>>
exitVars == <<phase, toSave, due, reported, clean>>
vars == <<callVars, dbVars, mem, exitVars>>

Cos    == Workers \cup Humans
Docs   == Humans \cup Shared
Tids   == 1 .. MaxTid
Ver    == 0 .. MaxVer
Query  == [tid : Tids, op : {"find", "update"}, doc : Docs, ver : Ver]
Result == [tid : Tids, ok : BOOLEAN, ver : Ver]

ASSUME IdleAssumption == Idle \notin Query

Init ==
  /\ lastTid = 0
  /\ waits = [c \in Cos |-> 0]
  /\ DBTManager = [t \in Tids |-> NoCo]
  /\ requestQ = <<>> /\ running = Idle /\ responseQ = <<>>
  /\ mem = [d \in Docs |-> 0]
  /\ stored = [d \in Docs |-> 0]
  /\ phase = "run" /\ toSave = Humans /\ due = [h \in Humans |-> 0]
  /\ reported = {} /\ clean = FALSE

\* Bound: the last transaction IDs are kept for the saves at exit.
SpareTid == lastTid + Cardinality(toSave) < MaxTid
-----------------------------------------------------------------------------
\* Mutant: the queue refuses nothing.
PushedUnbounded(q, x) == Append(q, x)

\* Mutant: the ring keeps a slot free to tell full from empty.
PushedOneFree(q, x) == IF Len(q) < QueueLen - 1 THEN Append(q, x) ELSE q

\* RoundQueue::Push, its answer ignored.
Pushed(q, x) == IF Len(q) < QueueLen THEN Append(q, x) ELSE q

\* Mutant: the coroutine is filed under the ID of the previous call.
CallsUnderOldTid(c, op, d, filed) ==
  /\ lastTid < MaxTid
  /\ lastTid' = lastTid + 1
  /\ requestQ' = Pushed(requestQ,
       [tid |-> lastTid + 1, op |-> op, doc |-> d, ver |-> mem[d]])
  /\ waits' = [waits EXCEPT ![c] = lastTid + 1]
  /\ DBTManager' = [filed EXCEPT ![IF lastTid = 0 THEN 1 ELSE lastTid] = c]

(* Coroutine c calls DB.Find (op = "find") or DB.Update, which sends the   *)
(* whole document as it is now, and yields; filed is DBTManager without    *)
(* the call that c comes from.                                             *)
Calls(c, op, d, filed) ==
  /\ lastTid < MaxTid
  /\ lastTid' = lastTid + 1
  /\ requestQ' = Pushed(requestQ,
       [tid |-> lastTid + 1, op |-> op, doc |-> d, ver |-> mem[d]])
  /\ waits' = [waits EXCEPT ![c] = lastTid + 1]
  /\ DBTManager' = [filed EXCEPT ![lastTid + 1] = c]

\* A handler changes a document in memory and leaves the saving to a later one.
Change(d) ==
  /\ phase \in {"run", "draining"}
  /\ mem[d] < MaxVer
  /\ mem' = [mem EXCEPT ![d] = @ + 1]
  /\ UNCHANGED <<callVars, dbVars, exitVars>>

(* A packet (until exit, when MsgDispatch becomes a no-op), a timer or an  *)
(* HTTP request starts a coroutine that calls the database.                *)
StartWorker(w, op, d) ==
  /\ phase \in {"run", "draining"}
  /\ waits[w] = 0 /\ SpareTid
  /\ Calls(w, op, d, DBTManager)
  /\ UNCHANGED <<running, responseQ, stored, mem, exitVars>>
-----------------------------------------------------------------------------
\* DBThread::Run.

\* Mutant: the newest query is served first.
DBTakeNewest ==
  /\ phase # "exited"
  /\ running = Idle /\ requestQ # <<>>
  /\ running' = requestQ[Len(requestQ)]
  /\ requestQ' = SubSeq(requestQ, 1, Len(requestQ) - 1)
  /\ UNCHANGED <<callVars, responseQ, stored, mem, exitVars>>

DBTake ==
  /\ phase # "exited"
  /\ running = Idle /\ requestQ # <<>>
  /\ running' = Head(requestQ)
  /\ requestQ' = Tail(requestQ)
  /\ UNCHANGED <<callVars, responseQ, stored, mem, exitVars>>

\* What the result of a query holds: a find reads its document.
Found(q, ok) == IF ok /\ q.op = "find" THEN stored[q.doc] ELSE 0

DBExec(ok) ==
  /\ phase # "exited"
  /\ running # Idle
  /\ stored' = IF ok /\ running.op = "update"
                 THEN [stored EXCEPT ![running.doc] = running.ver] ELSE stored
  /\ responseQ' = Pushed(responseQ, [tid |-> running.tid, ok |-> ok, ver |-> Found(running, ok)])
  /\ running' = Idle
  /\ UNCHANGED <<callVars, requestQ, mem, exitVars>>
-----------------------------------------------------------------------------
(* HandleDBPacket pops a result and calls dbDispatch, which resumes the    *)
(* coroutine; it ends or calls the database again.  During the exit the    *)
(* wrapper installed by DB.onGameExit leaves once nobody waits.            *)

Leaves(filed) ==
  IF phase = "draining" /\ \A t \in Tids : filed[t] = NoCo
    THEN phase' = "exited" /\ clean' = TRUE
    ELSE UNCHANGED <<phase, clean>>

Reports(c, ok) == reported' = IF c \in Humans /\ ~ok THEN reported \cup {c} ELSE reported

\* Mutant: the finished call stays filed.
DispatchEndKeepsFiled ==
  /\ phase \in {"run", "draining"} /\ responseQ # <<>>
  /\ LET t == Head(responseQ).tid
         c == DBTManager[t]
     IN  /\ c # NoCo
         /\ waits' = [waits EXCEPT ![c] = 0]
         /\ Leaves(DBTManager)
         /\ Reports(c, Head(responseQ).ok)
  /\ responseQ' = Tail(responseQ)
  /\ UNCHANGED <<lastTid, DBTManager, requestQ, running, stored, mem, toSave, due>>

DispatchEnd ==
  /\ phase \in {"run", "draining"} /\ responseQ # <<>>
  /\ LET t == Head(responseQ).tid
         c == DBTManager[t]
     IN  /\ c # NoCo
         /\ waits' = [waits EXCEPT ![c] = 0]
         /\ DBTManager' = [DBTManager EXCEPT ![t] = NoCo]
         /\ Leaves(DBTManager')
         /\ Reports(c, Head(responseQ).ok)
  /\ responseQ' = Tail(responseQ)
  /\ UNCHANGED <<lastTid, requestQ, running, stored, mem, toSave, due>>

DispatchCall(op, d) ==
  /\ phase \in {"run", "draining"} /\ responseQ # <<>>
  /\ LET t == Head(responseQ).tid
         c == DBTManager[t]
     IN  /\ c \in Workers /\ SpareTid
         /\ Calls(c, op, d, [DBTManager EXCEPT ![t] = NoCo])
  /\ responseQ' = Tail(responseQ)
  /\ UNCHANGED <<running, stored, mem, exitVars>>
-----------------------------------------------------------------------------
(* The exit: SignalCB calls GameExit, which keeps the logic thread until   *)
(* FinishExit while the DB thread goes on.                                 *)

\* The modules save their documents over the logic thread's own connection.
SignalExit ==
  /\ phase = "run"
  /\ phase' = "saving"
  /\ stored' = [d \in Docs |-> IF d \in Shared THEN mem[d] ELSE stored[d]]
  /\ UNCHANGED <<callVars, requestQ, running, responseQ, mem, toSave, due, reported, clean>>

\* HumanManager.onHumanExit: one coroutine per character releases and saves it.
ExitHuman(h) ==
  /\ phase = "saving" /\ h \in toSave
  /\ Calls(h, "update", h, DBTManager)
  /\ toSave' = toSave \ {h}
  /\ due' = [due EXCEPT ![h] = mem[h]]
  /\ UNCHANGED <<running, responseQ, stored, mem, phase, reported, clean>>

\* Mutant: DB.onGameExit leaves without waiting for the saves.
FinishExitAtOnce ==
  /\ phase = "saving" /\ toSave = {}
  /\ phase' = "exited" /\ clean' = TRUE
  /\ UNCHANGED <<callVars, dbVars, mem, toSave, due, reported>>

\* DB.onGameExit.
FinishExit ==
  /\ phase = "saving" /\ toSave = {}
  /\ IF \A t \in Tids : DBTManager[t] = NoCo
       THEN phase' = "exited" /\ clean' = TRUE
       ELSE phase' = "draining" /\ UNCHANGED clean
  /\ UNCHANGED <<callVars, dbVars, mem, toSave, due, reported>>

\* event_base_loopexit after 30 s, taken to be time enough to empty the queues.
LoopTimeout ==
  /\ phase = "draining"
  /\ requestQ = <<>> /\ running = Idle /\ responseQ = <<>>
  /\ phase' = "exited"
  /\ UNCHANGED <<callVars, dbVars, mem, toSave, due, reported, clean>>
-----------------------------------------------------------------------------
Ops == {"find", "update"}

DBStep == DBTake \/ \E ok \in BOOLEAN : DBExec(ok)

Dispatch == DispatchEnd \/ \E op \in Ops, d \in Docs : DispatchCall(op, d)

ExitStep == (\E h \in Humans : ExitHuman(h)) \/ FinishExit \/ LoopTimeout

Next ==
  \/ \E d \in Docs : Change(d)
  \/ \E w \in Workers, op \in Ops, d \in Docs : StartWorker(w, op, d)
  \/ DBStep
  \/ Dispatch
  \/ SignalExit
  \/ ExitStep

(* The DB thread loops for ever, the logic timer pops every frame, and the *)
(* exit, once begun, runs to its end or to the limit of 30 s.              *)
Fairness == WF_vars(DBStep) /\ WF_vars(Dispatch) /\ WF_vars(ExitStep)

Spec == Init /\ [][Next]_vars
FairSpec == Spec /\ Fairness
-----------------------------------------------------------------------------
(* The type invariant.                                                     *)
TypeOK ==
  /\ lastTid \in 0 .. MaxTid
  /\ waits \in [Cos -> 0 .. MaxTid]
  /\ DBTManager \in [Tids -> Cos \cup {NoCo}]
  /\ requestQ \in Seq(Query) /\ Len(requestQ) <= QueueLen
  /\ running \in Query \cup {Idle}
  /\ responseQ \in Seq(Result) /\ Len(responseQ) <= QueueLen
  /\ mem \in [Docs -> Ver]
  /\ stored \in [Docs -> Ver]
  /\ phase \in {"run", "saving", "draining", "exited"}
  /\ toSave \in SUBSET Humans
  /\ due \in [Humans -> Ver]
  /\ reported \in SUBSET Humans
  /\ clean \in BOOLEAN

(* DBTManager and the suspended coroutines agree: what is filed under a    *)
(* transaction ID is the coroutine that yielded it, and whoever waits is   *)
(* filed, so no coroutine is ever resumed with another call's answer       *)
(* (DB.lua dbDispatch, Network.lua MsgDispatch, Timer.lua TimerDispatch).  *)
FiledAsWaiting ==
  \A t \in Tids, c \in Cos : DBTManager[t] = c <=> waits[c] = t

(* Every query and result under way belongs to a call that is still        *)
(* waited for: dbDispatch never meets an ID it does not know, and a call   *)
(* is answered at most once.                                               *)
UnderWay ==
  responseQ
    \o (IF running = Idle THEN <<>> ELSE <<running>>)
    \o requestQ
AnswersAwaited ==
  /\ \A k \in DOMAIN UnderWay : DBTManager[UnderWay[k].tid] # NoCo
  /\ \A j, k \in DOMAIN UnderWay : j < k => UnderWay[j].tid < UnderWay[k].tid

(* The saves of a document reach the database in the order they were made: *)
(* a write never puts an older copy over a newer one.  Once the exit has   *)
(* begun this is claimed of characters only, since the synchronous saves   *)
(* of the modules overtake what is queued.                                 *)
SavesInOrder ==
  [][\A d \in Docs : d \in Humans \/ phase = "run" => stored'[d] >= stored[d]]_vars

(* When the process leaves by _OnGameExit, every character is stored as it *)
(* was when the exit reached it, or the failure of its save was reported   *)
(* (HumanManager.onHumanExit, DB.onGameExit).                              *)
CleanExitStoresAll ==
  phase = "exited" /\ clean =>
    \A h \in Humans : stored[h] >= due[h] \/ h \in reported

(* With queues that hold every coroutine's call, nobody is forgotten: for  *)
(* each coroutine that waits, its call or its answer is under way.         *)
NobodyForgotten ==
  \A c \in Cos : waits[c] # 0 => \E k \in DOMAIN UnderWay : UnderWay[k].tid = waits[c]

(* With queues that hold every coroutine's call, each call is answered,    *)
(* unless the process leaves first.                                        *)
EveryCallAnswered ==
  \A c \in Cos, t \in Tids : waits[c] = t ~> waits[c] # t \/ phase = "exited"

(* With such queues an exit ends by _OnGameExit, not by the 30 s limit.    *)
ExitIsClean == phase = "saving" ~> phase = "exited" /\ clean

(* HumanManager.lua:172 says of onGameExit that the game's exit puts the   *)
(* data into the database: every character is stored, or its failure is    *)
(* reported.  A full request queue makes it false.                         *)
ExitStoresEveryone ==
  phase = "exited" => \A h \in Humans : stored[h] >= due[h] \/ h \in reported
-----------------------------------------------------------------------------
(* The refinement mapping: a call stands in line until DBThread::Run has   *)
(* executed its query, and is answered when dbDispatch pops the result.    *)
Pending == IF running = Idle THEN requestQ ELSE <<running>> \o requestQ

CallOf(q)  == [by |-> DBTManager[q.tid], op |-> q.op, doc |-> q.doc, ver |-> q.ver]
ReplyOf(r) == [by |-> DBTManager[r.tid], ok |-> r.ok, ver |-> r.ver]

Waiting == {c \in Cos : waits[c] # 0}
Line    == [k \in DOMAIN Pending |-> CallOf(Pending[k])]
Replies == [k \in DOMAIN responseQ |-> ReplyOf(responseQ[k])]

Service ==
  INSTANCE AsyncStore WITH
    Callers <- Cos, StoreDocs <- Docs, Versions <- Ver, Synced <- Shared, Capacity <- QueueLen,
    suspended <- Waiting, line <- Line, replies <- Replies, store <- stored

(* The path is a store that carries out the calls in the order in which    *)
(* the coroutines made them, one by one, and gives each answer to the      *)
(* coroutine that asked: transaction IDs, the two queues, the DB thread    *)
(* and dbDispatch are invisible, and only a full queue loses anything.     *)
ImplementsStore == Service!StoreSpec
-----------------------------------------------------------------------------
(* The path seen from the callers: a document with every call made so far, *)
(* and an answer settled from the calls before it.                         *)
Newest(S) == CHOOSE k \in S : \A j \in S : j <= k

\* Document d, stored as in s, when the first n calls of line q have taken effect.
After(s, q, n, d) ==
  LET writes == {k \in 1 .. n : q[k].op = "update" /\ q[k].doc = d}
  IN  IF writes = {} THEN s[d] ELSE q[Newest(writes)].ver

Promised(s, q, k) == IF q[k].op = "find" THEN After(s, q, k - 1, q[k].doc) ELSE 0

Seen == [d \in Docs |-> After(stored, Pending, Len(Pending), d)]
Owed ==
  [k \in 1 .. Len(responseQ) + Len(Pending) |->
     IF k <= Len(responseQ)
       THEN [by |-> DBTManager[responseQ[k].tid], ver |-> responseQ[k].ver]
       ELSE LET i == k - Len(responseQ)
            IN  [by |-> DBTManager[Pending[i].tid], ver |-> Promised(stored, Pending, i)]]

Eager ==
  INSTANCE EagerStore WITH
    Callers <- Cos, EagerDocs <- Docs, Versions <- Ver, docs <- Seen, owed <- Owed

(* With queues that hold every coroutine's call, a call takes effect when  *)
(* it is made, and nothing that happens until its answer changes what that *)
(* will be, but the failure of a query and the synchronous saves of the    *)
(* exit.  Session and the modules of the game are written on this store.   *)
TakesEffectWhenCalled ==
  /\ Eager!EagerInit
  /\ [][~SignalExit /\ ~DBExec(FALSE) => [Eager!EagerNext]_(Eager!eagerVars)]_vars
=============================================================================
