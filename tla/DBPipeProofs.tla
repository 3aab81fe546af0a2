---------------------------- MODULE DBPipeProofs ----------------------------
(* Proofs about DBPipe, for every length of the queues, every set of       *)
(* coroutines and documents, and all bounds.                               *)
EXTENDS DBPipe, SequenceTheorems, FunctionTheorems, FiniteSetTheorems,
        WellFoundedInduction, TLAPS

(* What is in a queue after a Push whose answer is ignored, and a Pop.     *)
LEMMA PushedItems ==
  ASSUME NEW S, NEW q \in Seq(S), NEW x \in S, Len(q) <= QueueLen
  PROVE  /\ Pushed(q, x) \in Seq(S) /\ Len(Pushed(q, x)) <= QueueLen
         /\ \A k \in DOMAIN Pushed(q, x) :
              \/ k \in DOMAIN q /\ Pushed(q, x)[k] = q[k]
              \/ k = Len(q) + 1 /\ Pushed(q, x)[k] = x
<1>1. CASE Len(q) < QueueLen
  BY <1>1, QueueLenAssumption DEF Pushed
<1>2. CASE ~(Len(q) < QueueLen)
  BY <1>2 DEF Pushed
<1> QED BY <1>1, <1>2

LEMMA PoppedItems ==
  ASSUME NEW S, NEW q \in Seq(S), q # <<>>
  PROVE  /\ Tail(q) \in Seq(S) /\ Len(Tail(q)) <= Len(q)
         /\ Head(q) = q[1] /\ Head(q) \in S /\ 1 \in DOMAIN q
         /\ \A k \in DOMAIN Tail(q) : k + 1 \in DOMAIN q /\ Tail(q)[k] = q[k + 1]
OBVIOUS

LEMMA ResponsePopped ==
  ASSUME TypeOK, responseQ # <<>>
  PROVE  /\ Head(responseQ) = responseQ[1] /\ 1 \in DOMAIN responseQ
         /\ Head(responseQ).tid \in Tids /\ Head(responseQ).ok \in BOOLEAN
         /\ Tail(responseQ) \in Seq(Result) /\ Len(Tail(responseQ)) <= QueueLen
         /\ \A k \in DOMAIN Tail(responseQ) :
              k + 1 \in DOMAIN responseQ /\ Tail(responseQ)[k] = responseQ[k + 1]
<1>1. responseQ \in Seq(Result) /\ Len(responseQ) <= QueueLen
  BY DEF TypeOK
<1>2. /\ Tail(responseQ) \in Seq(Result) /\ Len(Tail(responseQ)) <= Len(responseQ)
      /\ Head(responseQ) = responseQ[1] /\ Head(responseQ) \in Result /\ 1 \in DOMAIN responseQ
      /\ \A k \in DOMAIN Tail(responseQ) :
           k + 1 \in DOMAIN responseQ /\ Tail(responseQ)[k] = responseQ[k + 1]
  BY <1>1, PoppedItems
<1>3. Head(responseQ).tid \in Tids /\ Head(responseQ).ok \in BOOLEAN
  BY <1>2 DEF Result
<1>4. Len(Tail(responseQ)) <= QueueLen
  BY <1>1, <1>2, QueueLenAssumption
<1> QED BY <1>2, <1>3, <1>4

LEMMA RequestPopped ==
  ASSUME TypeOK, requestQ # <<>>
  PROVE  /\ Head(requestQ) = requestQ[1] /\ 1 \in DOMAIN requestQ /\ Head(requestQ) \in Query
         /\ Tail(requestQ) \in Seq(Query) /\ Len(Tail(requestQ)) <= QueueLen
         /\ \A k \in DOMAIN Tail(requestQ) :
              k + 1 \in DOMAIN requestQ /\ Tail(requestQ)[k] = requestQ[k + 1]
<1>1. requestQ \in Seq(Query) /\ Len(requestQ) <= QueueLen
  BY DEF TypeOK
<1>2. /\ Tail(requestQ) \in Seq(Query) /\ Len(Tail(requestQ)) <= Len(requestQ)
      /\ Head(requestQ) = requestQ[1] /\ Head(requestQ) \in Query /\ 1 \in DOMAIN requestQ
      /\ \A k \in DOMAIN Tail(requestQ) :
           k + 1 \in DOMAIN requestQ /\ Tail(requestQ)[k] = requestQ[k + 1]
  BY <1>1, PoppedItems
<1>3. Len(Tail(requestQ)) <= QueueLen
  BY <1>1, <1>2, QueueLenAssumption
<1> QED BY <1>2, <1>3
-----------------------------------------------------------------------------
LEMMA CallsTypes ==
  ASSUME TypeOK, NEW c \in Cos, NEW op \in Ops, NEW d \in Docs,
         NEW filed \in [Tids -> Cos \cup {NoCo}], Calls(c, op, d, filed)
  PROVE  /\ lastTid' \in 0 .. MaxTid /\ lastTid' = lastTid + 1 /\ lastTid' \in Tids
         /\ waits' \in [Cos -> 0 .. MaxTid]
         /\ DBTManager' \in [Tids -> Cos \cup {NoCo}]
         /\ requestQ' \in Seq(Query) /\ Len(requestQ') <= QueueLen
         /\ \A k \in DOMAIN requestQ' :
              \/ k \in DOMAIN requestQ /\ requestQ'[k] = requestQ[k]
              \/ /\ k = Len(requestQ) + 1
                 /\ requestQ'[k] = [tid |-> lastTid + 1, op |-> op, doc |-> d, ver |-> mem[d]]
<1>1. lastTid + 1 \in Tids /\ lastTid' = lastTid + 1
  BY BoundsAssumption DEF Calls, TypeOK, Tids
<1>2. [tid |-> lastTid + 1, op |-> op, doc |-> d, ver |-> mem[d]] \in Query
  BY <1>1 DEF TypeOK, Query, Ops
<1>3. requestQ \in Seq(Query) /\ Len(requestQ) <= QueueLen
  BY DEF TypeOK
<1>4. requestQ' = Pushed(requestQ, [tid |-> lastTid + 1, op |-> op, doc |-> d, ver |-> mem[d]])
  BY DEF Calls
<1>5. /\ requestQ' \in Seq(Query) /\ Len(requestQ') <= QueueLen
      /\ \A k \in DOMAIN requestQ' :
              \/ k \in DOMAIN requestQ /\ requestQ'[k] = requestQ[k]
              \/ /\ k = Len(requestQ) + 1
                 /\ requestQ'[k] = [tid |-> lastTid + 1, op |-> op, doc |-> d, ver |-> mem[d]]
  BY <1>2, <1>3, <1>4, PushedItems
<1>6. waits' \in [Cos -> 0 .. MaxTid] /\ DBTManager' \in [Tids -> Cos \cup {NoCo}]
  BY <1>1, BoundsAssumption DEF Calls, TypeOK, Tids
<1> QED BY <1>1, <1>5, <1>6, BoundsAssumption DEF Tids

LEMMA FoundVersion ==
  ASSUME TypeOK, running # Idle, NEW ok \in BOOLEAN
  PROVE  Found(running, ok) \in Ver
<1>1. running.doc \in Docs /\ stored \in [Docs -> Ver] /\ 0 \in Ver
  BY BoundsAssumption DEF TypeOK, Query, Ver
<1> QED BY <1>1 DEF Found

LEMMA TypesKept == ASSUME TypeOK, [Next]_vars PROVE TypeOK'
<1>1. ASSUME NEW d \in Docs, Change(d) PROVE TypeOK'
  BY <1>1, BoundsAssumption DEF Change, TypeOK, callVars, dbVars, exitVars, Ver
<1>2. ASSUME NEW w \in Workers, NEW op \in Ops, NEW d \in Docs, StartWorker(w, op, d)
      PROVE TypeOK'
  <2>1. DBTManager \in [Tids -> Cos \cup {NoCo}] /\ w \in Cos
    BY DEF TypeOK, Cos
  <2> QED BY <1>2, <2>1, CallsTypes DEF StartWorker, TypeOK, exitVars
<1>3. ASSUME DBTake PROVE TypeOK'
  <2>1. /\ Tail(requestQ) \in Seq(Query) /\ Len(Tail(requestQ)) <= QueueLen
        /\ Head(requestQ) \in Query
    BY <1>3, RequestPopped DEF DBTake
  <2> QED BY <1>3, <2>1 DEF DBTake, TypeOK, callVars, exitVars
<1>4. ASSUME NEW ok \in BOOLEAN, DBExec(ok) PROVE TypeOK'
  <2>1. running \in Query
    BY <1>4 DEF DBExec, TypeOK
  <2>2. [tid |-> running.tid, ok |-> ok, ver |-> Found(running, ok)] \in Result
    BY <1>4, <2>1, FoundVersion DEF DBExec, Query, Result
  <2>3. responseQ' \in Seq(Result) /\ Len(responseQ') <= QueueLen
    BY <1>4, <2>2, PushedItems DEF DBExec, TypeOK
  <2>4. stored' \in [Docs -> Ver]
    BY <1>4, <2>1 DEF DBExec, TypeOK, Query
  <2> QED BY <1>4, <2>3, <2>4 DEF DBExec, TypeOK, callVars, exitVars
<1>5. ASSUME DispatchEnd PROVE TypeOK'
  <2>1. /\ Tail(responseQ) \in Seq(Result) /\ Len(Tail(responseQ)) <= QueueLen
        /\ Head(responseQ).tid \in Tids
    BY <1>5, ResponsePopped DEF DispatchEnd
  <2>2. DBTManager[Head(responseQ).tid] \in Cos
    BY <1>5, <2>1 DEF DispatchEnd, TypeOK
  <2>3. waits' \in [Cos -> 0 .. MaxTid] /\ DBTManager' \in [Tids -> Cos \cup {NoCo}]
    BY <1>5, <2>1, <2>2, BoundsAssumption DEF DispatchEnd, TypeOK
  <2>4. reported' \in SUBSET Humans /\ phase' \in {"run", "saving", "draining",
  "exited"} /\ clean' \in BOOLEAN
    BY <1>5 DEF DispatchEnd, TypeOK, Reports, Leaves
  <2> QED BY <1>5, <2>1, <2>3, <2>4 DEF DispatchEnd, TypeOK
<1>6. ASSUME NEW op \in Ops, NEW d \in Docs, DispatchCall(op, d) PROVE TypeOK'
  <2>1. /\ Tail(responseQ) \in Seq(Result) /\ Len(Tail(responseQ)) <= QueueLen
        /\ Head(responseQ).tid \in Tids
    BY <1>6, ResponsePopped DEF DispatchCall
  <2>2. /\ DBTManager[Head(responseQ).tid] \in Cos
        /\ [DBTManager EXCEPT ![Head(responseQ).tid] = NoCo] \in [Tids -> Cos \cup {NoCo}]
    BY <1>6, <2>1 DEF DispatchCall, TypeOK, Cos
  <2> QED BY <1>6, <2>1, <2>2, CallsTypes DEF DispatchCall, TypeOK, exitVars
<1>7. ASSUME SignalExit PROVE TypeOK'
  BY <1>7 DEF SignalExit, TypeOK, callVars
<1>8. ASSUME NEW h \in Humans, ExitHuman(h) PROVE TypeOK'
  <2>1. h \in Cos /\ h \in Docs /\ "update" \in Ops /\ DBTManager \in [Tids -> Cos \cup {NoCo}]
    BY DEF TypeOK, Cos, Docs, Ops
  <2> QED BY <1>8, <2>1, CallsTypes DEF ExitHuman, TypeOK
<1>9. ASSUME FinishExit PROVE TypeOK'
  BY <1>9 DEF FinishExit, TypeOK, callVars, dbVars
<1>10. ASSUME LoopTimeout PROVE TypeOK'
  BY <1>10 DEF LoopTimeout, TypeOK, callVars, dbVars
<1>11. CASE UNCHANGED vars
  BY <1>11 DEF vars, TypeOK, callVars, dbVars, exitVars
<1> QED
  BY <1>1, <1>2, <1>3, <1>4, <1>5, <1>6, <1>7, <1>8, <1>9, <1>10, <1>11
  DEF Next, DBStep, Dispatch, ExitStep

LEMMA TypesBegin == Init => TypeOK
<1> SUFFICES ASSUME Init PROVE TypeOK
  OBVIOUS
<1>1. 0 \in 0 .. MaxTid /\ 0 \in Ver /\ 0 <= QueueLen
  BY BoundsAssumption, QueueLenAssumption DEF Ver
<1>2. <<>> \in Seq(Query) /\ <<>> \in Seq(Result) /\ Len(<<>>) = 0
  OBVIOUS
<1> QED BY <1>1, <1>2 DEF Init, TypeOK

(* The queues stay within their lengths and hold queries and results.      *)
THEOREM TypeCorrect == Spec => []TypeOK
BY TypesBegin, TypesKept, PTL DEF Spec
-----------------------------------------------------------------------------
(* Who is filed: transaction IDs that are not given out yet are free, and  *)
(* a character the exit has not reached is in no call.                     *)
Fresh   == \A t \in Tids : t > lastTid => DBTManager[t] = NoCo
Unsaved == \A h \in toSave : waits[h] = 0

Filing == FiledAsWaiting /\ Fresh /\ Unsaved

LEMMA CallFiles ==
  ASSUME TypeOK, NEW c \in Cos, NEW op \in Ops, NEW d \in Docs,
         NEW filed \in [Tids -> Cos \cup {NoCo}], Calls(c, op, d, filed),
         \A t \in Tids, e \in Cos : filed[t] = e <=> waits[e] = t /\ e # c,
         \A t \in Tids : t > lastTid => filed[t] = NoCo
  PROVE  FiledAsWaiting' /\ Fresh'
<1>1. lastTid' = lastTid + 1 /\ lastTid' \in Tids /\ lastTid \in Nat
  BY CallsTypes, BoundsAssumption DEF TypeOK
<1>2. /\ \A t \in Tids : DBTManager'[t] = IF t = lastTid + 1 THEN c ELSE filed[t]
      /\ \A e \in Cos : waits'[e] = IF e = c THEN lastTid + 1 ELSE waits[e]
  BY <1>1 DEF Calls, TypeOK
<1>3. filed[lastTid + 1] = NoCo
  BY <1>1
<1>4. ASSUME NEW t \in Tids, NEW e \in Cos PROVE DBTManager'[t] = e <=> waits'[e] = t
  <2>1. CASE t = lastTid + 1 /\ e # c
    <3>1. e # NoCo
      BY NamesAssumption DEF Cos
    <3> QED BY <1>2, <1>3, <2>1, <3>1
  <2>2. CASE t = lastTid + 1 /\ e = c
    BY <1>2, <2>2
  <2>3. CASE t # lastTid + 1
    BY <1>2, <2>3
  <2> QED BY <2>1, <2>2, <2>3
<1>5. Fresh'
  BY <1>1, <1>2 DEF Fresh, Tids
<1> QED BY <1>4, <1>5 DEF FiledAsWaiting

LEMMA FilingKept == ASSUME TypeOK, Filing, [Next]_vars PROVE Filing'
<1>0. /\ \A t \in Tids, c \in Cos : DBTManager[t] = c <=> waits[c] = t
      /\ Fresh /\ Unsaved /\ lastTid \in Nat /\ NoCo \notin Cos
      /\ DBTManager \in [Tids -> Cos \cup {NoCo}] /\ waits \in [Cos -> 0 .. MaxTid]
      /\ toSave \subseteq Humans
  BY NamesAssumption DEF Filing, FiledAsWaiting, TypeOK, Cos
<1>1. ASSUME NEW w \in Workers, NEW op \in Ops, NEW d \in Docs, StartWorker(w, op, d)
      PROVE Filing'
  <2>1. w \in Cos /\ waits[w] = 0 /\ w \notin Humans
    BY <1>1, NamesAssumption DEF StartWorker, Cos
  <2>2. \A t \in Tids, e \in Cos : DBTManager[t] = e <=> waits[e] = t /\ e # w
    BY <1>0, <2>1 DEF Tids
  <2>3. FiledAsWaiting' /\ Fresh'
    BY <1>0, <1>1, <2>1, <2>2, CallFiles DEF StartWorker, Fresh
  <2>4. Unsaved'
    BY <1>0, <1>1, <2>1 DEF StartWorker, Calls, Unsaved, exitVars, Cos
  <2> QED BY <2>3, <2>4 DEF Filing
<1>2. ASSUME DispatchEnd PROVE Filing'
  <2> DEFINE t == Head(responseQ).tid
             c == DBTManager[t]
  <2>1. t \in Tids
    BY <1>2, ResponsePopped DEF DispatchEnd
  <2>2. c \in Cos /\ waits[c] = t
    BY <1>0, <1>2, <2>1 DEF DispatchEnd
  <2>3. /\ \A u \in Tids : DBTManager'[u] = IF u = t THEN NoCo ELSE DBTManager[u]
        /\ \A e \in Cos : waits'[e] = IF e = c THEN 0 ELSE waits[e]
        /\ UNCHANGED <<lastTid, toSave>>
    BY <1>0, <1>2 DEF DispatchEnd
  <2> HIDE DEF t, c
  <2>4. ASSUME NEW u \in Tids, NEW e \in Cos PROVE DBTManager'[u] = e <=> waits'[e] = u
    <3>1. u # 0 /\ e # NoCo
      BY <1>0 DEF Tids
    <3>2. CASE u = t
      <4>1. waits[e] = t => e = c
        BY <1>0, <2>1, <2>2 DEF c
      <4> QED BY <2>3, <3>1, <3>2, <4>1
    <3>3. CASE u # t
      BY <1>0, <2>2, <2>3, <3>1, <3>3
    <3> QED BY <3>2, <3>3
  <2>5. Fresh' /\ Unsaved'
    BY <1>0, <2>3 DEF Fresh, Unsaved, Cos
  <2> QED BY <2>4, <2>5 DEF Filing, FiledAsWaiting
<1>3. ASSUME NEW op \in Ops, NEW d \in Docs, DispatchCall(op, d) PROVE Filing'
  <2> DEFINE t == Head(responseQ).tid
             c == DBTManager[t]
             filed == [DBTManager EXCEPT ![t] = NoCo]
  <2>1. t \in Tids
    BY <1>3, ResponsePopped DEF DispatchCall
  <2>2. c \in Workers /\ c \in Cos /\ waits[c] = t /\ Calls(c, op, d, filed) /\ UNCHANGED toSave
    BY <1>0, <1>3, <2>1 DEF DispatchCall, Cos, exitVars
  <2>3. /\ filed \in [Tids -> Cos \cup {NoCo}]
        /\ \A u \in Tids : filed[u] = IF u = t THEN NoCo ELSE DBTManager[u]
    BY <1>0
  <2> HIDE DEF filed
  <2>4. \A u \in Tids, e \in Cos : filed[u] = e <=> waits[e] = u /\ e # c
    <3> HIDE DEF t
    <3> QED BY <1>0, <2>1, <2>2, <2>3
  <2>5. FiledAsWaiting' /\ Fresh'
    <3>1. \A u \in Tids : u > lastTid => filed[u] = NoCo
      BY <1>0, <2>3 DEF Fresh
    <3> HIDE DEF c
    <3> QED BY <2>2, <2>3, <2>4, <3>1, CallFiles
  <2>6. Unsaved'
    <3> HIDE DEF c
    <3> QED BY <1>0, <2>2, NamesAssumption DEF Calls, Unsaved, Cos
  <2> QED BY <2>5, <2>6 DEF Filing
<1>4. ASSUME NEW h \in Humans, ExitHuman(h) PROVE Filing'
  <2>1. h \in Cos /\ h \in Docs /\ "update" \in Ops /\ waits[h] = 0
    BY <1>0, <1>4 DEF ExitHuman, Cos, Docs, Ops, Unsaved
  <2>2. \A t \in Tids, e \in Cos : DBTManager[t] = e <=> waits[e] = t /\ e # h
    BY <1>0, <2>1 DEF Tids
  <2>3. FiledAsWaiting' /\ Fresh'
    BY <1>0, <1>4, <2>1, <2>2, CallFiles DEF ExitHuman, Fresh
  <2>4. Unsaved'
    BY <1>0, <1>4 DEF ExitHuman, Calls, Unsaved, Cos
  <2> QED BY <2>3, <2>4 DEF Filing
<1>5. ASSUME UNCHANGED <<callVars, toSave>> PROVE Filing'
  BY <1>0, <1>5 DEF callVars, Filing, FiledAsWaiting, Fresh, Unsaved
<1> QED
  BY <1>1, <1>2, <1>3, <1>4, <1>5
  DEF Next, DBStep, Dispatch, ExitStep, Change, DBTake, DBExec, SignalExit, FinishExit,
      LoopTimeout,
      vars, exitVars, callVars

LEMMA FilingBegins == Init => Filing
BY NamesAssumption DEF Init, Filing, FiledAsWaiting, Fresh, Unsaved, Tids, Cos

(* No coroutine is resumed with the answer to another's call, however      *)
(* calls, lost queries and the exit interleave (DB.lua dbDispatch).        *)
THEOREM AlwaysFiledAsWaiting == Spec => []FiledAsWaiting
<1>1. Init => TypeOK /\ Filing
  BY TypesBegin, FilingBegins
<1>2. TypeOK /\ Filing /\ [Next]_vars => TypeOK' /\ Filing'
  BY TypesKept, FilingKept
<1>3. Filing => FiledAsWaiting
  BY DEF Filing
<1> QED BY <1>1, <1>2, <1>3, PTL DEF Spec
-----------------------------------------------------------------------------
(* AnswersAwaited part by part: what is in the request queue, with the DB  *)
(* thread and in the response queue is still waited for and in order.      *)
Awaited(q) == \A k \in DOMAIN q : DBTManager[q[k].tid] # NoCo
InOrder(q) == \A j, k \in DOMAIN q : j < k => q[j].tid < q[k].tid

Awaiting ==
  /\ Awaited(responseQ) /\ Awaited(requestQ)
  /\ running # Idle => DBTManager[running.tid] # NoCo
  /\ InOrder(responseQ) /\ InOrder(requestQ)
  /\ \A j \in DOMAIN responseQ, k \in DOMAIN requestQ : responseQ[j].tid < requestQ[k].tid
  /\ running # Idle => /\ \A j \in DOMAIN responseQ : responseQ[j].tid < running.tid
                       /\ \A k \in DOMAIN requestQ : running.tid < requestQ[k].tid

(* IDs under way, and that they are given out.                             *)
LEMMA TidsGiven ==
  ASSUME TypeOK, Fresh, Awaiting
  PROVE  /\ \A k \in DOMAIN responseQ : responseQ[k].tid \in Tids /\ responseQ[k].tid <= lastTid
         /\ \A k \in DOMAIN requestQ : requestQ[k].tid \in Tids /\ requestQ[k].tid <= lastTid
         /\ running # Idle => running.tid \in Tids /\ running.tid <= lastTid
<1>0. lastTid \in Nat /\ \A t \in Tids : DBTManager[t] # NoCo => t <= lastTid
  BY BoundsAssumption DEF TypeOK, Fresh, Tids
<1>1. ASSUME NEW k \in DOMAIN responseQ PROVE responseQ[k].tid \in Tids
  <2>1. responseQ \in Seq(Result)
    BY DEF TypeOK
  <2>2. responseQ[k] \in Result
    BY <2>1
  <2> QED BY <2>2 DEF Result
<1>2. ASSUME NEW k \in DOMAIN requestQ PROVE requestQ[k].tid \in Tids
  <2>1. requestQ \in Seq(Query)
    BY DEF TypeOK
  <2>2. requestQ[k] \in Query
    BY <2>1
  <2> QED BY <2>2 DEF Query
<1>3. running # Idle => running.tid \in Tids
  BY DEF TypeOK, Query
<1> QED BY <1>0, <1>1, <1>2, <1>3 DEF Awaiting, Awaited

(* A call adds one query, with the newest ID, and forgets none that is     *)
(* still under way.                                                        *)
LEMMA CallAwaits ==
  ASSUME TypeOK, Fresh, Awaiting, NEW c \in Cos, NEW op \in Ops, NEW d \in Docs,
         NEW filed \in [Tids -> Cos \cup {NoCo}], Calls(c, op, d, filed), UNCHANGED running,
         \A k \in DOMAIN responseQ' :
           \E j \in DOMAIN responseQ : responseQ'[k] = responseQ[j],
         InOrder(responseQ)',
         \A k \in DOMAIN responseQ' : filed[responseQ'[k].tid] # NoCo,
         \A k \in DOMAIN requestQ : filed[requestQ[k].tid] # NoCo,
         running # Idle => filed[running.tid] # NoCo
  PROVE  Awaiting'
<1> DEFINE new == [tid |-> lastTid + 1, op |-> op, doc |-> d, ver |-> mem[d]]
<1>1. /\ \A k \in DOMAIN requestQ' :
           \/ k \in DOMAIN requestQ /\ requestQ'[k] = requestQ[k]
           \/ k = Len(requestQ) + 1 /\ requestQ'[k] = new
      /\ requestQ' \in Seq(Query) /\ lastTid + 1 \in Tids /\ lastTid \in Nat
  BY CallsTypes, BoundsAssumption DEF TypeOK
<1>2. new.tid = lastTid + 1
  OBVIOUS
<1> HIDE DEF new
<1>3. \A t \in Tids : DBTManager'[t] = IF t = lastTid + 1 THEN c ELSE filed[t]
  BY <1>1 DEF Calls
<1>4. c # NoCo
  BY NamesAssumption DEF Cos
<1>5. /\ \A k \in DOMAIN responseQ : responseQ[k].tid \in Tids /\ responseQ[k].tid <= lastTid
      /\ \A k \in DOMAIN requestQ : requestQ[k].tid \in Tids /\ requestQ[k].tid <= lastTid
      /\ running # Idle => running.tid \in Tids /\ running.tid <= lastTid
  BY TidsGiven
<1>6. Awaited(responseQ)' /\ Awaited(requestQ)' /\ (running # Idle => DBTManager'[running.tid] # NoCo)
  <2>1. Awaited(responseQ)'
    BY <1>3, <1>4, <1>5 DEF Awaited
  <2>2. Awaited(requestQ)'
    BY <1>1, <1>2, <1>3, <1>4, <1>5 DEF Awaited
  <2> QED BY <1>3, <1>4, <1>5, <2>1, <2>2
<1>7. requestQ \in Seq(Query)
  BY DEF TypeOK
<1>8. InOrder(requestQ)'
  <2> SUFFICES ASSUME NEW j \in DOMAIN requestQ', NEW k \in DOMAIN requestQ', j < k
               PROVE  requestQ'[j].tid < requestQ'[k].tid
    BY DEF InOrder
  <2>1. CASE k \in DOMAIN requestQ /\ requestQ'[k] = requestQ[k]
    <3>1. j \in DOMAIN requestQ /\ requestQ'[j] = requestQ[j]
      BY <1>1, <1>7, <2>1
    <3> QED BY <2>1, <3>1 DEF Awaiting, InOrder
  <2>2. CASE k = Len(requestQ) + 1 /\ requestQ'[k] = new
    <3>1. j \in DOMAIN requestQ /\ requestQ'[j] = requestQ[j]
      BY <1>1, <1>7, <2>2
    <3>2. requestQ[j].tid \in Nat /\ requestQ[j].tid <= lastTid
      BY <1>5, <3>1 DEF Tids
    <3> QED BY <1>1, <1>2, <2>2, <3>1, <3>2
  <2> QED BY <1>1, <2>1, <2>2
<1>9. ASSUME NEW j \in DOMAIN responseQ', NEW k \in DOMAIN requestQ'
      PROVE  responseQ'[j].tid < requestQ'[k].tid
  <2>1. PICK i \in DOMAIN responseQ : responseQ'[j] = responseQ[i]
    OBVIOUS
  <2>2. responseQ[i].tid \in Nat /\ responseQ[i].tid <= lastTid
    BY <1>5 DEF Tids
  <2> QED BY <1>1, <1>2, <2>1, <2>2 DEF Awaiting
<1>10. ASSUME running # Idle
       PROVE  /\ \A j \in DOMAIN responseQ' : responseQ'[j].tid < running.tid
              /\ \A k \in DOMAIN requestQ' : running.tid < requestQ'[k].tid
  <2>1. running.tid \in Nat /\ running.tid <= lastTid
    BY <1>5, <1>10 DEF Tids
  <2> QED BY <1>1, <1>2, <1>10, <2>1 DEF Awaiting
<1> QED BY <1>6, <1>8, <1>9, <1>10 DEF Awaiting

LEMMA AwaitingKept == ASSUME TypeOK, Filing, Awaiting, [Next]_vars PROVE Awaiting'
<1>0. /\ FiledAsWaiting /\ Fresh /\ NoCo \notin Cos
      /\ responseQ \in Seq(Result) /\ requestQ \in Seq(Query)
      /\ DBTManager \in [Tids -> Cos \cup {NoCo}]
  BY NamesAssumption DEF Filing, TypeOK, Cos
<1>00. /\ \A k \in DOMAIN responseQ : responseQ[k].tid \in Tids /\ responseQ[k].tid <= lastTid
       /\ \A k \in DOMAIN requestQ : requestQ[k].tid \in Tids /\ requestQ[k].tid <= lastTid
       /\ running # Idle => running.tid \in Tids /\ running.tid <= lastTid
  BY <1>0, TidsGiven
<1>1. ASSUME NEW w \in Workers, NEW op \in Ops, NEW d \in Docs, StartWorker(w, op, d)
      PROVE Awaiting'
  <2>1. Calls(w, op, d, DBTManager) /\ w \in Cos /\ UNCHANGED <<running, responseQ>>
    BY <1>1 DEF StartWorker, Cos
  <2> QED BY <1>0, <2>1, CallAwaits DEF Awaiting, Awaited, InOrder
<1>2. ASSUME DBTake PROVE Awaiting'
  <2>1. /\ Head(requestQ) = requestQ[1] /\ 1 \in DOMAIN requestQ
        /\ Tail(requestQ) \in Seq(Query)
        /\ \A k \in DOMAIN Tail(requestQ) :
             k + 1 \in DOMAIN requestQ /\ Tail(requestQ)[k] = requestQ[k + 1]
    BY <1>2, RequestPopped DEF DBTake
  <2>2. /\ requestQ' = Tail(requestQ) /\ running' = requestQ[1]
        /\ UNCHANGED <<responseQ, DBTManager>>
    BY <1>2, <2>1 DEF DBTake, callVars
  <2>3. Awaited(responseQ)' /\ Awaited(requestQ)' /\ DBTManager'[running'.tid] # NoCo
    BY <2>1, <2>2 DEF Awaiting, Awaited
  <2>4. InOrder(responseQ)'
    BY <2>2 DEF Awaiting, InOrder
  <2>5. InOrder(requestQ)'
    BY <2>1, <2>2 DEF Awaiting, InOrder
  <2>6. \A j \in DOMAIN responseQ', k \in DOMAIN requestQ' : responseQ'[j].tid < requestQ'[k].tid
    BY <2>1, <2>2 DEF Awaiting
  <2>7. \A j \in DOMAIN responseQ' : responseQ'[j].tid < running'.tid
    BY <2>1, <2>2 DEF Awaiting
  <2>8. \A k \in DOMAIN requestQ' : running'.tid < requestQ'[k].tid
    BY <2>1, <2>2 DEF Awaiting, InOrder
  <2> QED BY <2>3, <2>4, <2>5, <2>6, <2>7, <2>8 DEF Awaiting
<1>3. ASSUME NEW ok \in BOOLEAN, DBExec(ok) PROVE Awaiting'
  <2> DEFINE new == [tid |-> running.tid, ok |-> ok, ver |-> Found(running, ok)]
  <2>1. running # Idle /\ running' = Idle /\ UNCHANGED <<requestQ, DBTManager>>
    BY <1>3 DEF DBExec, callVars
  <2>2. new \in Result /\ new.tid = running.tid
    BY <2>1, <1>00, <1>3, FoundVersion DEF DBExec, Result
  <2>a. responseQ' = Pushed(responseQ, new) /\ Len(responseQ) <= QueueLen
    BY <1>3 DEF DBExec, TypeOK
  <2>3. \A k \in DOMAIN responseQ' : \/ k \in DOMAIN responseQ /\ responseQ'[k] = responseQ[k]
                                     \/ k = Len(responseQ) + 1 /\ responseQ'[k] = new
    BY <1>0, <2>2, <2>a, PushedItems
  <2>4. responseQ' \in Seq(Result)
    BY <1>0, <2>2, <2>a, PushedItems
  <2> HIDE DEF new
  <2>5. Awaited(responseQ)' /\ Awaited(requestQ)'
    BY <2>1, <2>2, <2>3 DEF Awaiting, Awaited
  <2>6. InOrder(requestQ)'
    BY <2>1 DEF Awaiting, InOrder
  <2>7. InOrder(responseQ)'
    <3> SUFFICES ASSUME NEW j \in DOMAIN responseQ', NEW k \in DOMAIN responseQ', j < k
                 PROVE  responseQ'[j].tid < responseQ'[k].tid
      BY DEF InOrder
    <3>1. j \in DOMAIN responseQ /\ responseQ'[j] = responseQ[j]
      BY <1>0, <2>3, <2>4
    <3> QED BY <2>1, <2>2, <2>3, <3>1 DEF Awaiting, InOrder
  <2>8. \A j \in DOMAIN responseQ', k \in DOMAIN requestQ' : responseQ'[j].tid < requestQ'[k].tid
    BY <2>1, <2>2, <2>3 DEF Awaiting
  <2> QED BY <2>1, <2>5, <2>6, <2>7, <2>8 DEF Awaiting
<1>4. ASSUME responseQ # <<>>, responseQ' = Tail(responseQ)
      PROVE  /\ \A k \in DOMAIN responseQ' : \E j \in DOMAIN responseQ : responseQ'[k] = responseQ[j]
             /\ InOrder(responseQ)'
             /\ Head(responseQ).tid \in Tids
             /\ \A k \in DOMAIN responseQ' : Head(responseQ).tid < responseQ'[k].tid
             /\ \A k \in DOMAIN requestQ : Head(responseQ).tid < requestQ[k].tid
             /\ running # Idle => Head(responseQ).tid < running.tid
  <2>1. /\ Head(responseQ) = responseQ[1] /\ 1 \in DOMAIN responseQ
        /\ Tail(responseQ) \in Seq(Result)
        /\ \A k \in DOMAIN Tail(responseQ) :
             k + 1 \in DOMAIN responseQ /\ Tail(responseQ)[k] = responseQ[k + 1]
    BY <1>4, ResponsePopped
  <2>2. \A k \in DOMAIN responseQ' : \E j \in DOMAIN responseQ : responseQ'[k] = responseQ[j]
    BY <1>4, <2>1
  <2>3. InOrder(responseQ)'
    BY <1>4, <2>1 DEF Awaiting, InOrder
  <2>4. \A k \in DOMAIN responseQ' : Head(responseQ).tid < responseQ'[k].tid
    BY <1>4, <2>1 DEF Awaiting, InOrder
  <2> QED BY <1>00, <2>1, <2>2, <2>3, <2>4 DEF Awaiting
<1>5. ASSUME DispatchEnd PROVE Awaiting'
  <2> DEFINE t == Head(responseQ).tid
  <2>1. /\ responseQ # <<>> /\ responseQ' = Tail(responseQ) /\ UNCHANGED <<requestQ, running>>
        /\ DBTManager' = [DBTManager EXCEPT ![t] = NoCo]
    BY <1>5 DEF DispatchEnd
  <2>2. \A u \in Tids : u # t => DBTManager'[u] = DBTManager[u]
    BY <1>0, <2>1
  <2>3. /\ \A k \in DOMAIN responseQ' : \E j \in DOMAIN responseQ : responseQ'[k] = responseQ[j]
        /\ InOrder(responseQ)' /\ t \in Tids
        /\ \A k \in DOMAIN responseQ' : t < responseQ'[k].tid
        /\ \A k \in DOMAIN requestQ : t < requestQ[k].tid
        /\ running # Idle => t < running.tid
    BY <1>4, <2>1
  <2>a. \A u \in Tids : t < u => u # t
    BY <2>3 DEF Tids
  <2> HIDE DEF t
  <2>4. Awaited(responseQ)' /\ Awaited(requestQ)' /\ (running' # Idle => DBTManager'[running'.tid] # NoCo)
    <3>1. Awaited(responseQ)'
      BY <1>00, <2>2, <2>3, <2>a DEF Awaiting, Awaited
    <3>2. Awaited(requestQ)'
      BY <1>00, <2>1, <2>2, <2>3, <2>a DEF Awaiting, Awaited
    <3>3. running' # Idle => DBTManager'[running'.tid] # NoCo
      BY <1>00, <2>1, <2>2, <2>3, <2>a DEF Awaiting
    <3> QED BY <3>1, <3>2, <3>3
  <2> QED BY <2>1, <2>3, <2>4 DEF Awaiting, InOrder
<1>6. ASSUME NEW op \in Ops, NEW d \in Docs, DispatchCall(op, d) PROVE Awaiting'
  <2> DEFINE t == Head(responseQ).tid
             c == DBTManager[t]
             filed == [DBTManager EXCEPT ![t] = NoCo]
  <2>1. /\ responseQ # <<>> /\ responseQ' = Tail(responseQ) /\ UNCHANGED running
        /\ c \in Cos /\ Calls(c, op, d, filed)
    BY <1>6 DEF DispatchCall, Cos
  <2>2. /\ \A u \in Tids : u # t => filed[u] = DBTManager[u]
        /\ filed \in [Tids -> Cos \cup {NoCo}]
    BY <1>0
  <2>3. /\ \A k \in DOMAIN responseQ' : \E j \in DOMAIN responseQ : responseQ'[k] = responseQ[j]
        /\ InOrder(responseQ)' /\ t \in Tids
        /\ \A k \in DOMAIN responseQ' : t < responseQ'[k].tid
        /\ \A k \in DOMAIN requestQ : t < requestQ[k].tid
        /\ running # Idle => t < running.tid
    BY <1>4, <2>1
  <2>a. \A u \in Tids : t < u => u # t
    BY <2>3 DEF Tids
  <2> HIDE DEF t, c, filed
  <2>4. /\ \A k \in DOMAIN responseQ' : filed[responseQ'[k].tid] # NoCo
        /\ \A k \in DOMAIN requestQ : filed[requestQ[k].tid] # NoCo
        /\ running # Idle => filed[running.tid] # NoCo
    BY <1>00, <2>2, <2>3, <2>a DEF Awaiting, Awaited
  <2> QED BY <1>0, <2>1, <2>2, <2>3, <2>4, CallAwaits
<1>7. ASSUME NEW h \in Humans, ExitHuman(h) PROVE Awaiting'
  <2>1. /\ Calls(h, "update", h, DBTManager) /\ UNCHANGED <<running, responseQ>>
        /\ h \in Cos /\ h \in Docs /\ "update" \in Ops
    BY <1>7 DEF ExitHuman, Cos, Docs, Ops
  <2> QED BY <1>0, <2>1, CallAwaits DEF Awaiting, Awaited, InOrder
<1>8. ASSUME UNCHANGED <<responseQ, running, requestQ, DBTManager>> PROVE Awaiting'
  BY <1>8 DEF Awaiting, Awaited, InOrder
<1> QED
  BY <1>1, <1>2, <1>3, <1>5, <1>6, <1>7, <1>8
  DEF Next, DBStep, Dispatch, ExitStep, Change, SignalExit, FinishExit, LoopTimeout,
      vars, callVars, dbVars

LEMMA UnderWayParts ==
  ASSUME TypeOK, NEW k \in DOMAIN UnderWay
  PROVE  \/ k \in DOMAIN responseQ /\ UnderWay[k] = responseQ[k]
         \/ k = Len(responseQ) + 1 /\ running # Idle /\ UnderWay[k] = running
         \/ /\ running # Idle => k > Len(responseQ) + 1
            /\ k > Len(responseQ)
            /\ \E i \in DOMAIN requestQ : /\ UnderWay[k] = requestQ[i]
                                          /\ i = k - Len(responseQ) - (IF running = Idle THEN 0 ELSE 1)
<1>1. responseQ \in Seq(Result) /\ requestQ \in Seq(Query)
  BY DEF TypeOK
<1>2. CASE running = Idle
  <2>1. UnderWay = responseQ \o <<>> \o requestQ
    BY <1>2 DEF UnderWay
  <2> QED BY <1>1, <1>2, <2>1
<1>3. CASE running # Idle
  <2>1. UnderWay = responseQ \o <<running>> \o requestQ
    BY <1>3 DEF UnderWay
  <2> QED BY <1>1, <1>3, <2>1
<1> QED BY <1>2, <1>3

LEMMA AwaitingAnswers == ASSUME TypeOK, Awaiting PROVE AnswersAwaited
<1>0. responseQ \in Seq(Result) /\ requestQ \in Seq(Query) /\ DOMAIN UnderWay \subseteq Nat
  <2>1. responseQ \in Seq(Result) /\ requestQ \in Seq(Query)
    BY DEF TypeOK
  <2>2. CASE running = Idle
    BY <2>1, <2>2 DEF UnderWay
  <2>3. CASE running # Idle
    BY <2>1, <2>3 DEF UnderWay
  <2> QED BY <2>1, <2>2, <2>3
<1>1. ASSUME NEW k \in DOMAIN UnderWay PROVE DBTManager[UnderWay[k].tid] # NoCo
  BY UnderWayParts DEF Awaiting, Awaited
<1>2. ASSUME NEW j \in DOMAIN UnderWay, NEW k \in DOMAIN UnderWay, j < k
      PROVE  UnderWay[j].tid < UnderWay[k].tid
  <2>1. CASE k \in DOMAIN responseQ /\ UnderWay[k] = responseQ[k]
    <3>1. j \in DOMAIN responseQ /\ UnderWay[j] = responseQ[j]
      BY <1>0, <1>2, <2>1, UnderWayParts
    <3> QED BY <1>2, <2>1, <3>1 DEF Awaiting, InOrder
  <2>2. CASE k = Len(responseQ) + 1 /\ running # Idle /\ UnderWay[k] = running
    <3>1. j \in DOMAIN responseQ /\ UnderWay[j] = responseQ[j]
      BY <1>0, <1>2, <2>2, UnderWayParts
    <3> QED BY <2>2, <3>1 DEF Awaiting
  <2>3. CASE /\ k > Len(responseQ)
             /\ \E i \in DOMAIN requestQ : /\ UnderWay[k] = requestQ[i]
                                           /\ i = k - Len(responseQ) - (IF running = Idle THEN 0 ELSE 1)
    <3>1. PICK i \in DOMAIN requestQ : /\ UnderWay[k] = requestQ[i]
                                       /\ i = k - Len(responseQ) - (IF running = Idle THEN 0 ELSE 1)
      BY <2>3
    <3>2. CASE j \in DOMAIN responseQ /\ UnderWay[j] = responseQ[j]
      BY <3>1, <3>2 DEF Awaiting
    <3>3. CASE running # Idle /\ UnderWay[j] = running
      BY <3>1, <3>3 DEF Awaiting
    <3>4. CASE \E n \in DOMAIN requestQ : /\ UnderWay[j] = requestQ[n]
                                          /\ n = j - Len(responseQ) - (IF running = Idle THEN 0 ELSE 1)
      <4>1. PICK n \in DOMAIN requestQ : /\ UnderWay[j] = requestQ[n]
                                         /\ n = j - Len(responseQ) - (IF running = Idle THEN 0 ELSE 1)
        BY <3>4
      <4>2. n < i
        BY <1>0, <1>2, <3>1, <4>1
      <4> QED BY <3>1, <4>1, <4>2 DEF Awaiting, InOrder
    <3> QED BY <3>2, <3>3, <3>4, UnderWayParts
  <2> QED BY <2>1, <2>2, <2>3, UnderWayParts
<1> QED BY <1>1, <1>2 DEF AnswersAwaited

(* Every answer under way is waited for, and calls are answered in the     *)
(* order they were made, at most once each (DB.lua dbDispatch).            *)
THEOREM AlwaysAnswersAwaited == Spec => []AnswersAwaited
<1>1. Init => TypeOK /\ Filing /\ Awaiting
  BY TypesBegin, FilingBegins DEF Init, Awaiting, Awaited, InOrder
<1>2. TypeOK /\ Filing /\ Awaiting /\ [Next]_vars => TypeOK' /\ Filing' /\ Awaiting'
  BY TypesKept, FilingKept, AwaitingKept
<1>3. TypeOK /\ Filing /\ Awaiting => AnswersAwaited
  BY AwaitingAnswers
<1> QED BY <1>1, <1>2, <1>3, PTL DEF Spec
-----------------------------------------------------------------------------
(* The copies of a document on their way to the database never run ahead   *)
(* of memory nor behind the database, and newer ones stand behind older.   *)
(* Shared documents leave this order when the exit saves them directly.    *)
InLine(d) == d \in Humans \/ phase = "run"

Ordered ==
  /\ \A k \in DOMAIN requestQ : requestQ[k].ver <= mem[requestQ[k].doc]
  /\ \A j, k \in DOMAIN requestQ :
       j < k /\ requestQ[j].doc = requestQ[k].doc => requestQ[j].ver <= requestQ[k].ver
  /\ running # Idle =>
       /\ running.ver <= mem[running.doc]
       /\ \A k \in DOMAIN requestQ : requestQ[k].doc = running.doc => running.ver <= requestQ[k].ver
  /\ \A d \in Docs : InLine(d) =>
       /\ stored[d] <= mem[d]
       /\ \A k \in DOMAIN requestQ : requestQ[k].doc = d => stored[d] <= requestQ[k].ver
       /\ running # Idle /\ running.doc = d => stored[d] <= running.ver

NoneOlder == \A d \in Docs : InLine(d) => stored'[d] >= stored[d]

(* What the queries and documents are made of, for the provers.            *)
LEMMA Contents ==
  ASSUME TypeOK
  PROVE  /\ \A k \in DOMAIN requestQ : /\ requestQ[k].doc \in Docs /\ requestQ[k].ver \in Nat
                                       /\ requestQ[k].tid \in Tids
         /\ running # Idle => /\ running.doc \in Docs /\ running.ver \in Nat
                              /\ running.tid \in Tids
         /\ \A k \in DOMAIN responseQ : responseQ[k].tid \in Tids
         /\ \A d \in Docs : mem[d] \in Nat /\ stored[d] \in Nat
<1>1. ASSUME NEW k \in DOMAIN requestQ
      PROVE  requestQ[k].doc \in Docs /\ requestQ[k].ver \in Nat /\ requestQ[k].tid \in Tids
  <2>1. requestQ \in Seq(Query)
    BY DEF TypeOK
  <2>2. requestQ[k] \in Query
    BY <2>1
  <2> QED BY <2>2, BoundsAssumption DEF Query, Ver
<1>2. ASSUME NEW k \in DOMAIN responseQ PROVE responseQ[k].tid \in Tids
  <2>1. responseQ \in Seq(Result)
    BY DEF TypeOK
  <2>2. responseQ[k] \in Result
    BY <2>1
  <2> QED BY <2>2 DEF Result
<1>3. running # Idle => running.doc \in Docs /\ running.ver \in Nat /\ running.tid \in Tids
  BY BoundsAssumption DEF TypeOK, Query, Ver
<1>4. \A d \in Docs : mem[d] \in Nat /\ stored[d] \in Nat
  BY BoundsAssumption DEF TypeOK, Ver
<1> QED BY <1>1, <1>2, <1>3, <1>4

LEMMA CallOrders ==
  ASSUME TypeOK, Ordered, NEW c \in Cos, NEW op \in Ops, NEW d \in Docs,
         NEW filed \in [Tids -> Cos \cup {NoCo}], Calls(c, op, d, filed),
         UNCHANGED <<running, stored, mem, phase>>
  PROVE  Ordered' /\ NoneOlder
<1> DEFINE new == [tid |-> lastTid + 1, op |-> op, doc |-> d, ver |-> mem[d]]
<1>1. /\ \A k \in DOMAIN requestQ' :
           \/ k \in DOMAIN requestQ /\ requestQ'[k] = requestQ[k]
           \/ k = Len(requestQ) + 1 /\ requestQ'[k] = new
      /\ requestQ' \in Seq(Query) /\ requestQ \in Seq(Query)
  BY CallsTypes DEF TypeOK
<1>2. new.doc = d /\ new.ver = mem[d]
  OBVIOUS
<1> HIDE DEF new
<1>3. /\ \A e \in Docs : mem[e] \in Nat /\ stored[e] \in Nat
      /\ \A k \in DOMAIN requestQ : requestQ[k].ver \in Nat
  BY Contents
<1>4. \A k \in DOMAIN requestQ' : requestQ'[k].ver <= mem[requestQ'[k].doc]
  BY <1>1, <1>2, <1>3 DEF Ordered
<1>5. ASSUME NEW j \in DOMAIN requestQ', NEW k \in DOMAIN requestQ', j < k,
             requestQ'[j].doc = requestQ'[k].doc
      PROVE  requestQ'[j].ver <= requestQ'[k].ver
  <2>1. j \in DOMAIN requestQ /\ requestQ'[j] = requestQ[j]
    BY <1>1, <1>5
  <2> QED BY <1>1, <1>2, <1>5, <2>1 DEF Ordered
<1>6. ASSUME running # Idle
      PROVE  \A k \in DOMAIN requestQ' : requestQ'[k].doc = running.doc => running.ver <= requestQ'[k].ver
  BY <1>1, <1>2, <1>6 DEF Ordered
<1>7. ASSUME NEW e \in Docs, InLine(e)
      PROVE  \A k \in DOMAIN requestQ' : requestQ'[k].doc = e => stored[e] <= requestQ'[k].ver
  BY <1>1, <1>2, <1>7 DEF Ordered
<1>8. \A e \in Docs : InLine(e)' <=> InLine(e)
  BY DEF InLine
<1>9. Ordered'
  BY <1>4, <1>5, <1>6, <1>7, <1>8 DEF Ordered
<1> QED BY <1>3, <1>9 DEF NoneOlder

LEMMA OrderKept == ASSUME TypeOK, Ordered, [Next]_vars PROVE Ordered' /\ NoneOlder
<1>0. /\ \A k \in DOMAIN requestQ : requestQ[k].doc \in Docs /\ requestQ[k].ver \in Nat
      /\ running # Idle => running.doc \in Docs /\ running.ver \in Nat
      /\ \A d \in Docs : mem[d] \in Nat /\ stored[d] \in Nat
      /\ mem \in [Docs -> Ver] /\ stored \in [Docs -> Ver]
  BY Contents DEF TypeOK
<1>1. ASSUME NEW d \in Docs, Change(d) PROVE Ordered' /\ NoneOlder
  <2>1. /\ \A e \in Docs : mem'[e] = IF e = d THEN mem[e] + 1 ELSE mem[e]
        /\ UNCHANGED <<requestQ, running, stored, phase>>
    BY <1>0, <1>1 DEF Change, dbVars, exitVars
  <2>2. \A e \in Docs, v \in Nat : v <= mem[e] => v <= mem'[e]
    BY <1>0, <2>1
  <2> QED BY <1>0, <2>1, <2>2 DEF Ordered, InLine, NoneOlder
<1>2. ASSUME NEW w \in Workers, NEW op \in Ops, NEW d \in Docs, StartWorker(w, op, d)
      PROVE  Ordered' /\ NoneOlder
  <2>1. /\ w \in Cos /\ DBTManager \in [Tids -> Cos \cup {NoCo}] /\ Calls(w, op, d, DBTManager)
        /\ UNCHANGED <<running, stored, mem, phase>>
    BY <1>2 DEF StartWorker, TypeOK, Cos, exitVars
  <2> QED BY <2>1, CallOrders
<1>3. ASSUME DBTake PROVE Ordered' /\ NoneOlder
  <2>1. /\ Head(requestQ) = requestQ[1] /\ 1 \in DOMAIN requestQ
        /\ Tail(requestQ) \in Seq(Query)
        /\ \A k \in DOMAIN Tail(requestQ) :
             k + 1 \in DOMAIN requestQ /\ Tail(requestQ)[k] = requestQ[k + 1]
    BY <1>3, RequestPopped DEF DBTake
  <2>2. /\ requestQ' = Tail(requestQ) /\ running' = requestQ[1]
        /\ UNCHANGED <<stored, mem, phase>>
    BY <1>3, <2>1 DEF DBTake, exitVars
  <2>3. \A k \in DOMAIN requestQ' :
            k + 1 \in DOMAIN requestQ /\ requestQ'[k] = requestQ[k + 1] /\ k \in Nat
    BY <2>1, <2>2
  <2>4. /\ \A k \in DOMAIN requestQ' : requestQ'[k].ver <= mem[requestQ'[k].doc]
        /\ \A j, k \in DOMAIN requestQ' :
             j < k /\ requestQ'[j].doc = requestQ'[k].doc => requestQ'[j].ver <= requestQ'[k].ver
    BY <2>3 DEF Ordered
  <2>5. /\ running'.ver <= mem[running'.doc]
        /\ \A k \in DOMAIN requestQ' : requestQ'[k].doc = running'.doc => running'.ver <= requestQ'[k].ver
    <3>1. \A k \in DOMAIN requestQ' : 1 < k + 1
      BY <2>1, <2>2
    <3> QED BY <2>1, <2>2, <2>3, <3>1 DEF Ordered
  <2>6. \A e \in Docs : InLine(e)' => /\ stored[e] <= mem[e]
                                      /\ \A k \in DOMAIN requestQ' : requestQ'[k].doc = e => stored[e] <= requestQ'[k].ver
                                      /\ running'.doc = e => stored[e] <= running'.ver
    BY <2>1, <2>2, <2>3 DEF Ordered, InLine
  <2> QED BY <1>0, <2>2, <2>4, <2>5, <2>6 DEF Ordered, NoneOlder
<1>4. ASSUME NEW ok \in BOOLEAN, DBExec(ok) PROVE Ordered' /\ NoneOlder
  <2>1. /\ running # Idle /\ running' = Idle /\ UNCHANGED <<requestQ, mem, phase>>
        /\ \A e \in Docs : \/ stored'[e] = stored[e]
                           \/ e = running.doc /\ stored'[e] = running.ver
    BY <1>0, <1>4 DEF DBExec, exitVars
  <2>2. NoneOlder
    BY <1>0, <2>1 DEF NoneOlder, Ordered
  <2>3. \A e \in Docs : InLine(e)' => /\ stored'[e] <= mem[e]
                                      /\ \A k \in DOMAIN requestQ : requestQ[k].doc = e => stored'[e] <= requestQ[k].ver
    BY <2>1 DEF Ordered, InLine
  <2> QED BY <2>1, <2>2, <2>3 DEF Ordered
<1>5. ASSUME DispatchEnd PROVE Ordered' /\ NoneOlder
  <2>1. UNCHANGED <<requestQ, running, stored, mem>> /\ (phase' = "run" => phase = "run")
    BY <1>5 DEF DispatchEnd, Leaves
  <2> QED BY <1>0, <2>1 DEF Ordered, InLine, NoneOlder
<1>6. ASSUME NEW op \in Ops, NEW d \in Docs, DispatchCall(op, d) PROVE Ordered' /\ NoneOlder
  <2> DEFINE t == Head(responseQ).tid
             filed == [DBTManager EXCEPT ![t] = NoCo]
  <2>1. /\ DBTManager[t] \in Cos /\ Calls(DBTManager[t], op, d, filed)
        /\ filed \in [Tids -> Cos \cup {NoCo}]
        /\ UNCHANGED <<running, stored, mem, phase>>
    BY <1>6 DEF DispatchCall, TypeOK, Cos, exitVars
  <2> HIDE DEF filed, t
  <2> QED BY <2>1, CallOrders
<1>7. ASSUME SignalExit PROVE Ordered' /\ NoneOlder
  <2>1. /\ phase = "run" /\ phase' = "saving" /\ UNCHANGED <<requestQ, running, mem>>
        /\ \A e \in Docs : stored'[e] = IF e \in Shared THEN mem[e] ELSE stored[e]
    BY <1>7 DEF SignalExit
  <2>2. \A e \in Docs : InLine(e)' => e \in Humans /\ stored'[e] = stored[e]
    BY <2>1, NamesAssumption DEF InLine
  <2>3. NoneOlder
    BY <1>0, <2>1 DEF NoneOlder, Ordered, InLine
  <2> QED BY <2>1, <2>2, <2>3 DEF Ordered, InLine
<1>8. ASSUME NEW h \in Humans, ExitHuman(h) PROVE Ordered' /\ NoneOlder
  <2>1. /\ h \in Cos /\ h \in Docs /\ "update" \in Ops
        /\ DBTManager \in [Tids -> Cos \cup {NoCo}] /\ Calls(h, "update", h, DBTManager)
        /\ UNCHANGED <<running, stored, mem, phase>>
    BY <1>8 DEF ExitHuman, TypeOK, Cos, Docs, Ops
  <2> QED BY <2>1, CallOrders
<1>9. ASSUME UNCHANGED <<requestQ, running, stored, mem>>, phase' = "run" => phase = "run"
      PROVE  Ordered' /\ NoneOlder
  BY <1>0, <1>9 DEF Ordered, InLine, NoneOlder
<1> QED
  BY <1>1, <1>2, <1>3, <1>4, <1>5, <1>6, <1>7, <1>8, <1>9
  DEF Next, DBStep, Dispatch, ExitStep, FinishExit, LoopTimeout, vars, dbVars, exitVars

LEMMA OrderBegins == Init => Ordered
<1> SUFFICES ASSUME Init PROVE Ordered
  OBVIOUS
<1> QED BY DEF Init, Ordered

(* A write never puts an older copy of a character over a newer one, nor   *)
(* one of a shared document before the exit saves these directly           *)
(* (DBThread::Run, CharDB.save).                                           *)
THEOREM SavesAlwaysInOrder == Spec => SavesInOrder
<1>1. Init => TypeOK /\ Ordered
  BY TypesBegin, OrderBegins
<1>2. TypeOK /\ Ordered /\ [Next]_vars => TypeOK' /\ Ordered'
  BY TypesKept, OrderKept
<1>3. TypeOK /\ Ordered /\ [Next]_vars =>
        [\A d \in Docs : d \in Humans \/ phase = "run" => stored'[d] >= stored[d]]_vars
  BY OrderKept DEF NoneOlder, InLine
<1> QED BY <1>1, <1>2, <1>3, PTL DEF Spec, SavesInOrder
-----------------------------------------------------------------------------
(* The save of a character the exit has reached is in one of these states: *)
(* on its way (or lost, and then waited for until the 30 s limit), done,   *)
(* or reported.                                                            *)
OnItsWay(q, h) == q.op = "update" /\ q.doc = h /\ q.ver >= due[h]

Saving(h) ==
  /\ waits[h] = 0 => stored[h] >= due[h] \/ h \in reported
  /\ \A k \in DOMAIN requestQ : requestQ[k].tid = waits[h] => OnItsWay(requestQ[k], h)
  /\ running # Idle /\ running.tid = waits[h] => OnItsWay(running, h)
  /\ \A k \in DOMAIN responseQ :
       responseQ[k].tid = waits[h] /\ responseQ[k].ok => stored[h] >= due[h]

Leaving ==
  /\ \A h \in Humans \ toSave : Saving(h)
  /\ phase \in {"draining", "exited"} => toSave = {}
  /\ clean => phase = "exited" /\ \A t \in Tids : DBTManager[t] = NoCo

(* A call of another coroutine does not touch the save of a character.     *)
LEMMA CallKeepsSaving ==
  ASSUME TypeOK, Filing, Awaiting, NEW c \in Cos, NEW op \in Ops, NEW d \in Docs,
         NEW filed \in [Tids -> Cos \cup {NoCo}], Calls(c, op, d, filed),
         UNCHANGED <<running, stored, reported>>,
         \A k \in DOMAIN responseQ' : \E j \in DOMAIN responseQ : responseQ'[k] = responseQ[j],
         NEW h \in Humans, h # c, Saving(h), due'[h] = due[h]
  PROVE  Saving(h)'
<1>1. /\ \A k \in DOMAIN requestQ' :
           \/ k \in DOMAIN requestQ /\ requestQ'[k] = requestQ[k]
           \/ requestQ'[k].tid = lastTid + 1
      /\ lastTid + 1 \in Tids /\ lastTid \in Nat
  BY CallsTypes, BoundsAssumption DEF TypeOK
<1>2. waits'[h] = waits[h] /\ h \in Cos
  BY DEF Calls, TypeOK, Cos
<1>3. waits[h] # lastTid + 1
  <2>1. DBTManager[lastTid + 1] = NoCo
    BY <1>1 DEF Filing, Fresh
  <2> QED BY <1>1, <1>2, <2>1, NamesAssumption DEF Filing, FiledAsWaiting, Cos
<1> QED BY <1>1, <1>2, <1>3 DEF Saving, OnItsWay

LEMMA LeavingKept ==
  ASSUME TypeOK, Filing, Awaiting, Ordered, Leaving, [Next]_vars
  PROVE  Leaving'
<1>0. /\ \A d \in Docs : stored[d] \in Nat
      /\ \A k \in DOMAIN requestQ : requestQ[k].tid \in Tids
      /\ running # Idle => running.tid \in Tids
      /\ \A k \in DOMAIN responseQ : responseQ[k].tid \in Tids
      /\ Humans \subseteq Docs /\ Humans \subseteq Cos /\ Workers \cap Humans = {} /\ 0 \notin Tids
      /\ due \in [Humans -> Ver] /\ Ver \subseteq Nat
      /\ stored' \in [Docs -> Ver]
  <2>1. /\ Humans \subseteq Docs /\ Humans \subseteq Cos /\ Workers \cap Humans = {}
        /\ 0 \notin Tids /\ Ver \subseteq Nat
    BY NamesAssumption DEF Docs, Cos, Tids, Ver
  <2>2. due \in [Humans -> Ver] /\ stored' \in [Docs -> Ver]
    BY TypesKept DEF TypeOK
  <2> QED BY <2>1, <2>2, Contents
<1>1. ASSUME NEW w \in Workers, NEW op \in Ops, NEW d \in Docs, StartWorker(w, op, d)
      PROVE Leaving'
  <2>1. /\ w \in Cos /\ DBTManager \in [Tids -> Cos \cup {NoCo}] /\ Calls(w, op, d, DBTManager)
        /\ UNCHANGED <<running, responseQ, stored, exitVars>> /\ phase # "exited"
    BY <1>1 DEF StartWorker, TypeOK, Cos
  <2>2. ASSUME NEW h \in Humans, Saving(h) PROVE Saving(h)'
    <3>1. /\ UNCHANGED reported /\ due'[h] = due[h] /\ h # w
          /\ \A k \in DOMAIN responseQ' : \E j \in DOMAIN responseQ : responseQ'[k] = responseQ[j]
      BY <1>0, <2>1 DEF exitVars
    <3> QED BY <2>1, <2>2, <3>1, CallKeepsSaving
  <2> QED BY <2>1, <2>2 DEF Leaving, exitVars
<1>2. ASSUME DBTake PROVE Leaving'
  <2>1. /\ Head(requestQ) = requestQ[1] /\ 1 \in DOMAIN requestQ
        /\ \A k \in DOMAIN Tail(requestQ) :
             k + 1 \in DOMAIN requestQ /\ Tail(requestQ)[k] = requestQ[k + 1]
    BY <1>2, RequestPopped DEF DBTake
  <2>2. /\ requestQ' = Tail(requestQ) /\ running' = requestQ[1]
        /\ UNCHANGED <<stored, responseQ, waits, DBTManager, exitVars>>
    BY <1>2, <2>1 DEF DBTake, callVars
  <2>3. ASSUME NEW h \in Humans, Saving(h) PROVE Saving(h)'
    BY <2>1, <2>2, <2>3 DEF Saving, OnItsWay, exitVars
  <2> QED BY <2>2, <2>3 DEF Leaving, exitVars
<1>3. ASSUME NEW ok \in BOOLEAN, DBExec(ok) PROVE Leaving'
  <2> DEFINE new == [tid |-> running.tid, ok |-> ok, ver |-> Found(running, ok)]
  <2>1. /\ running # Idle /\ running' = Idle
        /\ UNCHANGED <<requestQ, waits, DBTManager, exitVars>>
        /\ ok /\ running.op = "update" => stored'[running.doc] = running.ver
    BY <1>3, Contents DEF DBExec, callVars, TypeOK
  <2>2. \A d \in Humans : stored'[d] >= stored[d]
    BY <1>0, OrderKept DEF NoneOlder, InLine
  <2>3. \A k \in DOMAIN responseQ' : \/ k \in DOMAIN responseQ /\ responseQ'[k] = responseQ[k]
                                     \/ responseQ'[k] = new
    <3>1. new \in Result /\ responseQ \in Seq(Result) /\ Len(responseQ) <= QueueLen
      BY <1>0, <2>1, FoundVersion DEF Result, TypeOK
    <3>2. responseQ' = Pushed(responseQ, new)
      BY <1>3 DEF DBExec
    <3> HIDE DEF new
    <3> QED BY <3>1, <3>2, PushedItems
  <2>4. new.tid = running.tid /\ (new.ok => ok)
    OBVIOUS
  <2> HIDE DEF new
  <2>5. ASSUME NEW h \in Humans, Saving(h) PROVE Saving(h)'
    <3>1. due[h] \in Nat /\ stored[h] \in Nat /\ stored'[h] \in Nat /\ due'[h] = due[h]
      BY <1>0, <2>1 DEF exitVars
    <3>2. stored[h] >= due[h] => stored'[h] >= due[h]
      BY <2>2, <3>1
    <3>3. ASSUME NEW k \in DOMAIN responseQ', responseQ'[k].tid = waits[h], responseQ'[k].ok
          PROVE  stored'[h] >= due[h]
      <4>1. CASE k \in DOMAIN responseQ /\ responseQ'[k] = responseQ[k]
        BY <2>5, <3>2, <3>3, <4>1 DEF Saving
      <4>2. CASE responseQ'[k] = new
        BY <2>1, <2>4, <2>5, <3>3, <4>2 DEF Saving, OnItsWay
      <4> QED BY <2>3, <4>1, <4>2
    <3>4. /\ waits'[h] = 0 => stored'[h] >= due'[h] \/ h \in reported'
          /\ \A k \in DOMAIN requestQ' : requestQ'[k].tid = waits'[h] => OnItsWay(requestQ[k], h)'
          /\ running' = Idle
      BY <2>1, <2>5, <3>1, <3>2 DEF Saving, OnItsWay, exitVars
    <3> QED BY <2>1, <3>1, <3>3, <3>4 DEF Saving
  <2> QED BY <2>1, <2>5 DEF Leaving, exitVars
<1>4. ASSUME responseQ # <<>>, responseQ' = Tail(responseQ)
      PROVE  \A k \in DOMAIN responseQ' : \E j \in DOMAIN responseQ : responseQ'[k] = responseQ[j]
  BY <1>4, ResponsePopped
<1>5. ASSUME DispatchEnd PROVE Leaving'
  <2> DEFINE t == Head(responseQ).tid
             c == DBTManager[t]
  <2>1. t \in Tids /\ Head(responseQ) = responseQ[1] /\ 1 \in DOMAIN responseQ
    BY <1>5, ResponsePopped DEF DispatchEnd
  <2>2. c \in Cos /\ waits[c] = t
    BY <1>5, <2>1 DEF DispatchEnd, TypeOK, Filing, FiledAsWaiting
  <2>3. /\ responseQ # <<>> /\ responseQ' = Tail(responseQ)
        /\ waits' = [waits EXCEPT ![c] = 0]
        /\ Leaves(DBTManager') /\ Reports(c, Head(responseQ).ok)
        /\ UNCHANGED <<requestQ, running, stored, toSave, due>> /\ phase # "exited"
    BY <1>5 DEF DispatchEnd
  <2> HIDE DEF t, c
  <2>4. \A h \in Cos : waits'[h] = IF h = c THEN 0 ELSE waits[h]
    BY <2>3 DEF TypeOK
  <2>5. reported \subseteq reported'
    BY <2>3 DEF Reports
  <2>6. ASSUME NEW h \in Humans, Saving(h), h # c PROVE Saving(h)'
    <3>1. waits'[h] = waits[h]
      BY <1>0, <2>4, <2>6
    <3> QED BY <1>4, <2>3, <2>5, <2>6, <3>1 DEF Saving, OnItsWay
  <2>7. ASSUME NEW h \in Humans, Saving(h), h = c PROVE Saving(h)'
    <3>1. waits'[h] = 0 /\ waits[h] = Head(responseQ).tid
      BY <1>0, <2>2, <2>4, <2>7 DEF t
    <3>2. stored[h] >= due[h] \/ h \in reported'
      BY <2>1, <2>3, <2>7, <3>1 DEF Saving, Reports
    <3>3. \A k \in DOMAIN requestQ' : requestQ'[k].tid # 0
      BY <1>0, <2>3
    <3>4. running' # Idle => running'.tid # 0
      BY <1>0, <2>3
    <3>5. \A k \in DOMAIN responseQ' : responseQ'[k].tid # 0
      BY <1>0, <1>4, <2>3
    <3> QED BY <2>3, <3>1, <3>2, <3>3, <3>4, <3>5 DEF Saving
  <2>8. \A h \in Humans \ toSave' : Saving(h)'
    BY <2>3, <2>6, <2>7 DEF Leaving
  <2> QED BY <2>3, <2>8 DEF Leaving, Leaves
<1>6. ASSUME NEW op \in Ops, NEW d \in Docs, DispatchCall(op, d) PROVE Leaving'
  <2> DEFINE t == Head(responseQ).tid
             c == DBTManager[t]
             filed == [DBTManager EXCEPT ![t] = NoCo]
  <2>1. /\ c \in Workers /\ c \in Cos /\ Calls(c, op, d, filed)
        /\ filed \in [Tids -> Cos \cup {NoCo}]
        /\ responseQ # <<>> /\ responseQ' = Tail(responseQ) /\ phase # "exited"
        /\ UNCHANGED <<running, stored, exitVars>>
    BY <1>6 DEF DispatchCall, TypeOK, Cos
  <2> HIDE DEF filed, t, c
  <2>2. \A h \in Humans : due'[h] = due[h] /\ h # c
    BY <1>0, <2>1 DEF exitVars
  <2>3. \A h \in Humans \ toSave : Saving(h)'
    BY <1>4, <2>1, <2>2, CallKeepsSaving DEF Leaving, exitVars
  <2> QED BY <2>1, <2>3 DEF Leaving, exitVars
<1>7. ASSUME SignalExit PROVE Leaving'
  <2>1. /\ phase = "run" /\ phase' = "saving"
        /\ UNCHANGED <<requestQ, running, responseQ, waits, toSave, due, reported, clean>>
        /\ \A h \in Humans : stored'[h] = stored[h]
    BY <1>0, <1>7, NamesAssumption DEF SignalExit, callVars
  <2> QED BY <2>1 DEF Leaving, Saving, OnItsWay
<1>8. ASSUME NEW h \in Humans, ExitHuman(h) PROVE Leaving'
  <2>1. /\ h \in Cos /\ h \in Docs /\ "update" \in Ops /\ h \in toSave
        /\ DBTManager \in [Tids -> Cos \cup {NoCo}] /\ Calls(h, "update", h, DBTManager)
        /\ UNCHANGED <<running, responseQ, stored, reported, phase, clean>> /\ phase = "saving"
        /\ toSave' = toSave \ {h}
        /\ \A g \in Humans : due'[g] = IF g = h THEN mem[h] ELSE due[g]
    <3>1. h \in Cos /\ h \in Docs /\ "update" \in Ops
      BY DEF Cos, Docs, Ops
    <3>2. \A g \in Humans : due'[g] = IF g = h THEN mem[h] ELSE due[g]
      BY <1>0, <1>8 DEF ExitHuman, TypeOK
    <3>3. UNCHANGED <<running, responseQ, stored, reported, phase, clean>>
      BY <1>8 DEF ExitHuman
    <3> QED BY <1>0, <1>8, <3>1, <3>2, <3>3 DEF ExitHuman, TypeOK
  <2>2. \A g \in Humans \ toSave : Saving(g)'
    BY <2>1, CallKeepsSaving DEF Leaving
  <2>3. Saving(h)'
    <3>1. /\ \A k \in DOMAIN requestQ' :
               \/ k \in DOMAIN requestQ /\ requestQ'[k] = requestQ[k]
               \/ requestQ'[k] = [tid |-> lastTid + 1, op |-> "update", doc |-> h, ver |-> mem[h]]
          /\ lastTid + 1 \in Tids /\ lastTid \in Nat
      BY <2>1, CallsTypes, BoundsAssumption DEF TypeOK
    <3>2. waits'[h] = lastTid + 1 /\ due'[h] = mem[h] /\ mem[h] \in Nat
      BY <2>1, Contents DEF Calls, TypeOK
    <3>3. /\ \A k \in DOMAIN responseQ : responseQ[k].tid # lastTid + 1
          /\ \A k \in DOMAIN requestQ : requestQ[k].tid # lastTid + 1
          /\ running # Idle => running.tid # lastTid + 1
      BY <3>1, TidsGiven DEF Filing, Tids
    <3>4. \A k \in DOMAIN requestQ' : requestQ'[k].tid = lastTid + 1 => OnItsWay(requestQ[k], h)'
      BY <3>1, <3>2, <3>3 DEF OnItsWay
    <3>5. lastTid + 1 # 0
      BY <3>1
    <3> QED BY <2>1, <3>2, <3>3, <3>4, <3>5 DEF Saving
  <2> QED BY <2>1, <2>2, <2>3 DEF Leaving
<1>9. ASSUME FinishExit PROVE Leaving'
  <2>1. /\ toSave = {} /\ UNCHANGED <<toSave, due, reported, callVars, dbVars>>
        /\ \/ phase' = "exited" /\ \A t \in Tids : DBTManager'[t] = NoCo
           \/ UNCHANGED clean /\ phase = "saving"
    BY <1>9 DEF FinishExit, callVars
  <2> QED BY <2>1 DEF Leaving, Saving, OnItsWay, callVars, dbVars
<1>10. ASSUME LoopTimeout PROVE Leaving'
  <2>1. /\ phase = "draining" /\ UNCHANGED <<toSave, due, reported, clean, callVars, dbVars>>
    BY <1>10 DEF LoopTimeout
  <2> QED BY <2>1 DEF Leaving, Saving, OnItsWay, callVars, dbVars
<1>11. ASSUME UNCHANGED <<callVars, dbVars, exitVars>> PROVE Leaving'
  BY <1>11 DEF Leaving, Saving, OnItsWay, callVars, dbVars, exitVars
<1> QED
  BY <1>1, <1>2, <1>3, <1>5, <1>6, <1>7, <1>8, <1>9, <1>10, <1>11
  DEF Next, DBStep, Dispatch, ExitStep, Change, vars

(* When the process leaves by _OnGameExit, every character is stored as    *)
(* the exit found it, or the failure of its save was reported, for every   *)
(* number of characters and length of the queues (DB.onGameExit).          *)
THEOREM CleanExitAlwaysStoresAll == Spec => []CleanExitStoresAll
<1> DEFINE Inv == TypeOK /\ Filing /\ Awaiting /\ Ordered /\ Leaving
<1>1. Init => Inv
  <2> SUFFICES ASSUME Init PROVE Inv
    OBVIOUS
  <2>1. TypeOK /\ Filing /\ Ordered
    BY TypesBegin, FilingBegins, OrderBegins
  <2>2. Awaiting
    BY DEF Init, Awaiting, Awaited, InOrder
  <2>3. Leaving
    BY DEF Init, Leaving
  <2> QED BY <2>1, <2>2, <2>3
<1>2. Inv /\ [Next]_vars => Inv'
  BY TypesKept, FilingKept, AwaitingKept, OrderKept, LeavingKept
<1>3. Inv => CleanExitStoresAll
  <2> SUFFICES ASSUME Inv, phase = "exited", clean, NEW h \in Humans
               PROVE  stored[h] >= due[h] \/ h \in reported
    BY DEF CleanExitStoresAll
  <2>1. Saving(h) /\ \A t \in Tids : DBTManager[t] = NoCo
    BY DEF Leaving
  <2>2. waits[h] = 0
    <3>1. h \in Cos /\ h # NoCo /\ waits[h] \in 0 .. MaxTid
      BY NamesAssumption DEF TypeOK, Cos
    <3> QED BY <2>1, <3>1, BoundsAssumption DEF Filing, FiledAsWaiting, Tids
  <2> QED BY <2>1, <2>2 DEF Saving
<1> HIDE DEF Inv
<1> QED BY <1>1, <1>2, <1>3, PTL DEF Spec
-----------------------------------------------------------------------------
(* The path implements AsyncStore.  Sequences are told apart by their      *)
(* lengths and items.                                                      *)
LEMMA AppendByItems ==
  ASSUME NEW S, NEW q \in Seq(S), NEW x \in S, NEW r \in Seq(S), Len(r) = Len(q) + 1,
         \A k \in 1 .. Len(q) : r[k] = q[k], r[Len(q) + 1] = x
  PROVE  r = Append(q, x)
<1>1. Append(q, x) \in Seq(S) /\ Len(Append(q, x)) = Len(q) + 1
  OBVIOUS
<1>2. \A k \in 1 .. Len(q) + 1 : Append(q, x)[k] = r[k]
  OBVIOUS
<1> QED BY <1>1, <1>2, SeqEqual

LEMMA TailByItems ==
  ASSUME NEW S, NEW q \in Seq(S), q # <<>>, NEW r \in Seq(S), Len(r) + 1 = Len(q),
         \A k \in DOMAIN r : r[k] = q[k + 1]
  PROVE  r = Tail(q)
<1>1. Tail(q) \in Seq(S) /\ Len(Tail(q)) = Len(r)
  OBVIOUS
<1>2. \A k \in 1 .. Len(r) : Tail(q)[k] = r[k]
  OBVIOUS
<1> QED BY <1>1, <1>2, SeqEqual

LEMMA SameByItems ==
  ASSUME NEW S, NEW q \in Seq(S), NEW r \in Seq(S), Len(r) = Len(q),
         \A k \in 1 .. Len(q) : r[k] = q[k]
  PROVE  r = q
BY SeqEqual

(* The calls that have not taken effect: the query that is executed, if    *)
(* there is one, and behind it the request queue.                          *)
LEMMA PendingItems ==
  ASSUME TypeOK
  PROVE  /\ Pending \in Seq(Query)
         /\ running = Idle => Pending = requestQ
         /\ running # Idle =>
              /\ Len(Pending) = Len(requestQ) + 1 /\ Pending[1] = running
              /\ \A k \in DOMAIN requestQ : Pending[k + 1] = requestQ[k]
<1>1. requestQ \in Seq(Query) /\ (running # Idle => running \in Query)
  BY DEF TypeOK
<1>2. CASE running = Idle
  BY <1>1, <1>2 DEF Pending
<1>3. CASE running # Idle
  <2>1. Pending = <<running>> \o requestQ /\ <<running>> \in Seq(Query) /\ Len(<<running>>) = 1
    BY <1>1, <1>3 DEF Pending
  <2>2. Pending \in Seq(Query) /\ Len(Pending) = Len(requestQ) + 1
    BY <1>1, <2>1, ConcatProperties
  <2>3. \A k \in 1 .. 1 + Len(requestQ) :
          Pending[k] = IF k <= 1 THEN <<running>>[k] ELSE requestQ[k - 1]
    BY <1>1, <2>1, ConcatProperties
  <2>4. Pending[1] = running
    BY <1>1, <2>3
  <2>5. \A k \in DOMAIN requestQ : Pending[k + 1] = requestQ[k]
    BY <1>1, <2>3
  <2> QED BY <1>3, <2>2, <2>4, <2>5
<1> QED BY <1>2, <1>3

(* What the mapping shows is of the types of AsyncStore.                   *)
Calling  == [by : Cos, op : {"find", "update"}, doc : Docs, ver : Ver]
Replying == [by : Cos, ok : BOOLEAN, ver : Ver]

Shown ==
  /\ Pending \in Seq(Query)
  /\ \A k \in DOMAIN Pending : Pending[k].tid \in Tids /\ DBTManager[Pending[k].tid] \in Cos
  /\ Line \in Seq(Calling) /\ Len(Line) = Len(Pending)
  /\ \A k \in DOMAIN Pending :
       Line[k] = [by |-> DBTManager[Pending[k].tid], op |-> Pending[k].op,
                  doc |-> Pending[k].doc, ver |-> Pending[k].ver]
  /\ \A k \in DOMAIN responseQ : responseQ[k].tid \in Tids /\ DBTManager[responseQ[k].tid] \in Cos
  /\ responseQ \in Seq(Result)
  /\ Replies \in Seq(Replying) /\ Len(Replies) = Len(responseQ)
  /\ \A k \in DOMAIN responseQ :
       Replies[k] = [by |-> DBTManager[responseQ[k].tid], ok |-> responseQ[k].ok,
                     ver |-> responseQ[k].ver]

LEMMA MappingShown == TypeOK /\ Fresh /\ Awaiting => Shown
<1> SUFFICES ASSUME TypeOK, Fresh, Awaiting PROVE Shown
  OBVIOUS
<1>1. /\ Pending \in Seq(Query) /\ responseQ \in Seq(Result) /\ requestQ \in Seq(Query)
      /\ DBTManager \in [Tids -> Cos \cup {NoCo}]
  BY PendingItems DEF TypeOK
<1>2. ASSUME NEW k \in DOMAIN Pending PROVE DBTManager[Pending[k].tid] \in Cos
  <2>a. Pending[k] \in Query
    BY <1>1
  <2>1. Pending[k].tid \in Tids
    BY <2>a DEF Query
  <2>2. DBTManager[Pending[k].tid] # NoCo
    <3>1. CASE running = Idle
      BY <3>1, PendingItems DEF Awaiting, Awaited
    <3>2. CASE running # Idle /\ k = 1
      BY <3>2, PendingItems DEF Awaiting
    <3>3. CASE running # Idle /\ k # 1
      <4>1. k - 1 \in DOMAIN requestQ /\ Pending[k - 1 + 1] = requestQ[k - 1] /\ k - 1 + 1 = k
        BY <1>1, <3>3, PendingItems
      <4> QED BY <4>1 DEF Awaiting, Awaited
    <3> QED BY <3>1, <3>2, <3>3
  <2> QED BY <1>1, <2>1, <2>2
<1>3. \A k \in DOMAIN Pending : Pending[k].tid \in Tids /\ CallOf(Pending[k]) \in Calling
  <2> SUFFICES ASSUME NEW k \in DOMAIN Pending
               PROVE  Pending[k].tid \in Tids /\ CallOf(Pending[k]) \in Calling
    OBVIOUS
  <2>1. Pending[k] \in Query
    BY <1>1
  <2> QED BY <1>2, <2>1 DEF CallOf, Calling, Query
<1>4. Line \in Seq(Calling) /\ Len(Line) = Len(Pending)
  <2>1. Line \in [1 .. Len(Pending) -> Calling] /\ Len(Pending) \in Nat
    BY <1>1, <1>3 DEF Line
  <2> QED BY <2>1, SeqDef, LenProperties
<1>5. ASSUME NEW k \in DOMAIN responseQ
      PROVE  /\ responseQ[k].tid \in Tids /\ DBTManager[responseQ[k].tid] \in Cos
             /\ ReplyOf(responseQ[k]) \in Replying
  <2>1. responseQ[k] \in Result
    BY <1>1
  <2>2. DBTManager[responseQ[k].tid] \in Cos
    BY <1>1, <2>1 DEF Awaiting, Awaited, Result
  <2> QED BY <2>1, <2>2 DEF ReplyOf, Replying, Result
<1>6. Replies \in Seq(Replying) /\ Len(Replies) = Len(responseQ)
  <2>1. Replies \in [1 .. Len(responseQ) -> Replying] /\ Len(responseQ) \in Nat
    BY <1>1, <1>5 DEF Replies
  <2> QED BY <2>1, SeqDef, LenProperties
<1>7. \A k \in DOMAIN Pending : Line[k] = CallOf(Pending[k])
  BY DEF Line
<1>8. \A k \in DOMAIN responseQ : Replies[k] = ReplyOf(responseQ[k])
  BY DEF Replies
<1> QED BY <1>1, <1>2, <1>3, <1>4, <1>5, <1>6, <1>7, <1>8 DEF Shown, CallOf, ReplyOf

LEMMA MappingShownNext == TypeOK' /\ Fresh' /\ Awaiting' => Shown'
BY MappingShown, PTL

(* A call under way is told from a new one by its transaction ID.          *)
LEMMA PendingGiven ==
  ASSUME TypeOK, Fresh, Awaiting
  PROVE  /\ \A k \in DOMAIN Pending : Pending[k].tid <= lastTid
         /\ \A k \in DOMAIN responseQ : responseQ[k].tid <= lastTid
<1>1. /\ Pending \in Seq(Query)
      /\ \A k \in DOMAIN Pending : DBTManager[Pending[k].tid] \in Cos /\ Pending[k].tid \in Tids
      /\ \A k \in DOMAIN responseQ : DBTManager[responseQ[k].tid] \in Cos /\ responseQ[k].tid \in Tids
  BY MappingShown DEF Shown
<1>2. lastTid \in Nat /\ NoCo \notin Cos
  BY NamesAssumption, BoundsAssumption DEF TypeOK, Cos
<1> QED BY <1>1, <1>2 DEF Fresh, Tids

(* A query that is queued goes to the end of the line.                     *)
LEMMA PendingAppended ==
  ASSUME TypeOK, NEW new \in Query, requestQ' = Append(requestQ, new), UNCHANGED running
  PROVE  Pending' = Append(Pending, new)
<1>1. requestQ \in Seq(Query) /\ Pending \in Seq(Query)
  BY PendingItems DEF TypeOK
<1>2. CASE running = Idle
  BY <1>2 DEF Pending
<1>3. CASE running # Idle
  <2>1. Pending' = <<running>> \o Append(requestQ, new) /\ Pending = <<running>> \o requestQ
    BY <1>3 DEF Pending
  <2>2. <<running>> \in Seq(Query)
    BY <1>3 DEF TypeOK
  <2>3. Append(requestQ, new) = requestQ \o <<new>>
    BY <1>1
  <2>4. <<new>> \in Seq(Query)
    OBVIOUS
  <2>5. <<running>> \o (requestQ \o <<new>>) = (<<running>> \o requestQ) \o <<new>>
    BY <1>1, <2>2, <2>4, ConcatAssociative
  <2>6. Append(Pending, new) = Pending \o <<new>>
    BY <1>1
  <2> QED BY <2>1, <2>3, <2>5, <2>6
<1> QED BY <1>2, <1>3

(* A call of the database puts the coroutine at the end of the line, or    *)
(* nowhere when the request queue is full.                                 *)
LEMMA CallAsks ==
  ASSUME TypeOK, Fresh, Awaiting, Shown', TypeOK',
         NEW c \in Cos, NEW op \in Ops, NEW d \in Docs,
         NEW filed \in [Tids -> Cos \cup {NoCo}], Calls(c, op, d, filed), UNCHANGED running,
         \A k \in DOMAIN Pending : filed[Pending[k].tid] = DBTManager[Pending[k].tid]
  PROVE  Service!Asks(c)
<1> DEFINE new == [tid |-> lastTid + 1, op |-> op, doc |-> d, ver |-> mem[d]]
           x   == [by |-> c, op |-> op, doc |-> d, ver |-> mem[d]]
<1>1. /\ new \in Query /\ new.tid = lastTid + 1 /\ new.op = op /\ new.doc = d /\ new.ver = mem[d]
      /\ lastTid \in Nat /\ lastTid + 1 \in Tids
  BY CallsTypes, BoundsAssumption DEF TypeOK, Query, Ops
<1>2. x \in Calling /\ x \in Service!StoreCall /\ x.by = c
  BY <1>1 DEF Calling, Query, Service!StoreCall
<1>3. requestQ' = Pushed(requestQ, new) /\ requestQ \in Seq(Query)
  BY DEF Calls, TypeOK
<1>4. Shown
  BY MappingShown
<1>5. \A t \in Tids : DBTManager'[t] = IF t = lastTid + 1 THEN c ELSE filed[t]
  BY <1>1 DEF Calls
<1>6. \A k \in DOMAIN Pending : /\ Pending[k].tid \in Tids
                                /\ DBTManager'[Pending[k].tid] = DBTManager[Pending[k].tid]
  <2>1. \A k \in DOMAIN Pending : Pending[k].tid \in Tids /\ Pending[k].tid <= lastTid
    BY <1>4, PendingGiven DEF Shown
  <2> QED BY <1>1, <1>5, <2>1 DEF Tids
<1> HIDE DEF new, x
<1>7. CASE Len(requestQ) < QueueLen
  <2>1. requestQ' = Append(requestQ, new)
    BY <1>3, <1>7 DEF Pushed
  <2>2. Pending' = Append(Pending, new)
    BY <1>1, <2>1, PendingAppended
  <2>3. /\ Pending \in Seq(Query) /\ Len(Pending') = Len(Pending) + 1
        /\ \A k \in DOMAIN Pending : k \in DOMAIN Pending' /\ Pending'[k] = Pending[k]
        /\ Len(Pending) + 1 \in DOMAIN Pending' /\ Pending'[Len(Pending) + 1] = new
    BY <1>1, <1>4, <2>2 DEF Shown
  <2>4. \A k \in 1 .. Len(Line) : Line'[k] = Line[k]
    <3>0. DOMAIN Pending = 1 .. Len(Line)
      BY <1>4 DEF Shown
    <3> SUFFICES ASSUME NEW k \in DOMAIN Pending PROVE Line'[k] = Line[k]
      BY <3>0
    <3>1. Line[k] = [by |-> DBTManager[Pending[k].tid], op |-> Pending[k].op,
                     doc |-> Pending[k].doc, ver |-> Pending[k].ver]
      BY <1>4 DEF Shown
    <3>2. k \in DOMAIN Pending' /\ Pending'[k] = Pending[k]
      BY <2>3
    <3>3. Line'[k] = [by |-> DBTManager'[Pending'[k].tid], op |-> Pending'[k].op,
                      doc |-> Pending'[k].doc, ver |-> Pending'[k].ver]
      BY <3>2 DEF Shown
    <3> QED BY <1>6, <3>1, <3>2, <3>3
  <2>5. Line'[Len(Line) + 1] = x
    <3>1. Line'[Len(Pending) + 1] = [by |-> DBTManager'[new.tid], op |-> new.op,
                                     doc |-> new.doc, ver |-> new.ver]
      BY <2>3 DEF Shown
    <3> QED BY <1>1, <1>4, <1>5, <3>1 DEF Shown, x
  <2>6. Line \in Seq(Calling) /\ Line' \in Seq(Calling) /\ Len(Line') = Len(Line) + 1
    BY <1>4, <2>3 DEF Shown
  <2>7. Line' = Append(Line, x)
    BY <1>2, <2>4, <2>5, <2>6, AppendByItems
  <2> QED BY <1>2, <2>7 DEF Service!Asks, Service!Offer
<1>8. CASE ~(Len(requestQ) < QueueLen)
  <2>1. requestQ' = requestQ
    BY <1>3, <1>8 DEF Pushed
  <2>2. Pending' = Pending
    BY <2>1 DEF Pending
  <2>3. Line' = Line
    BY <1>6, <2>2 DEF Line, CallOf
  <2>4. Len(Line) >= QueueLen
    BY <1>3, <1>4, <1>8, PendingItems, QueueLenAssumption DEF Shown
  <2> QED BY <1>2, <2>3, <2>4 DEF Service!Asks, Service!Offer
<1> QED BY <1>7, <1>8

(* A coroutine that starts, or that the exit starts, asks.                 *)
LEMMA StartAsks ==
  ASSUME TypeOK, Filing, Awaiting, Shown', TypeOK',
         NEW c \in Cos, NEW op \in Ops, NEW d \in Docs, Calls(c, op, d, DBTManager),
         waits[c] = 0, UNCHANGED <<running, responseQ, stored>>
  PROVE  Service!Ask(c)
<1>1. Shown /\ Fresh /\ DBTManager \in [Tids -> Cos \cup {NoCo}]
  BY MappingShown DEF Filing, TypeOK
<1>2. Service!Asks(c)
  BY <1>1, CallAsks
<1>3. lastTid + 1 \in Tids /\ lastTid \in Nat
  BY <1>1, CallsTypes, BoundsAssumption DEF TypeOK
<1>4. Waiting' = Waiting \cup {c} /\ c \notin Waiting
  BY <1>3 DEF Waiting, Calls, TypeOK
<1>5. Replies' = Replies
  <2>1. \A t \in Tids : DBTManager'[t] = IF t = lastTid + 1 THEN c ELSE DBTManager[t]
    BY <1>1 DEF Calls
  <2>2. \A k \in DOMAIN responseQ : responseQ[k].tid \in Tids /\ responseQ[k].tid <= lastTid
    BY <1>1, PendingGiven DEF Shown
  <2>3. \A k \in DOMAIN responseQ : DBTManager'[responseQ[k].tid] = DBTManager[responseQ[k].tid]
    BY <1>3, <2>1, <2>2 DEF Tids
  <2> QED BY <2>3 DEF Replies, ReplyOf
<1> QED BY <1>2, <1>4, <1>5 DEF Service!Ask

(* The oldest result belongs to a coroutine that waits for it, and its     *)
(* transaction ID to nothing else under way.                               *)
LEMMA OldestAlone ==
  ASSUME TypeOK, Filing, Awaiting, responseQ # <<>>
  PROVE  /\ Head(responseQ).tid \in Tids /\ DBTManager[Head(responseQ).tid] \in Cos
         /\ \A k \in DOMAIN Pending : Pending[k].tid # Head(responseQ).tid
         /\ \A k \in DOMAIN Tail(responseQ) : Tail(responseQ)[k].tid # Head(responseQ).tid
<1> DEFINE t == Head(responseQ).tid
<1>1. Shown
  BY MappingShown DEF Filing
<1>2. /\ Head(responseQ) = responseQ[1] /\ 1 \in DOMAIN responseQ /\ t \in Tids
      /\ responseQ \in Seq(Result)
      /\ \A k \in DOMAIN Tail(responseQ) :
           k + 1 \in DOMAIN responseQ /\ Tail(responseQ)[k] = responseQ[k + 1]
  BY ResponsePopped DEF TypeOK
<1>3. DBTManager[t] \in Cos
  BY <1>1, <1>2 DEF Shown
<1>4. \A k \in DOMAIN Pending : Pending[k].tid # t
  <2> SUFFICES ASSUME NEW k \in DOMAIN Pending PROVE t < Pending[k].tid
    BY <1>1, <1>2 DEF Shown, Tids
  <2>1. CASE running = Idle
    BY <1>2, <2>1, PendingItems DEF Awaiting
  <2>2. CASE running # Idle /\ k = 1
    BY <1>2, <2>2, PendingItems DEF Awaiting
  <2>3. CASE running # Idle /\ k # 1
    <3>1. requestQ \in Seq(Query) /\ Pending \in Seq(Query)
      BY PendingItems DEF TypeOK
    <3>2. k - 1 \in DOMAIN requestQ /\ k - 1 + 1 = k
      BY <2>3, <3>1, PendingItems
    <3>3. Pending[k] = requestQ[k - 1]
      BY <2>3, <3>2, PendingItems
    <3> QED BY <1>2, <3>2, <3>3 DEF Awaiting
  <2> QED BY <2>1, <2>2, <2>3
<1>5. ASSUME NEW k \in DOMAIN Tail(responseQ) PROVE Tail(responseQ)[k].tid # t
  <2>1. k + 1 \in DOMAIN responseQ /\ 1 < k + 1 /\ Tail(responseQ)[k] = responseQ[k + 1]
    BY <1>2
  <2>2. responseQ[k + 1].tid \in Tids /\ responseQ[1].tid < responseQ[k + 1].tid
    BY <1>1, <1>2, <2>1 DEF Shown, Awaiting, InOrder
  <2> QED BY <1>2, <2>1, <2>2 DEF Tids
<1> QED BY <1>2, <1>3, <1>4, <1>5

(* dbDispatch answers the oldest result's caller: the coroutine filed      *)
(* under it waits, the other results and calls keep their callers.         *)
LEMMA DispatchAnswers ==
  ASSUME TypeOK, Filing, Awaiting, Shown', responseQ # <<>>, responseQ' = Tail(responseQ),
         \A t \in Tids : t # Head(responseQ).tid /\ t <= lastTid => DBTManager'[t] = DBTManager[t]
  PROVE  /\ Service!Answered(DBTManager[Head(responseQ).tid])
         /\ Head(responseQ).tid \in Tids
         /\ DBTManager[Head(responseQ).tid] \in Waiting
         /\ \A k \in DOMAIN Pending : Pending[k].tid # Head(responseQ).tid
<1> DEFINE t == Head(responseQ).tid
           c == DBTManager[t]
<1>1. Shown /\ FiledAsWaiting /\ Fresh
  BY MappingShown DEF Filing
<1>2. /\ Head(responseQ) = responseQ[1] /\ 1 \in DOMAIN responseQ /\ t \in Tids
      /\ \A k \in DOMAIN Tail(responseQ) :
           k + 1 \in DOMAIN responseQ /\ Tail(responseQ)[k] = responseQ[k + 1]
  BY ResponsePopped
<1>3. c \in Cos /\ waits[c] = t /\ t # 0
  <2>1. c \in Cos
    BY <1>1, <1>2 DEF Shown
  <2>2. t # 0
    BY <1>2 DEF Tids
  <2>3. waits[c] = t
    <3> HIDE DEF t
    <3> QED BY <1>1, <1>2, <2>1 DEF FiledAsWaiting
  <2> QED BY <2>1, <2>2, <2>3
<1>4. \A k \in DOMAIN Pending : Pending[k].tid # t
  BY OldestAlone
<1>5. Replies # <<>> /\ Replies[1] = [by |-> c, ok |-> responseQ[1].ok, ver |-> responseQ[1].ver]
      /\ Len(Replies) = Len(responseQ) /\ Replies \in Seq(Replying) /\ responseQ \in Seq(Result)
      /\ Head(Replies) = Replies[1]
  <2>1. /\ Replies \in Seq(Replying) /\ Len(Replies) = Len(responseQ) /\ responseQ \in Seq(Result)
        /\ Replies[1] = [by |-> DBTManager[responseQ[1].tid], ok |-> responseQ[1].ok,
                         ver |-> responseQ[1].ver]
    BY <1>1, <1>2 DEF Shown
  <2>2. Replies # <<>>
    BY <1>2, <2>1
  <2> QED BY <1>2, <2>1, <2>2
<1>6. Replies' \in Seq(Replying) /\ Len(Replies') + 1 = Len(Replies)
  <2>1. Replies' \in Seq(Replying) /\ Len(Replies') = Len(responseQ')
    BY DEF Shown
  <2>2. Len(Tail(responseQ)) + 1 = Len(responseQ)
    BY <1>5
  <2> QED BY <1>5, <2>1, <2>2
<1>7. \A k \in DOMAIN Replies' : Replies'[k] = Replies[k + 1]
  <2>0. DOMAIN Replies' = DOMAIN responseQ'
    BY DEF Shown
  <2> SUFFICES ASSUME NEW k \in DOMAIN responseQ' PROVE Replies'[k] = Replies[k + 1]
    BY <2>0
  <2>1. /\ k + 1 \in DOMAIN responseQ /\ responseQ'[k] = responseQ[k + 1]
        /\ 1 < k + 1 /\ k + 1 # 1
    BY <1>2, <1>5
  <2>2. responseQ[k + 1].tid \in Tids /\ t < responseQ[k + 1].tid /\ responseQ[k + 1].tid <= lastTid
    BY <1>1, <1>2, <2>1, PendingGiven DEF Shown, Awaiting, InOrder
  <2>3. DBTManager'[responseQ[k + 1].tid] = DBTManager[responseQ[k + 1].tid]
    <3>1. responseQ[k + 1].tid # t
      BY <1>2, <2>2 DEF Tids
    <3> QED BY <2>2, <3>1
  <2>4. Replies[k + 1] = [by |-> DBTManager[responseQ[k + 1].tid], ok |-> responseQ[k + 1].ok,
                          ver |-> responseQ[k + 1].ver]
    BY <1>1, <2>1 DEF Shown
  <2>5. Replies'[k] = [by |-> DBTManager'[responseQ'[k].tid], ok |-> responseQ'[k].ok,
                       ver |-> responseQ'[k].ver]
    BY DEF Shown
  <2> QED BY <2>1, <2>3, <2>4, <2>5
<1>8. Replies' = Tail(Replies)
  BY <1>5, <1>6, <1>7, TailByItems
<1> QED BY <1>2, <1>3, <1>4, <1>5, <1>8 DEF Service!Answered, Waiting

LEMMA EndReturns ==
  ASSUME TypeOK, Filing, Awaiting, Shown', DispatchEnd
  PROVE  \E c \in Cos : Service!Return(c)
<1> DEFINE t == Head(responseQ).tid
           c == DBTManager[t]
<1>1. /\ responseQ # <<>> /\ responseQ' = Tail(responseQ)
      /\ waits' = [waits EXCEPT ![c] = 0] /\ DBTManager' = [DBTManager EXCEPT ![t] = NoCo]
      /\ UNCHANGED <<requestQ, running, stored>>
  BY DEF DispatchEnd
<1>2. DBTManager \in [Tids -> Cos \cup {NoCo}] /\ waits \in [Cos -> 0 .. MaxTid] /\ Shown
  BY MappingShown DEF TypeOK, Filing
<1>3. \A u \in Tids : u # t => DBTManager'[u] = DBTManager[u]
  BY <1>1, <1>2
<1>4. /\ Service!Answered(c) /\ t \in Tids /\ c \in Waiting
      /\ \A k \in DOMAIN Pending : Pending[k].tid # t
  BY <1>1, <1>3, DispatchAnswers
<1> HIDE DEF t
<1>5. Waiting' = Waiting \ {c} /\ c \in Cos
  BY <1>1, <1>2, <1>4 DEF Waiting
<1>6. Line' = Line
  <2>1. Pending' = Pending
    BY <1>1 DEF Pending
  <2>2. \A k \in DOMAIN Pending : DBTManager'[Pending[k].tid] = DBTManager[Pending[k].tid]
    BY <1>2, <1>3, <1>4 DEF Shown
  <2> QED BY <2>1, <2>2 DEF Line, CallOf
<1> QED BY <1>1, <1>4, <1>5, <1>6 DEF Service!Return

LEMMA CallAsksAgain ==
  ASSUME TypeOK, Filing, Awaiting, Shown', TypeOK', NEW op \in Ops, NEW d \in Docs,
         DispatchCall(op, d)
  PROVE  \E c \in Cos : Service!AskAgain(c)
<1> DEFINE t == Head(responseQ).tid
           c == DBTManager[t]
           filed == [DBTManager EXCEPT ![t] = NoCo]
<1>1. /\ responseQ # <<>> /\ responseQ' = Tail(responseQ)
      /\ c \in Cos /\ Calls(c, op, d, filed) /\ UNCHANGED <<running, stored>>
  BY DEF DispatchCall, Cos
<1>2. DBTManager \in [Tids -> Cos \cup {NoCo}] /\ Shown /\ Fresh
  BY MappingShown DEF TypeOK, Filing
<1>3. filed \in [Tids -> Cos \cup {NoCo}] /\ \A u \in Tids : u # t => filed[u] = DBTManager[u]
  BY <1>2
<1> HIDE DEF filed
<1>4. lastTid + 1 \in Tids /\ lastTid \in Nat
  BY <1>1, BoundsAssumption DEF Calls, TypeOK, Tids
<1>5. \A u \in Tids : u # t /\ u <= lastTid => DBTManager'[u] = DBTManager[u]
  <2>1. \A u \in Tids : DBTManager'[u] = IF u = lastTid + 1 THEN c ELSE filed[u]
    BY <1>1, <1>3, <1>4 DEF Calls
  <2> QED BY <1>3, <1>4, <2>1 DEF Tids
<1>6. /\ Service!Answered(c) /\ t \in Tids /\ c \in Waiting
      /\ \A k \in DOMAIN Pending : Pending[k].tid # t
  BY <1>1, <1>5, DispatchAnswers
<1> HIDE DEF t
<1>7. \A k \in DOMAIN Pending : filed[Pending[k].tid] = DBTManager[Pending[k].tid]
  BY <1>2, <1>3, <1>6 DEF Shown
<1>8. Service!Asks(c)
  <2> HIDE DEF c
  <2> QED BY <1>1, <1>2, <1>3, <1>7, CallAsks
<1>9. Waiting' = Waiting
  <2> HIDE DEF c
  <2>1. waits' = [waits EXCEPT ![c] = lastTid + 1] /\ waits \in [Cos -> 0 .. MaxTid]
    BY <1>1 DEF Calls, TypeOK
  <2> QED BY <1>4, <1>6, <2>1 DEF Waiting
<1> QED BY <1>1, <1>6, <1>8, <1>9 DEF Service!AskAgain

(* The DB thread executes the oldest call and puts the answer behind the   *)
(* others, or nowhere when the response queue is full.                     *)
LEMMA ExecPerforms ==
  ASSUME TypeOK, Filing, Awaiting, Shown', TypeOK', NEW ok \in BOOLEAN, DBExec(ok)
  PROVE  Service!Perform(ok)
<1> DEFINE new == [tid |-> running.tid, ok |-> ok, ver |-> Found(running, ok)]
           y   == [by |-> DBTManager[running.tid], ok |-> ok, ver |-> Found(running, ok)]
<1>1. /\ running # Idle /\ running' = Idle /\ UNCHANGED <<waits, DBTManager, requestQ>>
      /\ responseQ' = Pushed(responseQ, new)
      /\ stored' = IF ok /\ running.op = "update"
                     THEN [stored EXCEPT ![running.doc] = running.ver] ELSE stored
  BY DEF DBExec, callVars
<1>2. Shown /\ requestQ \in Seq(Query) /\ running \in Query
  BY <1>1, MappingShown DEF TypeOK, Filing
<1>3. /\ Pending' = requestQ /\ Len(Pending) = Len(requestQ) + 1 /\ Pending[1] = running
      /\ \A k \in DOMAIN requestQ : Pending[k + 1] = requestQ[k]
  BY <1>1, PendingItems DEF Pending
<1>4. /\ Line # <<>> /\ Line \in Seq(Calling) /\ Len(Line) = Len(requestQ) + 1
      /\ Head(Line) = [by |-> DBTManager[running.tid], op |-> running.op,
                       doc |-> running.doc, ver |-> running.ver]
  <2>1. 1 \in DOMAIN Pending /\ Line \in Seq(Calling) /\ Len(Line) = Len(requestQ) + 1
    BY <1>2, <1>3 DEF Shown
  <2>2. Line[1] = [by |-> DBTManager[running.tid], op |-> running.op,
                   doc |-> running.doc, ver |-> running.ver]
    BY <1>2, <1>3, <2>1 DEF Shown
  <2>3. Line # <<>> /\ Head(Line) = Line[1]
    BY <1>2, <2>1
  <2> QED BY <2>1, <2>2, <2>3
<1>5. Line' = Tail(Line)
  <2>1. Line' \in Seq(Calling) /\ Len(Line') = Len(requestQ)
    BY <1>3 DEF Shown
  <2>2. \A k \in DOMAIN Line' : Line'[k] = Line[k + 1]
    <3>0. DOMAIN Line' = DOMAIN requestQ
      BY <1>2, <2>1
    <3> SUFFICES ASSUME NEW k \in DOMAIN requestQ PROVE Line'[k] = Line[k + 1]
      BY <3>0
    <3>1. k + 1 \in DOMAIN Pending
      BY <1>2, <1>3 DEF Shown
    <3>2. Line[k + 1] = [by |-> DBTManager[requestQ[k].tid], op |-> requestQ[k].op,
                         doc |-> requestQ[k].doc, ver |-> requestQ[k].ver]
      BY <1>2, <1>3, <3>1 DEF Shown
    <3>3. Line'[k] = [by |-> DBTManager'[requestQ[k].tid], op |-> requestQ[k].op,
                      doc |-> requestQ[k].doc, ver |-> requestQ[k].ver]
      BY <1>3 DEF Shown
    <3> QED BY <1>1, <3>2, <3>3
  <2> QED BY <1>2, <1>4, <2>1, <2>2, TailByItems
<1>6. /\ new \in Result /\ y \in Replying /\ responseQ \in Seq(Result)
      /\ Len(responseQ) <= QueueLen /\ new.tid = running.tid /\ new.ok = ok
      /\ new.ver = Found(running, ok)
  <2>1. Found(running, ok) \in Ver /\ running.tid \in Tids
    BY <1>1, <1>2, FoundVersion DEF Query
  <2>2. DBTManager[running.tid] \in Cos
    <3>1. 1 \in DOMAIN Pending
      BY <1>2, <1>3 DEF Shown
    <3> QED BY <1>2, <1>3, <3>1 DEF Shown
  <2>3. responseQ \in Seq(Result) /\ Len(responseQ) <= QueueLen
    BY DEF TypeOK
  <2> QED BY <2>1, <2>2, <2>3 DEF Result, Replying
<1>7. y = [by |-> Head(Line).by, ok |-> ok,
           ver |-> IF ok /\ Head(Line).op = "find" THEN stored[Head(Line).doc] ELSE 0]
  BY <1>4 DEF Found
<1> HIDE DEF new, y
<1>8. Service!Offer(Replies, y, Replies')
  <2>1. CASE Len(responseQ) < QueueLen
    <3>1. responseQ' = Append(responseQ, new)
      BY <1>1, <2>1 DEF Pushed
    <3>2. /\ Len(responseQ') = Len(responseQ) + 1
          /\ \A k \in DOMAIN responseQ : k \in DOMAIN responseQ' /\ responseQ'[k] = responseQ[k]
          /\ Len(responseQ) + 1 \in DOMAIN responseQ' /\ responseQ'[Len(responseQ) + 1] = new
      BY <1>6, <3>1
    <3>3. /\ Replies \in Seq(Replying) /\ Replies' \in Seq(Replying)
          /\ Len(Replies) = Len(responseQ) /\ Len(Replies') = Len(responseQ')
      BY <1>2 DEF Shown
    <3>4. \A k \in 1 .. Len(Replies) : Replies'[k] = Replies[k]
      <4>0. DOMAIN responseQ = 1 .. Len(Replies)
        BY <1>6, <3>3
      <4> SUFFICES ASSUME NEW k \in DOMAIN responseQ PROVE Replies'[k] = Replies[k]
        BY <4>0
      <4>1. k \in DOMAIN responseQ' /\ responseQ'[k] = responseQ[k]
        BY <3>2
      <4>2. Replies[k] = [by |-> DBTManager[responseQ[k].tid], ok |-> responseQ[k].ok,
                          ver |-> responseQ[k].ver]
        BY <1>2 DEF Shown
      <4>3. Replies'[k] = [by |-> DBTManager'[responseQ'[k].tid], ok |-> responseQ'[k].ok,
                           ver |-> responseQ'[k].ver]
        BY <4>1 DEF Shown
      <4> QED BY <1>1, <4>1, <4>2, <4>3
    <3>5. Replies'[Len(Replies) + 1] = y
      <4>1. Replies'[Len(responseQ) + 1] = [by |-> DBTManager'[new.tid], ok |-> new.ok, ver |-> new.ver]
        BY <3>2 DEF Shown
      <4> QED BY <1>1, <1>6, <3>3, <4>1 DEF y
    <3>6. Replies' = Append(Replies, y)
      BY <1>6, <3>2, <3>3, <3>4, <3>5, AppendByItems
    <3> QED BY <3>6 DEF Service!Offer
  <2>2. CASE ~(Len(responseQ) < QueueLen)
    <3>1. responseQ' = responseQ
      BY <1>1, <2>2 DEF Pushed
    <3>2. Replies' = Replies
      BY <1>1, <3>1 DEF Replies, ReplyOf
    <3>3. Len(Replies) >= QueueLen
      BY <1>2, <1>6, <2>2, QueueLenAssumption DEF Shown
    <3> QED BY <3>2, <3>3 DEF Service!Offer
  <2> QED BY <2>1, <2>2
<1>9. Waiting' = Waiting
  BY <1>1 DEF Waiting
<1> DEFINE z == Head(Line)
<1>10. /\ z.op = running.op /\ z.doc = running.doc /\ z.ver = running.ver
       /\ y = [by |-> z.by, ok |-> ok, ver |-> IF ok /\ z.op = "find" THEN stored[z.doc] ELSE 0]
  BY <1>4, <1>7
<1> HIDE DEF z
<1>11. stored' = IF ok /\ z.op = "update" THEN [stored EXCEPT ![z.doc] = z.ver] ELSE stored
  BY <1>1, <1>10
<1> QED BY <1>4, <1>5, <1>8, <1>9, <1>10, <1>11 DEF Service!Perform, z

(* The synchronous saves of the exit, and the steps AsyncStore does not    *)
(* see.                                                                    *)
LEMMA ExitSavesNow == ASSUME TypeOK, TypeOK', SignalExit PROVE Service!SaveNow
<1>1. /\ stored' \in [Docs -> Ver] /\ stored \in [Docs -> Ver]
      /\ UNCHANGED <<waits, DBTManager, requestQ, running, responseQ>>
      /\ stored' = [d \in Docs |-> IF d \in Shared THEN mem[d] ELSE stored[d]]
  BY DEF SignalExit, TypeOK, callVars
<1>2. Pending' = Pending
  BY <1>1 DEF Pending
<1>3. Line' = Line /\ Replies' = Replies /\ Waiting' = Waiting
  BY <1>1, <1>2 DEF Line, CallOf, Replies, ReplyOf, Waiting
<1> QED BY <1>1, <1>3 DEF Service!SaveNow

LEMMA ServiceUnmoved ==
  ASSUME UNCHANGED <<waits, DBTManager, requestQ, running, responseQ, stored>>
  PROVE  UNCHANGED Service!storeVars
<1>1. Pending' = Pending
  BY DEF Pending
<1> QED BY <1>1 DEF Service!storeVars, Line, CallOf, Replies, ReplyOf, Waiting

LEMMA TakeKeepsLine == ASSUME TypeOK, DBTake PROVE Pending' = Pending
<1>1. /\ requestQ \in Seq(Query) /\ requestQ # <<>>
      /\ running = Idle /\ running' = Head(requestQ) /\ requestQ' = Tail(requestQ)
  BY DEF DBTake, TypeOK
<1>2. Head(requestQ) # Idle
  BY <1>1, RequestPopped, IdleAssumption
<1>3. Pending' = <<Head(requestQ)>> \o Tail(requestQ) /\ Pending = requestQ
  BY <1>1, <1>2 DEF Pending
<1>4. requestQ = <<Head(requestQ)>> \o Tail(requestQ)
  BY <1>1, HeadTailProperties
<1> QED BY <1>3, <1>4

LEMMA TakeUnseen == ASSUME TypeOK, DBTake PROVE UNCHANGED Service!storeVars
<1>1. Pending' = Pending /\ UNCHANGED <<waits, DBTManager, responseQ, stored>>
  BY TakeKeepsLine DEF DBTake, callVars
<1> QED BY <1>1 DEF Service!storeVars, Line, CallOf, Replies, ReplyOf, Waiting

LEMMA ServiceBegins == Init => Service!StoreInit
<1> SUFFICES ASSUME Init PROVE Service!StoreInit
  OBVIOUS
<1>1. stored \in [Docs -> Ver]
  BY BoundsAssumption DEF Init, Ver
<1>2. Pending = <<>> /\ responseQ = <<>>
  BY DEF Init, Pending
<1>3. Line = <<>> /\ Replies = <<>> /\ Waiting = {}
  BY <1>2 DEF Init, Line, Replies, Waiting
<1> QED BY <1>1, <1>3 DEF Service!StoreInit

(* The database path is a store that carries out the calls in the order in *)
(* which they were made, one by one, and returns each answer to the        *)
(* coroutine that asked, for every length of the queues and any numbers of *)
(* coroutines and documents (DB.lua, LuaMongoDB, DBThread::Run, dbDispatch).*)
THEOREM PathImplementsStore == Spec => ImplementsStore
<1> DEFINE Inv == TypeOK /\ Filing /\ Awaiting
<1>1. Init => Inv
  BY TypesBegin, FilingBegins DEF Init, Awaiting, Awaited, InOrder
<1>2. Inv /\ [Next]_vars => Inv'
  BY TypesKept, FilingKept, AwaitingKept
<1>3. Inv /\ Inv' /\ [Next]_vars => [Service!StoreNext]_(Service!storeVars)
  <2> SUFFICES ASSUME Inv, Inv', [Next]_vars
               PROVE  Service!StoreNext \/ UNCHANGED Service!storeVars
    OBVIOUS
  <2>0. Shown'
    BY MappingShownNext DEF Filing
  <2>1. ASSUME NEW w \in Workers, NEW op \in Ops, NEW d \in Docs, StartWorker(w, op, d)
        PROVE  Service!StoreNext
    <3>1. /\ w \in Cos /\ waits[w] = 0 /\ Calls(w, op, d, DBTManager)
          /\ UNCHANGED <<running, responseQ, stored>>
      BY <2>1 DEF StartWorker, Cos
    <3> QED BY <2>0, <3>1, StartAsks DEF Service!StoreNext
  <2>2. ASSUME NEW h \in Humans, ExitHuman(h) PROVE Service!StoreNext
    <3>1. /\ h \in Cos /\ h \in Docs /\ "update" \in Ops /\ waits[h] = 0
          /\ Calls(h, "update", h, DBTManager) /\ UNCHANGED <<running, responseQ, stored>>
      BY <2>2 DEF ExitHuman, Cos, Docs, Ops, Filing, Unsaved
    <3> QED BY <2>0, <3>1, StartAsks DEF Service!StoreNext
  <2>3. CASE DispatchEnd
    BY <2>0, <2>3, EndReturns DEF Service!StoreNext
  <2>4. ASSUME NEW op \in Ops, NEW d \in Docs, DispatchCall(op, d) PROVE Service!StoreNext
    BY <2>0, <2>4, CallAsksAgain DEF Service!StoreNext
  <2>5. ASSUME NEW ok \in BOOLEAN, DBExec(ok) PROVE Service!StoreNext
    BY <2>0, <2>5, ExecPerforms DEF Service!StoreNext
  <2>6. CASE SignalExit
    BY <2>6, ExitSavesNow DEF Service!StoreNext
  <2>7. CASE DBTake
    BY <2>7, TakeUnseen
  <2>8. CASE UNCHANGED <<waits, DBTManager, requestQ, running, responseQ, stored>>
    BY <2>8, ServiceUnmoved
  <2> HIDE DEF Inv
  <2> QED
    BY <2>1, <2>2, <2>3, <2>4, <2>5, <2>6, <2>7, <2>8
    DEF Next, DBStep, Dispatch, ExitStep, Change, FinishExit, LoopTimeout, vars, callVars, dbVars
<1> HIDE DEF Inv
<1> QED BY <1>1, <1>2, <1>3, ServiceBegins, PTL DEF Spec, ImplementsStore, Service!StoreSpec

-----------------------------------------------------------------------------
(* Queues that hold every coroutine's call.  Each coroutine has at most    *)
(* one query or result under way, so such queues refuse none of them.      *)
Ample == IsFiniteSet(Cos) /\ Cardinality(Cos) <= QueueLen

LEMMA RoomFor ==
  ASSUME Ample, FiledAsWaiting, NEW c \in Cos, NEW S, NEW q \in Seq(S), InOrder(q),
         \A k \in DOMAIN q : /\ q[k].tid \in Tids /\ DBTManager[q[k].tid] \in Cos
                             /\ DBTManager[q[k].tid] # c
  PROVE  Len(q) < QueueLen
<1> DEFINE f == [k \in 1 .. Len(q) |-> DBTManager[q[k].tid]]
<1>1. f \in [1 .. Len(q) -> Cos \ {c}]
  OBVIOUS
<1>2. \A j, k \in 1 .. Len(q) : f[j] = f[k] => j = k
  <2> SUFFICES ASSUME NEW j \in 1 .. Len(q), NEW k \in 1 .. Len(q), f[j] = f[k], j < k PROVE FALSE
    OBVIOUS
  <2>1. q[j].tid \in Tids /\ q[k].tid \in Tids /\ q[j].tid < q[k].tid
    BY DEF InOrder
  <2>2. waits[f[j]] = q[j].tid /\ waits[f[k]] = q[k].tid
    BY DEF FiledAsWaiting
  <2> QED BY <2>1, <2>2 DEF Tids
<1>3. f \in Injection(1 .. Len(q), Cos \ {c})
  <2> HIDE DEF f
  <2> QED BY <1>1, <1>2, Fun_IsInj
<1> HIDE DEF f
<1>4. /\ IsFiniteSet(Cos \ {c}) /\ Cardinality(Cos \ {c}) = Cardinality(Cos) - 1
      /\ Cardinality(Cos) \in Nat
  BY FS_RemoveElement, FS_CardinalityType DEF Ample
<1>5. Cardinality(1 .. Len(q)) <= Cardinality(Cos \ {c})
  BY <1>3, <1>4, FS_Injection
<1>6. Cardinality(1 .. Len(q)) = Len(q)
  <2>1. Len(q) \in Nat /\ Cardinality(1 .. Len(q)) = IF 1 > Len(q) THEN 0 ELSE Len(q) - 1 + 1
    BY FS_Interval
  <2> QED BY <2>1
<1> QED BY <1>4, <1>5, <1>6, QueueLenAssumption DEF Ample

LEMMA CallRoom ==
  ASSUME Ample, TypeOK, FiledAsWaiting, Fresh, Awaiting, NEW c \in Cos,
         \A k \in DOMAIN requestQ : DBTManager[requestQ[k].tid] # c
  PROVE  Len(requestQ) < QueueLen
<1>1. requestQ \in Seq(Query) /\ DBTManager \in [Tids -> Cos \cup {NoCo}]
  BY DEF TypeOK
<1>2. ASSUME NEW k \in DOMAIN requestQ
      PROVE  requestQ[k].tid \in Tids /\ DBTManager[requestQ[k].tid] \in Cos
  <2>1. requestQ[k].tid \in Tids /\ DBTManager[requestQ[k].tid] # NoCo
    BY TidsGiven DEF Awaiting, Awaited
  <2> QED BY <1>1, <2>1
<1> QED BY <1>1, <1>2, RoomFor DEF Awaiting

LEMMA ExecRoom ==
  ASSUME Ample, TypeOK, FiledAsWaiting, Fresh, Awaiting, running # Idle
  PROVE  Len(responseQ) < QueueLen
<1>1. responseQ \in Seq(Result) /\ DBTManager \in [Tids -> Cos \cup {NoCo}]
  BY DEF TypeOK
<1>2. running.tid \in Tids /\ DBTManager[running.tid] \in Cos
  <2>1. running.tid \in Tids /\ DBTManager[running.tid] # NoCo
    BY TidsGiven DEF Awaiting
  <2> QED BY <1>1, <2>1
<1>3. ASSUME NEW k \in DOMAIN responseQ
      PROVE  /\ responseQ[k].tid \in Tids /\ DBTManager[responseQ[k].tid] \in Cos
             /\ DBTManager[responseQ[k].tid] # DBTManager[running.tid]
  <2>1. responseQ[k].tid \in Tids /\ responseQ[k].tid < running.tid
    BY TidsGiven DEF Awaiting
  <2>2. DBTManager[responseQ[k].tid] \in Cos
    BY <1>1, <2>1 DEF Awaiting, Awaited
  <2>3. /\ waits[DBTManager[responseQ[k].tid]] = responseQ[k].tid
        /\ waits[DBTManager[running.tid]] = running.tid
    BY <1>2, <2>1, <2>2 DEF FiledAsWaiting
  <2> QED BY <1>2, <2>1, <2>2, <2>3 DEF Tids
<1> QED BY <1>1, <1>2, <1>3, RoomFor DEF Awaiting

LEMMA OthersAsked ==
  ASSUME TypeOK, FiledAsWaiting, Fresh, Awaiting, responseQ # <<>>,
         DBTManager[Head(responseQ).tid] \in Cos, NEW k \in DOMAIN requestQ
  PROVE  DBTManager[requestQ[k].tid] # DBTManager[Head(responseQ).tid]
<1> DEFINE t == Head(responseQ).tid
           c == DBTManager[t]
<1>1. 1 \in DOMAIN responseQ /\ responseQ[1].tid = t /\ t \in Tids
  BY ResponsePopped
<1>2. t < requestQ[k].tid /\ requestQ[k].tid \in Tids
  BY <1>1, TidsGiven DEF Awaiting
<1>3. waits[c] = t
  BY <1>1 DEF FiledAsWaiting
<1>4. DBTManager[requestQ[k].tid] = c => waits[c] = requestQ[k].tid
  BY <1>2 DEF FiledAsWaiting
<1> HIDE DEF c, t
<1>5. DBTManager[requestQ[k].tid] # c
  BY <1>1, <1>2, <1>3, <1>4 DEF Tids
<1> QED BY <1>5 DEF c, t

(* The call or the answer a coroutine waits for, part by part of UnderWay. *)
In(q, t) == \E k \in DOMAIN q : q[k].tid = t
Held(t)  == In(responseQ, t) \/ (running # Idle /\ running.tid = t) \/ In(requestQ, t)
AllHeld  == \A c \in Cos : waits[c] # 0 => Held(waits[c])

LEMMA PushedHeld ==
  ASSUME NEW S, NEW q \in Seq(S), NEW x \in S, Len(q) < QueueLen
  PROVE  In(Pushed(q, x), x.tid) /\ \A t \in Tids : In(q, t) => In(Pushed(q, x), t)
<1>1. Pushed(q, x) = Append(q, x)
  BY DEF Pushed
<1>2. /\ Len(q) + 1 \in DOMAIN Append(q, x) /\ Append(q, x)[Len(q) + 1] = x
      /\ \A k \in DOMAIN q : k \in DOMAIN Append(q, x) /\ Append(q, x)[k] = q[k]
  OBVIOUS
<1> QED BY <1>1, <1>2 DEF In

LEMMA PoppedHeld ==
  ASSUME NEW S, NEW q \in Seq(S), q # <<>>, NEW t, In(q, t), t # Head(q).tid
  PROVE  In(Tail(q), t)
<1>1. PICK k \in DOMAIN q : q[k].tid = t
  BY DEF In
<1>2. k # 1
  BY <1>1
<1>3. k - 1 \in DOMAIN Tail(q) /\ Tail(q)[k - 1] = q[k]
  BY <1>2
<1> QED BY <1>1, <1>3 DEF In

(* A call of coroutine c is queued, and those of the others stay.          *)
LEMMA CallHeld ==
  ASSUME Ample, TypeOK, FiledAsWaiting, Fresh, Awaiting,
         NEW c \in Cos, NEW op \in Ops, NEW d \in Docs,
         NEW filed \in [Tids -> Cos \cup {NoCo}], Calls(c, op, d, filed), UNCHANGED running,
         \A k \in DOMAIN requestQ : DBTManager[requestQ[k].tid] # c,
         \A e \in Cos \ {c} : waits[e] # 0 =>
           In(responseQ', waits[e]) \/ (running # Idle /\ running.tid = waits[e])
             \/ In(requestQ, waits[e])
  PROVE  AllHeld'
<1> DEFINE new == [tid |-> lastTid + 1, op |-> op, doc |-> d, ver |-> mem[d]]
<1>1. /\ new \in Query /\ new.tid = lastTid + 1 /\ lastTid + 1 \in Tids
      /\ requestQ \in Seq(Query) /\ requestQ' = Pushed(requestQ, new)
      /\ waits' = [waits EXCEPT ![c] = lastTid + 1] /\ waits \in [Cos -> 0 .. MaxTid]
      /\ DBTManager \in [Tids -> Cos \cup {NoCo}]
  BY CallsTypes, BoundsAssumption DEF TypeOK, Calls, Query, Ops
<1> HIDE DEF new
<1>2. Len(requestQ) < QueueLen
  BY CallRoom
<1>3. In(requestQ', lastTid + 1) /\ \A t \in Tids : In(requestQ, t) => In(requestQ', t)
  BY <1>1, <1>2, PushedHeld
<1> SUFFICES ASSUME NEW e \in Cos, waits'[e] # 0 PROVE Held(waits[e])'
  BY DEF AllHeld
<1>4. CASE e = c
  BY <1>1, <1>3, <1>4 DEF Held
<1>5. CASE e # c
  <2>1. waits'[e] = waits[e] /\ waits[e] \in Tids
    BY <1>1, <1>5, BoundsAssumption DEF Tids
  <2>2. In(responseQ', waits[e]) \/ (running # Idle /\ running.tid = waits[e]) \/ In(requestQ, waits[e])
    BY <1>5, <2>1
  <2> QED BY <1>3, <2>1, <2>2 DEF Held
<1> QED BY <1>4, <1>5

LEMMA HeldKept ==
  ASSUME Ample, TypeOK, Filing, Awaiting, AllHeld, [Next]_vars
  PROVE  AllHeld'
<1>0. /\ FiledAsWaiting /\ Fresh /\ requestQ \in Seq(Query) /\ responseQ \in Seq(Result)
      /\ DBTManager \in [Tids -> Cos \cup {NoCo}] /\ waits \in [Cos -> 0 .. MaxTid]
      /\ \A e \in Cos : waits[e] # 0 => waits[e] \in Tids
      /\ NoCo \notin Cos /\ 0 \notin Tids
  BY BoundsAssumption, NamesAssumption DEF Filing, TypeOK, Tids, Cos
<1>00. /\ \A k \in DOMAIN responseQ : responseQ[k].tid \in Tids
       /\ \A k \in DOMAIN requestQ : requestQ[k].tid \in Tids
       /\ running # Idle => running.tid \in Tids
  BY <1>0, TidsGiven
<1>1. ASSUME NEW c \in Cos, NEW op \in Ops, NEW d \in Docs, Calls(c, op, d, DBTManager),
             waits[c] = 0, UNCHANGED <<running, responseQ>>
      PROVE  AllHeld'
  <2>1. \A k \in DOMAIN requestQ : DBTManager[requestQ[k].tid] # c
    BY <1>0, <1>00, <1>1 DEF FiledAsWaiting
  <2>2. \A e \in Cos \ {c} : waits[e] # 0 =>
           In(responseQ', waits[e]) \/ (running # Idle /\ running.tid = waits[e])
             \/ In(requestQ, waits[e])
    BY <1>1 DEF AllHeld, Held
  <2> QED BY <1>0, <1>1, <2>1, <2>2, CallHeld
<1>2. ASSUME NEW w \in Workers, NEW op \in Ops, NEW d \in Docs, StartWorker(w, op, d)
      PROVE  AllHeld'
  BY <1>1, <1>2 DEF StartWorker, Cos
<1>3. ASSUME NEW h \in Humans, ExitHuman(h) PROVE AllHeld'
  <2>1. h \in Cos /\ h \in Docs /\ "update" \in Ops /\ waits[h] = 0
    BY <1>3 DEF ExitHuman, Cos, Docs, Ops, Filing, Unsaved
  <2> QED BY <1>1, <1>3, <2>1 DEF ExitHuman
<1>4. CASE DBTake
  <2>1. /\ running = Idle /\ requestQ # <<>> /\ running' = Head(requestQ) /\ running' # Idle
        /\ requestQ' = Tail(requestQ) /\ UNCHANGED <<waits, responseQ>>
    BY <1>4, RequestPopped, IdleAssumption DEF DBTake, callVars
  <2> SUFFICES ASSUME NEW e \in Cos, waits[e] # 0 PROVE Held(waits[e])'
    BY <2>1 DEF AllHeld
  <2>2. In(responseQ, waits[e]) \/ In(requestQ, waits[e])
    BY <2>1 DEF AllHeld, Held
  <2>3. In(requestQ, waits[e]) => waits[e] = Head(requestQ).tid \/ In(Tail(requestQ), waits[e])
    BY <1>0, <2>1, PoppedHeld
  <2> QED BY <2>1, <2>2, <2>3 DEF Held
<1>5. ASSUME NEW ok \in BOOLEAN, DBExec(ok) PROVE AllHeld'
  <2> DEFINE new == [tid |-> running.tid, ok |-> ok, ver |-> Found(running, ok)]
  <2>1. /\ running # Idle /\ responseQ' = Pushed(responseQ, new)
        /\ UNCHANGED <<waits, DBTManager, requestQ>>
    BY <1>5 DEF DBExec, callVars
  <2>2. new \in Result /\ new.tid = running.tid
    BY <1>00, <2>1, FoundVersion DEF Result
  <2> HIDE DEF new
  <2>3. Len(responseQ) < QueueLen
    BY <1>0, <2>1, ExecRoom
  <2>4. In(responseQ', running.tid) /\ \A t \in Tids : In(responseQ, t) => In(responseQ', t)
    BY <1>0, <2>1, <2>2, <2>3, PushedHeld
  <2> QED BY <1>0, <2>1, <2>4 DEF AllHeld, Held
<1>6. ASSUME responseQ # <<>>, responseQ' = Tail(responseQ),
             NEW c \in Cos, c = DBTManager[Head(responseQ).tid],
             NEW e \in Cos, e # c, waits[e] # 0
      PROVE  In(responseQ', waits[e]) \/ (running # Idle /\ running.tid = waits[e])
               \/ In(requestQ, waits[e])
  <2>1. Head(responseQ).tid \in Tids
    BY <1>6, ResponsePopped
  <2>2. waits[e] # Head(responseQ).tid
    BY <1>0, <1>6, <2>1 DEF FiledAsWaiting
  <2>3. In(responseQ, waits[e]) => In(Tail(responseQ), waits[e])
    BY <1>0, <1>6, <2>2, PoppedHeld
  <2> QED BY <1>6, <2>3 DEF AllHeld, Held
<1>7. CASE DispatchEnd
  <2> DEFINE c == DBTManager[Head(responseQ).tid]
  <2>1. /\ responseQ # <<>> /\ responseQ' = Tail(responseQ) /\ c # NoCo
        /\ waits' = [waits EXCEPT ![c] = 0] /\ UNCHANGED <<requestQ, running>>
    BY <1>7 DEF DispatchEnd
  <2>2. c \in Cos
    BY <1>0, <2>1, ResponsePopped
  <2> HIDE DEF c
  <2> SUFFICES ASSUME NEW e \in Cos, waits'[e] # 0 PROVE Held(waits[e])'
    BY DEF AllHeld
  <2>3. e # c /\ waits'[e] = waits[e]
    BY <1>0, <2>1, <2>2
  <2>4. In(responseQ', waits[e]) \/ (running # Idle /\ running.tid = waits[e]) \/ In(requestQ, waits[e])
    BY <1>6, <2>1, <2>2, <2>3 DEF c
  <2> QED BY <2>1, <2>3, <2>4 DEF Held
<1>8. ASSUME NEW op \in Ops, NEW d \in Docs, DispatchCall(op, d) PROVE AllHeld'
  <2> DEFINE t == Head(responseQ).tid
             c == DBTManager[t]
             filed == [DBTManager EXCEPT ![t] = NoCo]
  <2>1. /\ responseQ # <<>> /\ responseQ' = Tail(responseQ) /\ UNCHANGED running
        /\ c \in Cos /\ Calls(c, op, d, filed)
    BY <1>8 DEF DispatchCall, Cos
  <2>2. filed \in [Tids -> Cos \cup {NoCo}] /\ t \in Tids
    BY <1>0, <2>1, ResponsePopped
  <2>3. \A k \in DOMAIN requestQ : DBTManager[requestQ[k].tid] # c
    BY <1>0, <2>1, OthersAsked
  <2>4. \A e \in Cos \ {c} : waits[e] # 0 =>
           In(responseQ', waits[e]) \/ (running # Idle /\ running.tid = waits[e])
             \/ In(requestQ, waits[e])
    BY <1>6, <2>1
  <2> HIDE DEF c, filed, t
  <2> QED BY <1>0, <2>1, <2>2, <2>3, <2>4, CallHeld
<1>9. CASE UNCHANGED <<waits, requestQ, running, responseQ>>
  BY <1>9 DEF AllHeld, Held, In
<1> QED
  BY <1>2, <1>3, <1>4, <1>5, <1>7, <1>8, <1>9
  DEF Next, DBStep, Dispatch, ExitStep, Change, SignalExit, FinishExit, LoopTimeout,
      vars, callVars, dbVars

LEMMA HeldUnderWay == ASSUME TypeOK, AllHeld PROVE NobodyForgotten
<1>1. responseQ \in Seq(Result) /\ requestQ \in Seq(Query)
  BY DEF TypeOK
<1> SUFFICES ASSUME NEW c \in Cos, waits[c] # 0
             PROVE  \E k \in DOMAIN UnderWay : UnderWay[k].tid = waits[c]
  BY DEF NobodyForgotten
<1> DEFINE mid == IF running = Idle THEN <<>> ELSE <<running>>
<1>2. /\ UnderWay = responseQ \o mid \o requestQ /\ Len(mid) \in Nat
      /\ DOMAIN UnderWay = 1 .. (Len(responseQ) + Len(mid) + Len(requestQ))
      /\ \A k \in DOMAIN responseQ : UnderWay[k] = responseQ[k]
      /\ running # Idle => Len(mid) = 1 /\ UnderWay[Len(responseQ) + 1] = running
      /\ \A k \in DOMAIN requestQ : UnderWay[Len(responseQ) + Len(mid) + k] = requestQ[k]
  <2>1. CASE running = Idle
    <3>1. UnderWay = responseQ \o <<>> \o requestQ /\ mid = <<>>
      BY <2>1 DEF UnderWay
    <3> QED BY <1>1, <2>1, <3>1
  <2>2. CASE running # Idle
    <3>1. UnderWay = responseQ \o <<running>> \o requestQ /\ mid = <<running>>
      BY <2>2 DEF UnderWay
    <3> QED BY <1>1, <2>2, <3>1
  <2> QED BY <2>1, <2>2
<1> HIDE DEF mid
<1>3. CASE In(responseQ, waits[c])
  <2>1. PICK k \in DOMAIN responseQ : responseQ[k].tid = waits[c]
    BY <1>3 DEF In
  <2>2. k \in DOMAIN UnderWay /\ UnderWay[k] = responseQ[k]
    BY <1>1, <1>2
  <2> QED BY <2>1, <2>2
<1>4. CASE running # Idle /\ running.tid = waits[c]
  <2>a. Len(responseQ) \in Nat /\ Len(requestQ) \in Nat /\ Len(mid) = 1
    BY <1>1, <1>2, <1>4
  <2>1. Len(responseQ) + 1 \in DOMAIN UnderWay
    BY <1>2, <2>a
  <2> QED BY <1>2, <1>4, <2>1
<1>5. CASE In(requestQ, waits[c])
  <2>1. PICK k \in DOMAIN requestQ : requestQ[k].tid = waits[c]
    BY <1>5 DEF In
  <2>2. Len(responseQ) + Len(mid) + k \in DOMAIN UnderWay
    BY <1>1, <1>2
  <2> QED BY <1>2, <2>1, <2>2
<1> QED BY <1>3, <1>4, <1>5 DEF AllHeld, Held

LEMMA HeldInvariant == ASSUME Ample PROVE Spec => [](TypeOK /\ Filing /\ Awaiting /\ AllHeld)
<1>1. Init => TypeOK /\ Filing /\ Awaiting /\ AllHeld
  BY TypesBegin, FilingBegins DEF Init, Awaiting, Awaited, InOrder, AllHeld
<1>2. TypeOK /\ Filing /\ Awaiting /\ AllHeld /\ [Next]_vars
        => TypeOK' /\ Filing' /\ Awaiting' /\ AllHeld'
  BY TypesKept, FilingKept, AwaitingKept, HeldKept
<1> QED BY <1>1, <1>2, PTL DEF Spec

(* Queues that hold one call of every coroutine lose nothing: whoever      *)
(* waits is on the way to an answer, for any numbers of coroutines and     *)
(* documents.  With one coroutine more the request queue can overflow      *)
(* (g_pDBRequestQueue, g_pDBResponseQueue in Globals.cpp).                 *)
THEOREM AmpleQueuesForgetNobody == ASSUME Ample PROVE Spec => []NobodyForgotten
<1>1. TypeOK /\ AllHeld => NobodyForgotten
  BY HeldUnderWay
<1> QED BY <1>1, HeldInvariant, PTL

(* The limit of 30 s lets the process go only with empty queues.           *)
Emptied == phase = "exited" => clean \/ (requestQ = <<>> /\ running = Idle /\ responseQ = <<>>)

LEMMA EmptiedKept == ASSUME Emptied, [Next]_vars PROVE Emptied'
<1>1. ASSUME NEW d \in Docs, Change(d) PROVE Emptied'
  BY <1>1 DEF Change, Emptied, exitVars
<1>2. ASSUME NEW w \in Workers, NEW op \in Ops, NEW d \in Docs, StartWorker(w, op, d)
      PROVE Emptied'
  BY <1>2 DEF StartWorker, Emptied, exitVars
<1>3. CASE DBStep
  BY <1>3 DEF DBStep, DBTake, DBExec, Emptied, exitVars
<1>4. CASE DispatchEnd
  BY <1>4 DEF DispatchEnd, Leaves, Emptied
<1>5. ASSUME NEW op \in Ops, NEW d \in Docs, DispatchCall(op, d) PROVE Emptied'
  BY <1>5 DEF DispatchCall, Emptied, exitVars
<1>6. CASE SignalExit
  BY <1>6 DEF SignalExit, Emptied
<1>7. ASSUME NEW h \in Humans, ExitHuman(h) PROVE Emptied'
  BY <1>7 DEF ExitHuman, Emptied
<1>8. CASE FinishExit \/ LoopTimeout
  <2>1. CASE FinishExit
    BY <2>1 DEF FinishExit, Emptied
  <2>2. CASE LoopTimeout
    BY <2>2 DEF LoopTimeout, Emptied, dbVars
  <2> QED BY <1>8, <2>1, <2>2
<1>9. CASE UNCHANGED vars
  BY <1>9 DEF vars, dbVars, exitVars, Emptied
<1> QED
  BY <1>1, <1>2, <1>3, <1>4, <1>5, <1>6, <1>7, <1>8, <1>9 DEF Next, Dispatch, ExitStep

(* With such queues the exit stores every character or reports it, also    *)
(* when the 30 s limit ends it (HumanManager.lua onHumanExit): what its    *)
(* comment promises fails only for want of room.                           *)
THEOREM AmpleQueuesStoreEveryone == ASSUME Ample PROVE Spec => []ExitStoresEveryone
<1> DEFINE Inv == TypeOK /\ Filing /\ Awaiting /\ Ordered /\ Leaving /\ Emptied
<1>1. Init => Inv
  <2> SUFFICES ASSUME Init PROVE Inv
    OBVIOUS
  <2>1. TypeOK /\ Filing /\ Ordered
    BY TypesBegin, FilingBegins, OrderBegins
  <2>2. Awaiting /\ Leaving /\ Emptied
    BY DEF Init, Awaiting, Awaited, InOrder, Leaving, Emptied
  <2> QED BY <2>1, <2>2
<1>2. Inv /\ [Next]_vars => Inv'
  BY TypesKept, FilingKept, AwaitingKept, OrderKept, LeavingKept, EmptiedKept
<1>3. Inv /\ AllHeld => ExitStoresEveryone
  <2> SUFFICES ASSUME Inv, AllHeld, phase = "exited", NEW h \in Humans
               PROVE  stored[h] >= due[h] \/ h \in reported
    BY DEF ExitStoresEveryone
  <2>1. Saving(h)
    BY DEF Leaving
  <2>2. h \in Cos /\ waits[h] \in 0 .. MaxTid /\ h # NoCo
    BY NamesAssumption DEF TypeOK, Cos
  <2>3. waits[h] = 0
    <3>1. CASE clean
      <4>1. \A t \in Tids : DBTManager[t] = NoCo
        BY <3>1 DEF Leaving
      <4> QED BY <2>2, <4>1, BoundsAssumption DEF Filing, FiledAsWaiting, Tids
    <3>2. CASE requestQ = <<>> /\ running = Idle /\ responseQ = <<>>
      BY <2>2, <3>2 DEF AllHeld, Held, In
    <3> QED BY <3>1, <3>2 DEF Emptied
  <2> QED BY <2>1, <2>3 DEF Saving
<1> HIDE DEF Inv
<1> QED BY <1>1, <1>2, <1>3, HeldInvariant, PTL DEF Spec

-----------------------------------------------------------------------------
(* The path seen from the callers.  What a document is after some of the   *)
(* calls in line is what the last of them that writes it has put there.    *)
LEMMA NewestIs ==
  ASSUME NEW n \in Nat, NEW S, S \subseteq 1 .. n, S # {}
  PROVE  Newest(S) \in S /\ \A j \in S : j <= Newest(S)
<1> DEFINE below == {ss \in Nat \X Nat : ss[1] < ss[2]}
           gaps  == {n - k : k \in S}
<1>1. IsWellFoundedOn(below, Nat)
  BY NatLessThanWellFounded, Zenon DEF OpToRel
<1>2. gaps \subseteq Nat /\ gaps # {}
  <2>1. \A k \in S : k \in 1 .. n /\ n - k \in Nat
    OBVIOUS
  <2>2. PICK k \in S : TRUE
    OBVIOUS
  <2> QED BY <2>1, <2>2
<1>3. PICK g \in gaps : \A y \in gaps : ~ (<<y, g>> \in below)
  <2> HIDE DEF below, gaps
  <2> QED BY <1>1, <1>2, WFMin, Zenon
<1>4. PICK k \in S : g = n - k
  BY <1>3
<1>5. ASSUME NEW j \in S PROVE j <= k
  <2>1. n - j \in gaps /\ n - j \in Nat /\ g \in Nat /\ j \in Nat /\ k \in Nat
    BY <1>2, <1>4
  <2>2. ~(n - j < g)
    BY <1>3, <2>1
  <2> QED BY <1>4, <2>1, <2>2
<1> QED BY <1>5 DEF Newest

Writes(q, k, d) == q[k].op = "update" /\ q[k].doc = d

(* What After is, case by case.                                            *)
LEMMA AfterCases ==
  ASSUME NEW s, NEW q \in Seq(Query), NEW n \in 0 .. Len(q), NEW d \in Docs
  PROVE  \/ /\ \A k \in 1 .. n : ~Writes(q, k, d)
            /\ After(s, q, n, d) = s[d]
         \/ \E k \in 1 .. n :
              /\ Writes(q, k, d) /\ \A j \in k + 1 .. n : ~Writes(q, j, d)
              /\ After(s, q, n, d) = q[k].ver
<1> DEFINE W == {k \in 1 .. n : q[k].op = "update" /\ q[k].doc = d}
<1>1. After(s, q, n, d) = IF W = {} THEN s[d] ELSE q[Newest(W)].ver
  BY DEF After
<1>2. \A k \in 1 .. n : k \in W <=> Writes(q, k, d)
  BY DEF Writes
<1>3. W \subseteq 1 .. n /\ n \in Nat
  OBVIOUS
<1> HIDE DEF W
<1>4. CASE W = {}
  BY <1>1, <1>2, <1>4
<1>5. CASE W # {}
  <2>1. Newest(W) \in W /\ \A j \in W : j <= Newest(W)
    BY <1>3, <1>5, NewestIs
  <2>2. Newest(W) \in 1 .. n
    BY <1>3, <2>1
  <2>3. ASSUME NEW j \in Newest(W) + 1 .. n, Writes(q, j, d) PROVE FALSE
    <3>1. j \in 1 .. n /\ j > Newest(W)
      BY <2>2
    <3>2. j <= Newest(W)
      BY <1>2, <2>1, <2>3, <3>1
    <3> QED BY <2>2, <3>1, <3>2
  <2> QED BY <1>1, <1>2, <1>5, <2>1, <2>2, <2>3
<1> QED BY <1>4, <1>5

LEMMA AfterNone ==
  ASSUME NEW s, NEW q \in Seq(Query), NEW n \in 0 .. Len(q), NEW d \in Docs,
         \A k \in 1 .. n : ~Writes(q, k, d)
  PROVE  After(s, q, n, d) = s[d]
BY AfterCases

LEMMA AfterLast ==
  ASSUME NEW s, NEW q \in Seq(Query), NEW n \in 0 .. Len(q), NEW d \in Docs,
         NEW k \in 1 .. n, Writes(q, k, d), \A j \in k + 1 .. n : ~Writes(q, j, d)
  PROVE  After(s, q, n, d) = q[k].ver
<1>1. PICK i \in 1 .. n : /\ Writes(q, i, d) /\ \A j \in i + 1 .. n : ~Writes(q, j, d)
                         /\ After(s, q, n, d) = q[i].ver
  BY AfterCases
<1>2. i = k
  <2>1. ~(k < i) /\ ~(i < k)
    BY <1>1
  <2> QED BY <2>1
<1> QED BY <1>1, <1>2

LEMMA AfterVer ==
  ASSUME NEW s \in [Docs -> Ver], NEW q \in Seq(Query), NEW n \in 0 .. Len(q), NEW d \in Docs
  PROVE  After(s, q, n, d) \in Ver
<1>1. \A k \in 1 .. n : q[k].ver \in Ver
  <2>1. \A k \in 1 .. n : q[k] \in Query
    OBVIOUS
  <2> QED BY <2>1 DEF Query
<1>2. s[d] \in Ver
  OBVIOUS
<1> QED BY <1>1, <1>2, AfterCases

\* Sequence p is q with one more item behind, or without its first.
Grown(p, q)  == Len(p) = Len(q) + 1 /\ \A k \in 1 .. Len(q) : p[k] = q[k]
Shrunk(p, q) == Len(q) = Len(p) + 1 /\ \A k \in 1 .. Len(p) : p[k] = q[k + 1]

(* A new call changes the end of the line only.                            *)
LEMMA AfterAppended ==
  ASSUME NEW s, NEW q \in Seq(Query), NEW p \in Seq(Query), NEW d \in Docs,
         Grown(p, q)
  PROVE  /\ \A n \in 0 .. Len(q) : After(s, p, n, d) = After(s, q, n, d)
         /\ After(s, p, Len(p), d) = IF Writes(p, Len(p), d)
                                       THEN p[Len(p)].ver ELSE After(s, q, Len(q), d)
<1> USE DEF Grown
<1>1. /\ Len(q) \in Nat /\ Len(p) = Len(q) + 1
      /\ \A k \in 1 .. Len(q) : p[k] = q[k]
  OBVIOUS
<1>2. \A k \in 1 .. Len(q) : Writes(p, k, d) <=> Writes(q, k, d)
  BY <1>1 DEF Writes
<1>3. ASSUME NEW n \in 0 .. Len(q) PROVE After(s, p, n, d) = After(s, q, n, d)
  <2>1. n \in 0 .. Len(p) /\ n \in Nat
    BY <1>1
  <2>2. \A k \in 1 .. n : k \in 1 .. Len(q) /\ p[k] = q[k] /\ (Writes(p, k, d) <=> Writes(q, k, d))
    BY <1>1, <1>2
  <2>3. CASE \A k \in 1 .. n : ~Writes(q, k, d)
    BY <2>1, <2>2, <2>3, AfterNone
  <2>4. ASSUME NEW k \in 1 .. n, Writes(q, k, d), \A j \in k + 1 .. n : ~Writes(q, j, d)
        PROVE  After(s, p, n, d) = After(s, q, n, d)
    <3>1. Writes(p, k, d) /\ \A j \in k + 1 .. n : ~Writes(p, j, d)
      <4>1. \A j \in k + 1 .. n : j \in 1 .. n
        OBVIOUS
      <4> QED BY <2>2, <2>4, <4>1
    <3>2. After(s, p, n, d) = p[k].ver
      BY <2>1, <3>1, AfterLast
    <3>3. After(s, q, n, d) = q[k].ver
      BY <2>4, AfterLast
    <3> QED BY <2>2, <3>2, <3>3
  <2> QED BY <2>3, <2>4, AfterCases
<1>4. CASE Writes(p, Len(p), d)
  <2>1. After(s, p, Len(p), d) = p[Len(p)].ver
    <3>1. Len(p) \in 0 .. Len(p) /\ Len(p) \in 1 .. Len(p)
      BY <1>1
    <3>2. \A j \in Len(p) + 1 .. Len(p) : FALSE
      BY <1>1
    <3> QED BY <1>4, <3>1, <3>2, AfterLast
  <2> QED BY <1>1, <1>3, <1>4, <2>1
<1>5. CASE ~Writes(p, Len(p), d)
  <2>1. Len(p) \in 0 .. Len(p) /\ \A k \in 1 .. Len(p) : k \in 1 .. Len(q) \/ k = Len(p)
    BY <1>1
  <2>2. CASE \A k \in 1 .. Len(q) : ~Writes(q, k, d)
    <3>1. \A k \in 1 .. Len(p) : ~Writes(p, k, d)
      BY <1>2, <1>5, <2>1, <2>2
    <3>2. After(s, p, Len(p), d) = s[d]
      BY <2>1, <3>1, AfterNone
    <3>3. After(s, q, Len(q), d) = s[d]
      BY <1>1, <2>2, AfterNone
    <3> QED BY <1>3, <1>5, <3>2, <3>3
  <2>3. ASSUME NEW k \in 1 .. Len(q), Writes(q, k, d), \A j \in k + 1 .. Len(q) : ~Writes(q, j, d)
        PROVE  After(s, p, Len(p), d) = After(s, q, Len(q), d)
    <3>1. k \in 1 .. Len(p) /\ Writes(p, k, d)
      BY <1>1, <1>2, <2>3
    <3>2. \A j \in k + 1 .. Len(p) : ~Writes(p, j, d)
      <4>1. \A j \in k + 1 .. Len(p) : (j \in k + 1 .. Len(q) /\ j \in 1 .. Len(q)) \/ j = Len(p)
        BY <1>1
      <4> QED BY <1>2, <1>5, <2>3, <4>1
    <3>3. After(s, p, Len(p), d) = p[k].ver
      BY <2>1, <3>1, <3>2, AfterLast
    <3>4. After(s, q, Len(q), d) = q[k].ver
      <4>1. Len(q) \in 0 .. Len(q)
        BY <1>1
      <4> QED BY <2>3, <4>1, AfterLast
    <3> QED BY <1>1, <3>3, <3>4
  <2>4. Len(q) \in 0 .. Len(q)
    BY <1>1
  <2> QED BY <1>3, <1>5, <2>2, <2>3, <2>4, AfterCases
<1> QED BY <1>3, <1>4, <1>5

\* The documents z are those of s once the first call of q is carried out.
Carried(z, s, q) == \A d \in Docs : z[d] = IF Writes(q, 1, d) THEN q[1].ver ELSE s[d]

(* The oldest call takes effect: the documents after those that are left   *)
(* stay what they were.                                                    *)
LEMMA AfterExecuted ==
  ASSUME NEW s \in [Docs -> Ver], NEW q \in Seq(Query), NEW p \in Seq(Query),
         Shrunk(p, q), NEW r \in [Docs -> Ver], Carried(r, s, q), NEW d \in Docs,
         NEW n \in 0 .. Len(p)
  PROVE  After(r, p, n, d) = After(s, q, n + 1, d)
<1> USE DEF Shrunk, Carried
<1>1. /\ Len(q) \in Nat /\ Len(p) + 1 = Len(q) /\ Len(p) \in Nat /\ 1 \in 1 .. Len(q)
      /\ \A k \in 1 .. Len(p) : p[k] = q[k + 1]
  OBVIOUS
<1>2. /\ n + 1 \in 0 .. Len(q) /\ n \in Nat /\ 1 \in 1 .. n + 1
      /\ \A k \in 1 .. n : k \in 1 .. Len(p) /\ k + 1 \in 1 .. n + 1
  BY <1>1
<1>3. \A k \in 1 .. n : p[k] = q[k + 1] /\ (Writes(p, k, d) <=> Writes(q, k + 1, d))
  BY <1>1, <1>2 DEF Writes
<1>4. ASSUME NEW k \in 1 .. n, Writes(p, k, d), \A j \in k + 1 .. n : ~Writes(p, j, d)
      PROVE  After(r, p, n, d) = After(s, q, n + 1, d)
  <2>1. After(r, p, n, d) = p[k].ver
    BY <1>4, AfterLast
  <2>2. Writes(q, k + 1, d) /\ \A j \in (k + 1) + 1 .. n + 1 : ~Writes(q, j, d)
    <3>1. ASSUME NEW j \in (k + 1) + 1 .. n + 1 PROVE ~Writes(q, j, d)
      <4>1. j - 1 \in k + 1 .. n /\ j - 1 \in 1 .. n /\ (j - 1) + 1 = j
        BY <1>2
      <4>2. ~Writes(p, j - 1, d)
        BY <1>4, <4>1
      <4> QED BY <1>3, <4>1, <4>2
    <3> QED BY <1>3, <1>4, <3>1
  <2>3. After(s, q, n + 1, d) = q[k + 1].ver
    <3>1. k + 1 \in 1 .. n + 1
      BY <1>2
    <3> QED BY <1>2, <2>2, <3>1, AfterLast
  <2> QED BY <1>3, <2>1, <2>3
<1>5. ASSUME \A k \in 1 .. n : ~Writes(p, k, d), After(r, p, n, d) = r[d]
      PROVE  After(r, p, n, d) = After(s, q, n + 1, d)
  <2>1. \A j \in 1 + 1 .. n + 1 : ~Writes(q, j, d)
    <3>1. ASSUME NEW j \in 1 + 1 .. n + 1 PROVE ~Writes(q, j, d)
      <4>1. j - 1 \in 1 .. n /\ (j - 1) + 1 = j
        BY <1>2
      <4>2. ~Writes(p, j - 1, d)
        BY <1>5, <4>1
      <4> QED BY <1>3, <4>1, <4>2
    <3> QED BY <3>1
  <2>2. CASE Writes(q, 1, d)
    <3>1. After(s, q, n + 1, d) = q[1].ver
      BY <1>2, <2>1, <2>2, AfterLast
    <3>2. r[d] = q[1].ver
      BY <2>2 DEF Writes
    <3> QED BY <1>5, <3>1, <3>2
  <2>3. CASE ~Writes(q, 1, d)
    <3>1. \A j \in 1 .. n + 1 : ~Writes(q, j, d)
      <4>1. \A j \in 1 .. n + 1 : j = 1 \/ j \in 1 + 1 .. n + 1
        BY <1>2
      <4> QED BY <2>1, <2>3, <4>1
    <3>2. After(s, q, n + 1, d) = s[d]
      BY <1>2, <3>1, AfterNone
    <3>3. r[d] = s[d]
      BY <2>3 DEF Writes
    <3> QED BY <1>5, <3>2, <3>3
  <2> QED BY <2>2, <2>3
<1> QED BY <1>4, <1>5, AfterCases

(* The answers that are owed, oldest first: the results queued, then what  *)
(* the calls in line are promised.                                         *)
Debt == [by : Cos \cup {NoCo}, ver : Ver]

Owes(c, v) == [by |-> c, ver |-> v]

Alike(l, m, q) == \A k \in 1 .. Len(q) : l[q[k].tid] = m[q[k].tid]

OwedBy(m, r, s, q) ==
  [k \in 1 .. Len(r) + Len(q) |->
     IF k <= Len(r) THEN Owes(m[r[k].tid], r[k].ver)
       ELSE Owes(m[q[k - Len(r)].tid], Promised(s, q, k - Len(r)))]

LEMMA PromisedVer ==
  ASSUME NEW s \in [Docs -> Ver], NEW q \in Seq(Query), NEW k \in 1 .. Len(q)
  PROVE  Promised(s, q, k) \in Ver
<1>1. q[k] \in Query /\ k - 1 \in 0 .. Len(q) /\ 0 \in Ver
  BY BoundsAssumption DEF Ver
<1>2. q[k].doc \in Docs
  BY <1>1 DEF Query
<1> QED BY <1>1, <1>2, AfterVer DEF Promised

LEMMA OwedItems ==
  ASSUME NEW m \in [Tids -> Cos \cup {NoCo}], NEW r \in Seq(Result),
         NEW s \in [Docs -> Ver], NEW q \in Seq(Query)
  PROVE  /\ OwedBy(m, r, s, q) \in Seq(Debt) /\ Len(OwedBy(m, r, s, q)) = Len(r) + Len(q)
         /\ \A k \in 1 .. Len(r) :
              OwedBy(m, r, s, q)[k] = Owes(m[r[k].tid], r[k].ver)
         /\ \A k \in 1 .. Len(q) :
              OwedBy(m, r, s, q)[Len(r) + k] = Owes(m[q[k].tid], Promised(s, q, k))
<1>1. Len(r) \in Nat /\ Len(q) \in Nat
  OBVIOUS
<1>2. \A k \in 1 .. Len(r) : Owes(m[r[k].tid], r[k].ver) \in Debt
  <2> SUFFICES ASSUME NEW k \in 1 .. Len(r) PROVE Owes(m[r[k].tid], r[k].ver) \in Debt
    OBVIOUS
  <2>1. r[k] \in Result
    OBVIOUS
  <2>2. m[r[k].tid] \in Cos \cup {NoCo} /\ r[k].ver \in Ver
    BY <2>1 DEF Result
  <2> QED BY <2>2 DEF Debt, Owes
<1>3. \A k \in 1 .. Len(q) : Owes(m[q[k].tid], Promised(s, q, k)) \in Debt
  <2> SUFFICES ASSUME NEW k \in 1 .. Len(q)
               PROVE  Owes(m[q[k].tid], Promised(s, q, k)) \in Debt
    OBVIOUS
  <2>1. q[k] \in Query
    OBVIOUS
  <2>2. m[q[k].tid] \in Cos \cup {NoCo} /\ Promised(s, q, k) \in Ver
    BY <2>1, PromisedVer DEF Query
  <2> QED BY <2>2 DEF Debt, Owes
<1>4. \A k \in 1 .. Len(r) + Len(q) : k <= Len(r) \/ k - Len(r) \in 1 .. Len(q)
  BY <1>1
<1>5. OwedBy(m, r, s, q) \in [1 .. Len(r) + Len(q) -> Debt]
  <2>1. ASSUME NEW k \in 1 .. Len(r) + Len(q)
        PROVE  (IF k <= Len(r) THEN Owes(m[r[k].tid], r[k].ver)
                  ELSE Owes(m[q[k - Len(r)].tid], Promised(s, q, k - Len(r)))) \in Debt
    <3>1. CASE k <= Len(r)
      <4>1. k \in 1 .. Len(r)
        BY <1>1, <3>1
      <4> QED BY <1>2, <3>1, <4>1
    <3>2. CASE ~(k <= Len(r))
      <4>1. k - Len(r) \in 1 .. Len(q)
        BY <1>4, <3>2
      <4> QED BY <1>3, <3>2, <4>1
    <3> QED BY <3>1, <3>2
  <2> QED BY <2>1 DEF OwedBy
<1>6. OwedBy(m, r, s, q) \in Seq(Debt) /\ Len(OwedBy(m, r, s, q)) = Len(r) + Len(q)
  <2> DEFINE n == Len(r) + Len(q)
  <2>1. n \in Nat
    BY <1>1
  <2>2. OwedBy(m, r, s, q) \in [1 .. n -> Debt]
    BY <1>5
  <2> HIDE DEF n
  <2>3. OwedBy(m, r, s, q) \in Seq(Debt) /\ Len(OwedBy(m, r, s, q)) = n
    BY <2>1, <2>2, SeqDef, LenProperties
  <2> QED BY <2>3 DEF n
<1>7. \A k \in 1 .. Len(r) : k \in 1 .. Len(r) + Len(q) /\ k <= Len(r)
  BY <1>1
<1>8. \A k \in 1 .. Len(q) :
        Len(r) + k \in 1 .. Len(r) + Len(q) /\ ~(Len(r) + k <= Len(r)) /\ (Len(r) + k) - Len(r) = k
  BY <1>1
<1>9. \A k \in 1 .. Len(r) :
        OwedBy(m, r, s, q)[k] = Owes(m[r[k].tid], r[k].ver)
  BY <1>7 DEF OwedBy
<1>10. ASSUME NEW k \in 1 .. Len(q)
       PROVE  OwedBy(m, r, s, q)[Len(r) + k] = Owes(m[q[k].tid], Promised(s, q, k))
  <2> DEFINE i == Len(r) + k
  <2>1. i \in 1 .. Len(r) + Len(q) /\ ~(i <= Len(r)) /\ i - Len(r) = k
    BY <1>8
  <2> HIDE DEF i
  <2>2. OwedBy(m, r, s, q)[i] = Owes(m[q[i - Len(r)].tid], Promised(s, q, i - Len(r)))
    BY <2>1 DEF OwedBy
  <2> QED BY <2>1, <2>2 DEF i
<1> QED BY <1>6, <1>9, <1>10

(* A new call is promised an answer behind the others.                     *)
LEMMA OwedAppended ==
  ASSUME NEW m \in [Tids -> Cos \cup {NoCo}], NEW l \in [Tids -> Cos \cup {NoCo}],
         NEW r \in Seq(Result), NEW s \in [Docs -> Ver], NEW q \in Seq(Query), NEW p \in Seq(Query),
         Grown(p, q), Alike(l, m, r), Alike(l, m, q)
  PROVE  /\ OwedBy(l, r, s, p)
              = Append(OwedBy(m, r, s, q), Owes(l[p[Len(p)].tid], Promised(s, p, Len(p))))
         /\ Promised(s, p, Len(p))
              = IF p[Len(p)].op = "find" THEN After(s, q, Len(q), p[Len(p)].doc) ELSE 0
<1> USE DEF Grown, Alike
<1>1. \A k \in 1 .. Len(q) : Promised(s, p, k) = Promised(s, q, k)
  <2> SUFFICES ASSUME NEW k \in 1 .. Len(q) PROVE Promised(s, p, k) = Promised(s, q, k)
    OBVIOUS
  <2>1. q[k] \in Query /\ k - 1 \in 0 .. Len(q) /\ p[k] = q[k]
    OBVIOUS
  <2>2. After(s, p, k - 1, q[k].doc) = After(s, q, k - 1, q[k].doc)
    <3>1. q[k].doc \in Docs
      BY <2>1 DEF Query
    <3> QED BY <2>1, <3>1, AfterAppended
  <2> QED BY <2>1, <2>2 DEF Promised
<1>2. Promised(s, p, Len(p))
        = IF p[Len(p)].op = "find" THEN After(s, q, Len(q), p[Len(p)].doc) ELSE 0
  <2>1. p[Len(p)] \in Query /\ Len(q) \in 0 .. Len(q) /\ Len(p) - 1 = Len(q)
    OBVIOUS
  <2>2. After(s, p, Len(q), p[Len(p)].doc) = After(s, q, Len(q), p[Len(p)].doc)
    <3>1. p[Len(p)].doc \in Docs
      BY <2>1 DEF Query
    <3> QED BY <2>1, <3>1, AfterAppended
  <2> QED BY <2>1, <2>2 DEF Promised
<1> DEFINE A == OwedBy(m, r, s, q)
           B == OwedBy(l, r, s, p)
           x == Owes(l[p[Len(p)].tid], Promised(s, p, Len(p)))
<1>3. /\ A \in Seq(Debt) /\ Len(A) = Len(r) + Len(q)
      /\ \A k \in 1 .. Len(r) : A[k] = Owes(m[r[k].tid], r[k].ver)
      /\ \A k \in 1 .. Len(q) : A[Len(r) + k] = Owes(m[q[k].tid], Promised(s, q, k))
  BY OwedItems
<1>4. /\ B \in Seq(Debt) /\ Len(B) = Len(r) + Len(p)
      /\ \A k \in 1 .. Len(r) : B[k] = Owes(l[r[k].tid], r[k].ver)
      /\ \A k \in 1 .. Len(p) : B[Len(r) + k] = Owes(l[p[k].tid], Promised(s, p, k))
  BY OwedItems
<1>5. x \in Debt /\ B[Len(A) + 1] = x
  <2>1. Len(p) \in 1 .. Len(p) /\ Len(r) + Len(p) = Len(A) + 1
    BY <1>3
  <2>2. B[Len(r) + Len(p)] = x
    BY <1>4, <2>1
  <2>3. B[Len(r) + Len(p)] \in Debt
    <3>1. Len(r) + Len(p) \in 1 .. Len(B)
      BY <1>4
    <3> HIDE DEF B
    <3> QED BY <1>4, <3>1
  <2> HIDE DEF A, B, x
  <2> QED BY <2>1, <2>2, <2>3
<1> HIDE DEF A, B, x
<1>6. ASSUME NEW k \in 1 .. Len(r) PROVE B[k] = A[k]
  <2>1. B[k] = Owes(l[r[k].tid], r[k].ver) /\ A[k] = Owes(m[r[k].tid], r[k].ver)
    BY <1>3, <1>4
  <2> QED BY <2>1
<1>7. ASSUME NEW k \in 1 .. Len(q) PROVE B[Len(r) + k] = A[Len(r) + k]
  <2>1. k \in 1 .. Len(p) /\ p[k] = q[k]
    OBVIOUS
  <2>2. B[Len(r) + k] = Owes(l[p[k].tid], Promised(s, p, k))
    BY <1>4, <2>1
  <2>3. A[Len(r) + k] = Owes(m[q[k].tid], Promised(s, q, k))
    BY <1>3
  <2>4. l[q[k].tid] = m[q[k].tid] /\ Promised(s, p, k) = Promised(s, q, k)
    BY <1>1
  <2> QED BY <2>1, <2>2, <2>3, <2>4
<1>8. \A k \in 1 .. Len(A) : B[k] = A[k]
  <2> SUFFICES ASSUME NEW k \in 1 .. Len(A) PROVE B[k] = A[k]
    OBVIOUS
  <2>1. CASE k \in 1 .. Len(r)
    BY <1>6, <2>1
  <2>2. CASE ~(k \in 1 .. Len(r))
    <3>1. k - Len(r) \in 1 .. Len(q) /\ Len(r) + (k - Len(r)) = k
      BY <1>3, <2>2
    <3> QED BY <1>7, <3>1
  <2> QED BY <2>1, <2>2
<1>9. Len(B) = Len(A) + 1
  BY <1>3, <1>4
<1>10. B = Append(A, x)
  BY <1>3, <1>4, <1>5, <1>8, <1>9, AppendByItems
<1> QED BY <1>2, <1>10 DEF A, B, x

\* What OwedBy is made from.
PathTypes(m, r, s, q) ==
  /\ m \in [Tids -> Cos \cup {NoCo}] /\ r \in Seq(Result)
  /\ s \in [Docs -> Ver] /\ q \in Seq(Query)

\* Of the debts A the oldest is paid.
Paid(A, B) == A # <<>> /\ B = Tail(A)

(* An answer that is given is the oldest.                                  *)
LEMMA OwedPaid ==
  ASSUME NEW m, NEW l, NEW r, NEW t, NEW s, NEW q,
         PathTypes(m, r, s, q), PathTypes(l, t, s, q),
         Shrunk(t, r), Alike(l, m, t), Alike(l, m, q)
  PROVE  Paid(OwedBy(m, r, s, q), OwedBy(l, t, s, q))
<1> USE DEF Shrunk, Alike, PathTypes
<1> DEFINE A == OwedBy(m, r, s, q)
           B == OwedBy(l, t, s, q)
<1>1. /\ A \in Seq(Debt) /\ Len(A) = Len(r) + Len(q)
      /\ \A k \in 1 .. Len(r) : A[k] = Owes(m[r[k].tid], r[k].ver)
      /\ \A k \in 1 .. Len(q) : A[Len(r) + k] = Owes(m[q[k].tid], Promised(s, q, k))
  BY OwedItems
<1>2. /\ B \in Seq(Debt) /\ Len(B) = Len(t) + Len(q)
      /\ \A k \in 1 .. Len(t) : B[k] = Owes(l[t[k].tid], t[k].ver)
      /\ \A k \in 1 .. Len(q) : B[Len(t) + k] = Owes(l[q[k].tid], Promised(s, q, k))
  BY OwedItems
<1> HIDE DEF A, B
<1>3. ASSUME NEW k \in 1 .. Len(t) PROVE B[k] = A[k + 1]
  <2>1. k + 1 \in 1 .. Len(r) /\ t[k] = r[k + 1] /\ l[t[k].tid] = m[t[k].tid]
    OBVIOUS
  <2>2. A[k + 1] = Owes(m[r[k + 1].tid], r[k + 1].ver)
    BY <1>1, <2>1
  <2>3. B[k] = Owes(l[t[k].tid], t[k].ver)
    BY <1>2
  <2> QED BY <2>1, <2>2, <2>3
<1>4. ASSUME NEW k \in 1 .. Len(q) PROVE B[Len(t) + k] = A[Len(r) + k]
  <2>1. l[q[k].tid] = m[q[k].tid]
    OBVIOUS
  <2>2. A[Len(r) + k] = Owes(m[q[k].tid], Promised(s, q, k))
    BY <1>1
  <2>3. B[Len(t) + k] = Owes(l[q[k].tid], Promised(s, q, k))
    BY <1>2
  <2> QED BY <2>1, <2>2, <2>3
<1>5. \A k \in DOMAIN B : B[k] = A[k + 1]
  <2> SUFFICES ASSUME NEW k \in 1 .. Len(B) PROVE B[k] = A[k + 1]
    BY <1>2
  <2>1. CASE k \in 1 .. Len(t)
    BY <1>3, <2>1
  <2>2. CASE ~(k \in 1 .. Len(t))
    <3>1. k - Len(t) \in 1 .. Len(q) /\ Len(t) + (k - Len(t)) = k /\ Len(r) + (k - Len(t)) = k + 1
      BY <1>2, <2>2
    <3> QED BY <1>4, <3>1
  <2> QED BY <2>1, <2>2
<1>6. Len(B) + 1 = Len(A) /\ A # <<>>
  BY <1>1, <1>2
<1>7. B = Tail(A)
  BY <1>1, <1>2, <1>5, <1>6, TailByItems
<1> QED BY <1>6, <1>7 DEF A, B, Paid

\* The first call of q is carried out: its result is the last of t, the calls
\* left are p, and the documents were s and are z.
Performed(r, t, s, z, q, p) ==
  /\ Shrunk(p, q) /\ Grown(t, r) /\ Carried(z, s, q)
  /\ t[Len(t)].tid = q[1].tid
  /\ t[Len(t)].ver = IF q[1].op = "find" THEN s[q[1].doc] ELSE 0

\* The documents after any number of the calls left are those there would have been.
LEMMA AfterPerformed ==
  ASSUME NEW m, NEW r, NEW t, NEW s, NEW z, NEW q, NEW p,
         PathTypes(m, r, s, q), PathTypes(m, t, z, p), Performed(r, t, s, z, q, p),
         NEW d \in Docs, NEW n \in 0 .. Len(p)
  PROVE  After(z, p, n, d) = After(s, q, n + 1, d)
<1>1. /\ s \in [Docs -> Ver] /\ z \in [Docs -> Ver] /\ q \in Seq(Query) /\ p \in Seq(Query)
      /\ Shrunk(p, q) /\ Carried(z, s, q)
  BY DEF PathTypes, Performed
<1> QED BY <1>1, AfterExecuted

(* The oldest call keeps its promise when it is executed, and the others   *)
(* are promised what they were.                                            *)
LEMMA OwedExecuted ==
  ASSUME NEW m, NEW r, NEW t, NEW s, NEW z, NEW q, NEW p,
         PathTypes(m, r, s, q), PathTypes(m, t, z, p), Performed(r, t, s, z, q, p)
  PROVE  OwedBy(m, t, z, p) = OwedBy(m, r, s, q)
<1>0. \A d \in Docs : \A n \in 0 .. Len(p) : After(z, p, n, d) = After(s, q, n + 1, d)
  BY AfterPerformed
<1> USE DEF PathTypes, Grown, Shrunk, Carried, Performed
<1>1. Promised(s, q, 1) = t[Len(t)].ver
  <2>1. q[1] \in Query /\ 0 \in 0 .. Len(q) /\ 1 - 1 = 0 /\ \A k \in 1 .. 0 : ~Writes(q, k, q[1].doc)
    OBVIOUS
  <2>2. After(s, q, 0, q[1].doc) = s[q[1].doc]
    <3>1. q[1].doc \in Docs
      BY <2>1 DEF Query
    <3> QED BY <2>1, <3>1, AfterNone
  <2> QED BY <2>1, <2>2 DEF Promised
<1>2. \A k \in 1 .. Len(p) : Promised(z, p, k) = Promised(s, q, k + 1)
  <2> SUFFICES ASSUME NEW k \in 1 .. Len(p) PROVE Promised(z, p, k) = Promised(s, q, k + 1)
    OBVIOUS
  <2>1. /\ p[k] \in Query /\ k - 1 \in 0 .. Len(p) /\ p[k] = q[k + 1]
        /\ (k - 1) + 1 = k /\ (k + 1) - 1 = k
    OBVIOUS
  <2>2. After(z, p, k - 1, p[k].doc) = After(s, q, k, p[k].doc)
    <3>1. p[k].doc \in Docs
      BY <2>1 DEF Query
    <3>2. After(z, p, k - 1, p[k].doc) = After(s, q, (k - 1) + 1, p[k].doc)
      BY <1>0, <2>1, <3>1
    <3> QED BY <2>1, <3>2
  <2> QED BY <2>1, <2>2 DEF Promised
<1> DEFINE A == OwedBy(m, r, s, q)
           B == OwedBy(m, t, z, p)
<1>3. /\ A \in Seq(Debt) /\ Len(A) = Len(r) + Len(q)
      /\ \A k \in 1 .. Len(r) : A[k] = Owes(m[r[k].tid], r[k].ver)
      /\ \A k \in 1 .. Len(q) : A[Len(r) + k] = Owes(m[q[k].tid], Promised(s, q, k))
  BY OwedItems
<1>4. /\ B \in Seq(Debt) /\ Len(B) = Len(t) + Len(p)
      /\ \A k \in 1 .. Len(t) : B[k] = Owes(m[t[k].tid], t[k].ver)
      /\ \A k \in 1 .. Len(p) : B[Len(t) + k] = Owes(m[p[k].tid], Promised(z, p, k))
  BY OwedItems
<1>5. ASSUME NEW k \in 1 .. Len(r) PROVE B[k] = A[k]
  <2>1. k \in 1 .. Len(t) /\ t[k] = r[k]
    OBVIOUS
  <2>2. A[k] = Owes(m[r[k].tid], r[k].ver)
    BY <1>3
  <2>3. B[k] = Owes(m[t[k].tid], t[k].ver)
    BY <1>4, <2>1
  <2> QED BY <2>1, <2>2, <2>3
<1>6. B[Len(t)] = A[Len(t)]
  <2>1. Len(t) \in 1 .. Len(t) /\ 1 \in 1 .. Len(q) /\ Len(t) = Len(r) + 1
    OBVIOUS
  <2>2. A[Len(r) + 1] = Owes(m[q[1].tid], Promised(s, q, 1))
    BY <1>3, <2>1
  <2>3. B[Len(t)] = Owes(m[t[Len(t)].tid], t[Len(t)].ver)
    BY <1>4, <2>1
  <2> HIDE DEF A, B
  <2> QED BY <1>1, <2>1, <2>2, <2>3
<1>7. \A k \in 1 .. Len(p) : B[Len(t) + k] = A[Len(t) + k]
  <2> SUFFICES ASSUME NEW k \in 1 .. Len(p) PROVE B[Len(t) + k] = A[Len(t) + k]
    OBVIOUS
  <2>1. k + 1 \in 1 .. Len(q) /\ Len(r) + (k + 1) = Len(t) + k /\ p[k] = q[k + 1]
    OBVIOUS
  <2>2. A[Len(r) + (k + 1)] = Owes(m[q[k + 1].tid], Promised(s, q, k + 1))
    BY <1>3, <2>1
  <2> HIDE DEF A, B
  <2> QED BY <1>2, <1>4, <2>1, <2>2
<1> HIDE DEF A, B
<1>8. \A k \in 1 .. Len(A) : B[k] = A[k]
  <2> SUFFICES ASSUME NEW k \in 1 .. Len(A) PROVE B[k] = A[k]
    OBVIOUS
  <2>1. CASE k \in 1 .. Len(r)
    BY <1>5, <2>1
  <2>2. CASE k = Len(t)
    BY <1>6, <2>2
  <2>3. CASE ~(k \in 1 .. Len(r)) /\ k # Len(t)
    <3>1. k - Len(t) \in 1 .. Len(p) /\ Len(t) + (k - Len(t)) = k
      BY <1>3, <2>3
    <3> QED BY <1>7, <3>1
  <2> QED BY <2>1, <2>2, <2>3
<1>9. Len(B) = Len(A)
  BY <1>3, <1>4
<1> QED BY <1>3, <1>4, <1>8, <1>9, SameByItems DEF A, B

(* Nor does it change the documents after the whole line.                  *)
LEMMA SeenExecuted ==
  ASSUME NEW m, NEW r, NEW t, NEW s, NEW z, NEW q, NEW p,
         PathTypes(m, r, s, q), PathTypes(m, t, z, p), Performed(r, t, s, z, q, p),
         NEW d \in Docs
  PROVE  After(z, p, Len(p), d) = After(s, q, Len(q), d)
<1>1. Len(p) \in 0 .. Len(p) /\ Len(p) + 1 = Len(q)
  BY DEF PathTypes, Shrunk, Performed
<1>2. After(z, p, Len(p), d) = After(s, q, Len(p) + 1, d)
  BY <1>1, AfterPerformed
<1> QED BY <1>1, <1>2

LEMMA OwedIs ==
  /\ Owed = OwedBy(DBTManager, responseQ, stored, Pending)
  /\ Owed' = OwedBy(DBTManager', responseQ', stored', Pending')
BY DEF Owed, OwedBy, Owes

(* A coroutine that calls the database makes its call when it calls.       *)
LEMMA CallMade ==
  ASSUME Ample, TypeOK, TypeOK', FiledAsWaiting, Fresh, Awaiting,
         NEW c \in Cos, NEW op \in Ops, NEW d \in Docs,
         NEW filed \in [Tids -> Cos \cup {NoCo}], Calls(c, op, d, filed),
         UNCHANGED <<running, stored>>,
         \A k \in DOMAIN requestQ : DBTManager[requestQ[k].tid] # c,
         \A k \in DOMAIN responseQ' : responseQ'[k].tid \in Tids /\ responseQ'[k].tid <= lastTid
  PROVE  Eager!Makes(c, OwedBy(filed, responseQ', stored, Pending))
<1> DEFINE new == [tid |-> lastTid + 1, op |-> op, doc |-> d, ver |-> mem[d]]
           Q == OwedBy(filed, responseQ', stored, Pending)
           now == After(stored, Pending, Len(Pending), d)
<1>1. /\ new \in Query /\ new.tid = lastTid + 1 /\ new.op = op /\ new.doc = d /\ new.ver = mem[d]
      /\ lastTid + 1 \in Tids /\ lastTid \in Nat /\ mem[d] \in Ver
      /\ requestQ \in Seq(Query) /\ requestQ' = Pushed(requestQ, new)
      /\ stored \in [Docs -> Ver] /\ responseQ' \in Seq(Result)
      /\ DBTManager' \in [Tids -> Cos \cup {NoCo}]
      /\ \A t \in Tids : DBTManager'[t] = IF t = lastTid + 1 THEN c ELSE filed[t]
  BY CallsTypes, BoundsAssumption DEF TypeOK, Calls, Query, Ops
<1> HIDE DEF new
<1>2. requestQ' = Append(requestQ, new)
  BY <1>1, CallRoom DEF Pushed
<1>3. Pending' = Append(Pending, new) /\ Pending \in Seq(Query)
  BY <1>1, <1>2, PendingAppended, PendingItems
<1>4. /\ Pending' \in Seq(Query) /\ Len(Pending') = Len(Pending) + 1
      /\ \A k \in 1 .. Len(Pending) : Pending'[k] = Pending[k]
      /\ Pending'[Len(Pending')] = new
  BY <1>1, <1>3
<1>5. \A k \in 1 .. Len(Pending) : DBTManager'[Pending[k].tid] = filed[Pending[k].tid]
  <2>1. \A k \in 1 .. Len(Pending) : Pending[k].tid \in Tids /\ Pending[k].tid <= lastTid
    BY <1>3, MappingShown, PendingGiven DEF Shown
  <2> QED BY <1>1, <2>1 DEF Tids
<1>6. \A k \in 1 .. Len(responseQ') : DBTManager'[responseQ'[k].tid] = filed[responseQ'[k].tid]
  BY <1>1 DEF Tids
<1>7. Owed' = Append(Q, Owes(c, IF op = "find" THEN now ELSE 0))
  <2> DEFINE l == DBTManager'
             r == responseQ'
             p == Pending'
  <2>1. /\ l \in [Tids -> Cos \cup {NoCo}] /\ stored \in [Docs -> Ver]
        /\ r \in Seq(Result) /\ Pending \in Seq(Query) /\ p \in Seq(Query)
    BY <1>1, <1>3, <1>4
  <2>2. Grown(p, Pending) /\ Alike(l, filed, r) /\ Alike(l, filed, Pending)
    BY <1>4, <1>5, <1>6 DEF Grown, Alike
  <2>3. p[Len(p)].op = op /\ p[Len(p)].doc = d /\ l[p[Len(p)].tid] = c
    BY <1>1, <1>4
  <2>4. Owed' = OwedBy(l, r, stored, p)
    BY OwedIs
  <2> HIDE DEF l, r, p
  <2>5. /\ OwedBy(l, r, stored, p)
             = Append(OwedBy(filed, r, stored, Pending),
                      Owes(l[p[Len(p)].tid], Promised(stored, p, Len(p))))
        /\ Promised(stored, p, Len(p))
             = IF p[Len(p)].op = "find" THEN After(stored, Pending, Len(Pending), p[Len(p)].doc) ELSE 0
    BY <2>1, <2>2, OwedAppended
  <2>6. Owed' = Append(OwedBy(filed, r, stored, Pending),
                       Owes(c, IF op = "find" THEN now ELSE 0))
    BY <2>3, <2>4, <2>5
  <2> QED BY <2>6 DEF r
<1>8. ASSUME NEW e \in Docs
      PROVE  After(stored, Pending', Len(Pending'), e)
               = IF op = "update" /\ e = d THEN mem[d] ELSE After(stored, Pending, Len(Pending), e)
  <2>1. After(stored, Pending', Len(Pending'), e)
          = IF Writes(Pending', Len(Pending'), e)
              THEN Pending'[Len(Pending')].ver ELSE After(stored, Pending, Len(Pending), e)
    BY <1>1, <1>3, <1>4, AfterAppended DEF Grown
  <2>2. Writes(Pending', Len(Pending'), e) <=> op = "update" /\ e = d
    BY <1>1, <1>4 DEF Writes
  <2> QED BY <1>1, <1>4, <2>1, <2>2
<1>9. Seen' = [e \in Docs |-> After(stored, Pending', Len(Pending'), e)]
  BY DEF Seen
<1>10. Seen \in [Docs -> Ver] /\ Seen[d] = now
  <2>1. \A e \in Docs : After(stored, Pending, Len(Pending), e) \in Ver
    <3>1. Len(Pending) \in 0 .. Len(Pending)
      BY <1>3
    <3> QED BY <1>1, <1>3, <3>1, AfterVer
  <2> QED BY <2>1 DEF Seen
<1> HIDE DEF Q, now
<1>11. CASE op = "find"
  <2>1. Seen' = Seen
    BY <1>8, <1>9, <1>11 DEF Seen
  <2>2. Owed' = Append(Q, Eager!Owing(c, Seen[d]))
    BY <1>7, <1>10, <1>11 DEF Owes, Eager!Owing
  <2> QED BY <2>1, <2>2 DEF Eager!Makes, Q
<1>12. CASE op = "update"
  <2>1. Seen' = [Seen EXCEPT ![d] = mem[d]]
    <3>1. \A e \in Docs : Seen'[e] = IF e = d THEN mem[d] ELSE Seen[e]
      BY <1>8, <1>9, <1>12 DEF Seen
    <3>2. Seen' = [e \in Docs |-> Seen'[e]]
      BY <1>9
    <3> QED BY <1>10, <3>1, <3>2
  <2>2. Owed' = Append(Q, Eager!Owing(c, 0))
    BY <1>7, <1>12 DEF Owes, Eager!Owing
  <2> QED BY <1>1, <2>1, <2>2 DEF Eager!Makes, Q
<1> QED BY <1>11, <1>12 DEF Ops

LEMMA StartMakes ==
  ASSUME Ample, TypeOK, TypeOK', Filing, Awaiting,
         NEW c \in Cos, NEW op \in Ops, NEW d \in Docs, Calls(c, op, d, DBTManager),
         waits[c] = 0, UNCHANGED <<running, responseQ, stored>>
  PROVE  Eager!Start(c)
<1>1. /\ FiledAsWaiting /\ Fresh /\ Shown /\ DBTManager \in [Tids -> Cos \cup {NoCo}]
      /\ stored \in [Docs -> Ver] /\ responseQ \in Seq(Result) /\ Pending \in Seq(Query)
  BY MappingShown, PendingItems DEF Filing, TypeOK
<1>2. \A t \in Tids : DBTManager[t] # c
  BY <1>1 DEF FiledAsWaiting, Tids
<1>3. Eager!Makes(c, Owed)
  <2>1. \A k \in DOMAIN requestQ : DBTManager[requestQ[k].tid] # c
    BY <1>1, <1>2, TidsGiven
  <2>2. \A k \in DOMAIN responseQ' : responseQ'[k].tid \in Tids /\ responseQ'[k].tid <= lastTid
    BY <1>1, TidsGiven
  <2>3. Eager!Makes(c, OwedBy(DBTManager, responseQ', stored, Pending))
    BY <1>1, <2>1, <2>2, CallMade
  <2> QED BY <2>3, OwedIs
<1>4. ASSUME NEW k \in DOMAIN Owed PROVE Owed[k].by # c
  <2>1. /\ Owed \in Seq(Debt) /\ Len(Owed) = Len(responseQ) + Len(Pending)
        /\ \A i \in 1 .. Len(responseQ) :
             Owed[i] = Owes(DBTManager[responseQ[i].tid], responseQ[i].ver)
        /\ \A i \in 1 .. Len(Pending) :
             Owed[Len(responseQ) + i]
               = Owes(DBTManager[Pending[i].tid], Promised(stored, Pending, i))
    BY <1>1, OwedItems, OwedIs
  <2>2. CASE k \in 1 .. Len(responseQ)
    <3>1. Owed[k].by = DBTManager[responseQ[k].tid]
      <4>1. Owed[k] = Owes(DBTManager[responseQ[k].tid], responseQ[k].ver)
        BY <2>1, <2>2
      <4> QED BY <4>1 DEF Owes
    <3>2. responseQ[k].tid \in Tids
      BY <1>1, <2>2 DEF Shown
    <3> QED BY <1>2, <3>1, <3>2
  <2>3. CASE ~(k \in 1 .. Len(responseQ))
    <3>1. PICK i \in 1 .. Len(Pending) : k = Len(responseQ) + i
      <4>1. k - Len(responseQ) \in 1 .. Len(Pending) /\ k = Len(responseQ) + (k - Len(responseQ))
        BY <1>1, <2>1, <2>3
      <4> QED BY <4>1
    <3>2. Owed[k].by = DBTManager[Pending[i].tid]
      <4>1. Owed[k] = Owes(DBTManager[Pending[i].tid], Promised(stored, Pending, i))
        BY <2>1, <3>1
      <4> QED BY <4>1 DEF Owes
    <3>3. Pending[i].tid \in Tids
      <4>1. i \in DOMAIN Pending
        BY <1>1
      <4> QED BY <1>1, <4>1 DEF Shown
    <3> QED BY <1>2, <3>2, <3>3
  <2> QED BY <2>2, <2>3
<1> QED BY <1>3, <1>4 DEF Eager!Start

(* dbDispatch pays what is owed longest.                                   *)
LEMMA DispatchPays ==
  ASSUME TypeOK, Filing, Awaiting, responseQ # <<>>,
         NEW filed \in [Tids -> Cos \cup {NoCo}],
         \A u \in Tids : u # Head(responseQ).tid => filed[u] = DBTManager[u]
  PROVE  /\ OwedBy(filed, Tail(responseQ), stored, Pending) = Tail(Owed)
         /\ Eager!Due(DBTManager[Head(responseQ).tid])
<1>1. /\ Shown /\ DBTManager \in [Tids -> Cos \cup {NoCo}]
      /\ stored \in [Docs -> Ver] /\ responseQ \in Seq(Result) /\ Pending \in Seq(Query)
      /\ Tail(responseQ) \in Seq(Result) /\ Head(responseQ) = responseQ[1]
      /\ Len(responseQ) = Len(Tail(responseQ)) + 1
      /\ \A k \in 1 .. Len(Tail(responseQ)) : Tail(responseQ)[k] = responseQ[k + 1]
  BY MappingShown, PendingItems, ResponsePopped DEF Filing, TypeOK
<1>2. ASSUME NEW k \in 1 .. Len(Tail(responseQ))
      PROVE  filed[Tail(responseQ)[k].tid] = DBTManager[Tail(responseQ)[k].tid]
  <2>1. Tail(responseQ)[k] \in Result
    BY <1>1
  <2>2. Tail(responseQ)[k].tid \in Tids /\ Tail(responseQ)[k].tid # Head(responseQ).tid
    BY <1>1, <2>1, OldestAlone DEF Result
  <2> QED BY <2>2
<1>3. ASSUME NEW k \in 1 .. Len(Pending)
      PROVE  filed[Pending[k].tid] = DBTManager[Pending[k].tid]
  <2>1. k \in DOMAIN Pending
    BY <1>1
  <2>2. Pending[k].tid \in Tids /\ Pending[k].tid # Head(responseQ).tid
    BY <1>1, <2>1, OldestAlone DEF Shown
  <2> QED BY <2>2
<1>4. Owed # <<>> /\ OwedBy(filed, Tail(responseQ), stored, Pending) = Tail(Owed)
  <2>1. /\ PathTypes(DBTManager, responseQ, stored, Pending)
        /\ PathTypes(filed, Tail(responseQ), stored, Pending)
    BY <1>1 DEF PathTypes
  <2>2. /\ Shrunk(Tail(responseQ), responseQ)
        /\ Alike(filed, DBTManager, Tail(responseQ)) /\ Alike(filed, DBTManager, Pending)
    BY <1>1, <1>2, <1>3 DEF Shrunk, Alike
  <2>3. Paid(OwedBy(DBTManager, responseQ, stored, Pending),
             OwedBy(filed, Tail(responseQ), stored, Pending))
    BY <2>1, <2>2, OwedPaid
  <2>4. Paid(Owed, OwedBy(filed, Tail(responseQ), stored, Pending))
    BY <2>3, OwedIs
  <2> QED BY <2>4 DEF Paid
<1>5. Head(Owed).by = DBTManager[Head(responseQ).tid]
  <2>1. /\ Owed \in Seq(Debt) /\ 1 \in 1 .. Len(responseQ)
        /\ Owed[1] = Owes(DBTManager[responseQ[1].tid], responseQ[1].ver)
    BY <1>1, OwedItems, OwedIs
  <2>2. Head(Owed) = Owed[1]
    BY <1>4, <2>1
  <2> QED BY <1>1, <2>1, <2>2 DEF Owes
<1> QED BY <1>4, <1>5 DEF Eager!Due

LEMMA EndPays ==
  ASSUME TypeOK, TypeOK', Filing, Awaiting, DispatchEnd
  PROVE  \E c \in Cos : Eager!Finish(c)
<1> DEFINE t == Head(responseQ).tid
           c == DBTManager[t]
<1>1. /\ responseQ # <<>> /\ responseQ' = Tail(responseQ)
      /\ DBTManager' = [DBTManager EXCEPT ![t] = NoCo] /\ UNCHANGED <<requestQ, running, stored>>
  BY DEF DispatchEnd
<1>2. t \in Tids /\ c \in Cos
  BY <1>1, OldestAlone
<1>3. /\ DBTManager' \in [Tids -> Cos \cup {NoCo}]
      /\ \A u \in Tids : u # t => DBTManager'[u] = DBTManager[u]
  BY <1>1 DEF TypeOK
<1>4. OwedBy(DBTManager', Tail(responseQ), stored, Pending) = Tail(Owed) /\ Eager!Due(c)
  BY <1>1, <1>3, DispatchPays
<1>5. Pending' = Pending
  BY <1>1 DEF Pending
<1>6. Owed' = Tail(Owed) /\ Seen' = Seen
  <2>1. Owed' = OwedBy(DBTManager', responseQ', stored', Pending')
    BY OwedIs
  <2> QED BY <1>1, <1>4, <1>5, <2>1 DEF Seen
<1> QED BY <1>2, <1>4, <1>6 DEF Eager!Finish

LEMMA CallPays ==
  ASSUME Ample, TypeOK, TypeOK', Filing, Awaiting, NEW op \in Ops, NEW d \in Docs,
         DispatchCall(op, d)
  PROVE  \E c \in Cos : Eager!GoOn(c)
<1> DEFINE t == Head(responseQ).tid
           c == DBTManager[t]
           filed == [DBTManager EXCEPT ![t] = NoCo]
<1>1. /\ responseQ # <<>> /\ responseQ' = Tail(responseQ)
      /\ Calls(c, op, d, filed) /\ UNCHANGED <<running, stored>>
  BY DEF DispatchCall
<1>2. t \in Tids /\ c \in Cos /\ FiledAsWaiting /\ Fresh
  BY <1>1, OldestAlone DEF Filing
<1>3. filed \in [Tids -> Cos \cup {NoCo}] /\ \A u \in Tids : u # t => filed[u] = DBTManager[u]
  BY DEF TypeOK
<1> HIDE DEF filed
<1>4. OwedBy(filed, responseQ', stored, Pending) = Tail(Owed) /\ Eager!Due(c)
  BY <1>1, <1>3, DispatchPays
<1>5. \A k \in DOMAIN requestQ : DBTManager[requestQ[k].tid] # c
  BY <1>1, <1>2, OthersAsked
<1>6. ASSUME NEW k \in DOMAIN responseQ'
      PROVE  responseQ'[k].tid \in Tids /\ responseQ'[k].tid <= lastTid
  <2>1. k + 1 \in DOMAIN responseQ /\ responseQ'[k] = responseQ[k + 1]
    BY <1>1, ResponsePopped
  <2> QED BY <1>2, <2>1, TidsGiven
<1> HIDE DEF c
<1>7. Eager!Makes(c, OwedBy(filed, responseQ', stored, Pending))
  BY <1>1, <1>2, <1>3, <1>5, <1>6, CallMade
<1>8. Eager!Makes(c, Tail(Owed))
  BY <1>4, <1>7
<1> QED BY <1>2, <1>4, <1>8 DEF Eager!GoOn

(* A query that is executed without an error changes nothing that a caller *)
(* can tell.                                                               *)
LEMMA ExecUntold ==
  ASSUME Ample, TypeOK, TypeOK', Filing, Awaiting, DBExec(TRUE)
  PROVE  UNCHANGED Eager!eagerVars
<1> DEFINE new == [tid |-> running.tid, ok |-> TRUE, ver |-> Found(running, TRUE)]
<1>1. /\ running # Idle /\ running' = Idle /\ UNCHANGED <<DBTManager, requestQ>>
      /\ responseQ' = Pushed(responseQ, new)
      /\ stored' = IF running.op = "update"
                     THEN [stored EXCEPT ![running.doc] = running.ver] ELSE stored
  BY DEF DBExec, callVars
<1>2. /\ DBTManager \in [Tids -> Cos \cup {NoCo}] /\ stored \in [Docs -> Ver]
      /\ stored' \in [Docs -> Ver] /\ responseQ \in Seq(Result) /\ responseQ' \in Seq(Result)
      /\ requestQ \in Seq(Query) /\ Pending \in Seq(Query) /\ running \in Query
      /\ FiledAsWaiting /\ Fresh
  BY <1>1, PendingItems DEF TypeOK, Filing
<1>3. /\ Pending' = requestQ /\ Len(Pending) = Len(requestQ) + 1 /\ Pending[1] = running
      /\ \A k \in 1 .. Len(requestQ) : requestQ[k] = Pending[k + 1]
  BY <1>1, <1>2, PendingItems DEF Pending
<1>4. new \in Result /\ new.tid = running.tid
      /\ new.ver = IF running.op = "find" THEN stored[running.doc] ELSE 0
  <2>1. Found(running, TRUE) \in Ver /\ running.tid \in Tids
    BY <1>1, <1>2, FoundVersion DEF Query
  <2> QED BY <2>1 DEF Result, Found
<1> HIDE DEF new
<1>5. responseQ' = Append(responseQ, new)
  BY <1>1, <1>2, ExecRoom DEF Pushed
<1>6. /\ Len(responseQ') = Len(responseQ) + 1 /\ responseQ'[Len(responseQ')] = new
      /\ \A k \in 1 .. Len(responseQ) : responseQ'[k] = responseQ[k]
  BY <1>2, <1>4, <1>5
<1>7. Carried(stored', stored, Pending)
  BY <1>1, <1>2, <1>3 DEF Writes, Carried
<1>8. /\ PathTypes(DBTManager, responseQ, stored, Pending)
      /\ PathTypes(DBTManager, responseQ', stored', requestQ)
  BY <1>2 DEF PathTypes
<1>9. Performed(responseQ, responseQ', stored, stored', Pending, requestQ)
  BY <1>3, <1>4, <1>6, <1>7 DEF Performed, Shrunk, Grown
<1>10. OwedBy(DBTManager, responseQ', stored', requestQ) = OwedBy(DBTManager, responseQ, stored, Pending)
  BY <1>8, <1>9, OwedExecuted
<1>11. Owed' = Owed
  BY <1>1, <1>3, <1>10, OwedIs
<1>12. \A d \in Docs :
         After(stored', requestQ, Len(requestQ), d) = After(stored, Pending, Len(Pending), d)
  BY <1>8, <1>9, SeenExecuted
<1>13. Seen' = Seen
  BY <1>3, <1>12 DEF Seen
<1> QED BY <1>11, <1>13 DEF Eager!eagerVars

LEMMA NothingTold ==
  ASSUME Pending' = Pending, UNCHANGED <<DBTManager, responseQ, stored>>
  PROVE  UNCHANGED Eager!eagerVars
<1>1. Owed' = Owed
  BY OwedIs
<1>2. Seen' = Seen
  BY DEF Seen
<1> QED BY <1>1, <1>2 DEF Eager!eagerVars

LEMMA NothingOwedFirst == Init => Eager!EagerInit
<1> SUFFICES ASSUME Init PROVE Eager!EagerInit
  OBVIOUS
<1>1. TypeOK /\ Pending = <<>> /\ responseQ = <<>>
  BY TypesBegin DEF Init, Pending
<1>2. DBTManager \in [Tids -> Cos \cup {NoCo}] /\ stored \in [Docs -> Ver]
      /\ Pending \in Seq(Query) /\ responseQ \in Seq(Result)
  BY <1>1, PendingItems DEF TypeOK
<1>3. Owed = <<>>
  <2>1. Owed \in Seq(Debt) /\ Len(Owed) = Len(responseQ) + Len(Pending)
    BY <1>2, OwedItems, OwedIs
  <2> QED BY <1>1, <2>1
<1>4. Seen \in [Docs -> Ver]
  <2>1. \A d \in Docs : After(stored, Pending, Len(Pending), d) \in Ver
    <3>1. Len(Pending) \in 0 .. Len(Pending)
      BY <1>2
    <3> QED BY <1>2, <3>1, AfterVer
  <2> QED BY <2>1 DEF Seen
<1> QED BY <1>3, <1>4 DEF Eager!EagerInit

(* To its callers the path is a store in which a call takes effect when it *)
(* is made, if the queues hold one call of every coroutine (DB.lua,        *)
(* LuaMongoDB, DBThread::Run, dbDispatch); a query that fails and the      *)
(* synchronous saves of the exit are the only steps they can tell from it. *)
THEOREM CallsTakeEffectWhenMade == ASSUME Ample PROVE Spec => TakesEffectWhenCalled
<1> DEFINE Inv == TypeOK /\ Filing /\ Awaiting
<1>1. Init => Inv
  BY TypesBegin, FilingBegins DEF Init, Awaiting, Awaited, InOrder
<1>2. Inv /\ [Next]_vars => Inv'
  BY TypesKept, FilingKept, AwaitingKept
<1>3. Inv /\ Inv' /\ [Next]_vars
        => [~SignalExit /\ ~DBExec(FALSE) => [Eager!EagerNext]_(Eager!eagerVars)]_vars
  <2> SUFFICES ASSUME Inv, Inv', [Next]_vars, ~SignalExit, ~DBExec(FALSE)
               PROVE  Eager!EagerNext \/ UNCHANGED Eager!eagerVars
    OBVIOUS
  <2>1. ASSUME NEW w \in Workers, NEW op \in Ops, NEW d \in Docs, StartWorker(w, op, d)
        PROVE  Eager!EagerNext
    <3>1. /\ w \in Cos /\ waits[w] = 0 /\ Calls(w, op, d, DBTManager)
          /\ UNCHANGED <<running, responseQ, stored>>
      BY <2>1 DEF StartWorker, Cos
    <3> QED BY <3>1, StartMakes DEF Eager!EagerNext
  <2>2. ASSUME NEW h \in Humans, ExitHuman(h) PROVE Eager!EagerNext
    <3>1. /\ h \in Cos /\ h \in Docs /\ "update" \in Ops /\ waits[h] = 0
          /\ Calls(h, "update", h, DBTManager) /\ UNCHANGED <<running, responseQ, stored>>
      BY <2>2 DEF ExitHuman, Cos, Docs, Ops, Filing, Unsaved
    <3> QED BY <3>1, StartMakes DEF Eager!EagerNext
  <2>3. CASE DispatchEnd
    BY <2>3, EndPays DEF Eager!EagerNext
  <2>4. ASSUME NEW op \in Ops, NEW d \in Docs, DispatchCall(op, d) PROVE Eager!EagerNext
    BY <2>4, CallPays DEF Eager!EagerNext
  <2>5. ASSUME NEW ok \in BOOLEAN, DBExec(ok) PROVE UNCHANGED Eager!eagerVars
    <3>1. ok = TRUE
      BY <2>5
    <3> QED BY <2>5, <3>1, ExecUntold
  <2>6. CASE DBTake
    <3>1. Pending' = Pending /\ UNCHANGED <<DBTManager, responseQ, stored>>
      BY <2>6, TakeKeepsLine DEF DBTake, callVars
    <3> QED BY <3>1, NothingTold
  <2>7. CASE UNCHANGED <<DBTManager, requestQ, running, responseQ, stored>>
    <3>1. Pending' = Pending
      BY <2>7 DEF Pending
    <3> QED BY <2>7, <3>1, NothingTold
  <2> HIDE DEF Inv
  <2> QED
    BY <2>1, <2>2, <2>3, <2>4, <2>5, <2>6, <2>7
    DEF Next, DBStep, Dispatch, ExitStep, Change, FinishExit, LoopTimeout, vars, callVars, dbVars
<1> HIDE DEF Inv
<1> QED BY <1>1, <1>2, <1>3, NothingOwedFirst, PTL DEF Spec, TakesEffectWhenCalled
=============================================================================
