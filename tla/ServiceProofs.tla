--------------------------- MODULE ServiceProofs ---------------------------
(***************************************************************************)
(* Proofs about AdminHttp, for every number of requests and of pieces, and *)
(* about Crontab, for every second, minute and day, every set of minutes   *)
(* with events and runs of every length.                                   *)
(***************************************************************************)
EXTENDS AdminHttp, Crontab, WellFoundedInduction, TLAPS

(* AdminHttp: the invariant.  Requests are served in their order; the      *)
(* request buffer belongs to the last that was submitted; what is under    *)
(* way is bounded by the pieces that were submitted and those that were    *)
(* handled.                                                                *)
Submitted(r) == client[r] \in {"waits", "replied", "expired"}

InTurn == \A q, r \in Requests : q < r /\ client[r] # "new" => client[q] \notin {"new", "waits"}

LastSubmitted ==
  \A r \in Requests :
    /\ Submitted(r) => r <= query
    /\ query = r => Submitted(r)

CountedFor(r) ==
  /\ size[r] \in 0 .. MaxPieces /\ handled[r] \in 0 .. MaxPieces /\ waiting[r] \in 0 .. MaxPieces
  /\ handled[r] <= size[r] /\ waiting[r] <= handled[r]
  /\ query = r => left + handled[r] <= size[r]
  /\ taken = r => waiting[r] + 1 <= handled[r]
  /\ r \in answers => handled[r] > 0
  /\ \A s \in Requests : r \in got[s] => handled[r] > 0
  /\ ~Submitted(r) => size[r] = 0

Counted ==
  /\ query = NoRequest => left = 0
  /\ \A r \in Requests : CountedFor(r)

(* The one piece of a query is in one place.                               *)
OneToken ==
  \A q \in Requests : size[q] <= 1 =>
    /\ q \in answers => taken # q /\ waiting[q] = 0
    /\ \A r \in Requests : q \in got[r] => taken # q /\ waiting[q] = 0 /\ q \notin answers
    /\ \A r, s \in Requests : q \in got[r] /\ q \in got[s] => r = s

(* A query whose request is over, but which is still under way, is late,   *)
(* or its request was sent the answer of one that was.                     *)
Pending(q) == (query = q /\ left > 0) \/ taken = q \/ waiting[q] > 0 \/ q \in answers
LateExplained ==
  \A q \in Requests : Pending(q) /\ client[q] # "waits" => Outlived(q) \/ Disturbed(q)

Shape ==
  /\ AdminTypeOK /\ InTurn /\ LastSubmitted /\ Counted
  /\ step = "idle" <=> taken = NoRequest

AdminInv == Shape /\ OneToken /\ LateExplained /\ StrayExplained /\ QueryKept
-----------------------------------------------------------------------------
LEMMA ShapeBegins == AdminInit => Shape
  BY AdminAssumption DEF AdminInit, Shape, AdminTypeOK, InTurn, LastSubmitted, Counted, CountedFor,
     Submitted, Requests, NoRequest

LEMMA ShapeKept == ASSUME Shape, [AdminNext]_adminVars PROVE Shape'
<1>0. /\ AdminTypeOK /\ InTurn /\ LastSubmitted
      /\ \A q \in Requests : CountedFor(q)
      /\ query = NoRequest => left = 0
      /\ step = "idle" <=> taken = NoRequest
      /\ MaxPieces \in Nat /\ MaxRequest \in Nat
  BY AdminAssumption DEF Shape, Counted
<1>t. AdminTypeOK /\ MaxPieces \in Nat /\ (step = "idle" <=> taken = NoRequest)
  BY <1>0
<1>u. AdminTypeOK /\ InTurn /\ LastSubmitted /\ MaxRequest \in Nat
  BY <1>0
<1>1. ASSUME NEW r \in Requests, Refuse(r) PROVE Shape'
  <2>1. AdminTypeOK'
    BY <1>t, <1>1 DEF Refuse, Served, buffers, AdminTypeOK, Requests, NoRequest
  <2>2. InTurn' /\ LastSubmitted'
    BY <1>u, <1>1 DEF Refuse, Served, buffers, AdminTypeOK, InTurn, LastSubmitted, Submitted,
       Requests, NoRequest
  <2>3. ASSUME NEW q \in Requests PROVE CountedFor(q)'
    <3>1. CountedFor(q)
      BY <1>0
    <3> QED
      BY <1>t, <1>1, <3>1 DEF Refuse, Served, buffers, AdminTypeOK, CountedFor, Submitted,
         Requests, NoRequest
  <2>4. (query = NoRequest => left = 0)' /\ (step = "idle" <=> taken = NoRequest)'
    BY <1>0, <1>1 DEF Refuse, Served, buffers, AdminTypeOK, Requests, NoRequest
  <2> QED
    BY <2>1, <2>2, <2>3, <2>4 DEF Shape, Counted
<1>2. ASSUME NEW r \in Requests, NEW n \in 0 .. MaxPieces, Submit(r, n) PROVE Shape'
  <2>0. /\ ~Submitted(r) /\ handled[r] = 0 /\ waiting[r] = 0 /\ taken # r
        /\ r \notin answers /\ \A s \in Requests : r \notin got[s]
    BY <1>0, <1>2 DEF Submit, Served, Submitted, CountedFor
  <2>1. AdminTypeOK'
    BY <1>t, <1>2, <2>0 DEF Submit, Served, AdminTypeOK, Requests, NoRequest
  <2>2. InTurn' /\ LastSubmitted'
    <3>1. InTurn'
      <4> SUFFICES ASSUME NEW p \in Requests, NEW q \in Requests, p < q, client'[q] # "new"
                   PROVE  client'[p] \notin {"new", "waits"}
        BY DEF InTurn
      <4>1. client' = [client EXCEPT ![r] = "waits"] /\ client[r] = "new" /\ p \in Nat /\ q \in Nat
        BY <1>2 DEF Submit, Served, Requests
      <4>2. CASE q = r
        BY <1>u, <1>2, <4>1, <4>2 DEF Submit, Served, AdminTypeOK
      <4>3. CASE q # r
        BY <1>u, <4>1, <4>3 DEF AdminTypeOK, InTurn
      <4> QED
        BY <4>2, <4>3
    <3>2. LastSubmitted'
      <4>1. client' = [client EXCEPT ![r] = "waits"] /\ query' = r /\ client[r] = "new"
            /\ \A q \in Requests : q < r => client[q] \notin {"new", "waits"}
        BY <1>2 DEF Submit, Served
      <4>2. ASSUME NEW q \in Requests, Submitted(q)' PROVE q <= r
        <5>1. CASE q # r /\ q > r
          BY <1>u, <4>1, <4>2, <5>1 DEF AdminTypeOK, InTurn, Submitted
        <5> QED
          BY <5>1 DEF Requests
      <4>3. ASSUME NEW q \in Requests, query' = q PROVE Submitted(q)'
        BY <1>u, <4>1, <4>3 DEF AdminTypeOK, Submitted
      <4> QED
        BY <4>1, <4>2, <4>3 DEF LastSubmitted
    <3> QED
      BY <3>1, <3>2
  <2>3. ASSUME NEW q \in Requests PROVE CountedFor(q)'
    <3>1. CountedFor(q)
      BY <1>0
    <3> QED
      BY <1>t, <1>2, <2>0, <3>1 DEF Submit, Served, AdminTypeOK, CountedFor, Submitted,
         Requests, NoRequest
  <2>4. (query = NoRequest => left = 0)' /\ (step = "idle" <=> taken = NoRequest)'
    BY <1>0, <1>2 DEF Submit, Served, AdminTypeOK, Requests, NoRequest
  <2> QED
    BY <2>1, <2>2, <2>3, <2>4 DEF Shape, Counted
<1>3. ASSUME NEW r \in Requests, Reply(r) PROVE Shape'
  <2>1. AdminTypeOK'
    BY <1>t, <1>3 DEF Reply, AdminTypeOK, Requests, NoRequest
  <2>2. InTurn' /\ LastSubmitted'
    BY <1>u, <1>3 DEF Reply, AdminTypeOK, InTurn, LastSubmitted, Submitted, Requests, NoRequest
  <2>3. ASSUME NEW q \in Requests PROVE CountedFor(q)'
    <3>1. CountedFor(q)
      BY <1>0
    <3> QED
      BY <1>t, <1>3, <3>1 DEF Reply, AdminTypeOK, CountedFor, Submitted, Requests, NoRequest
  <2>4. (query = NoRequest => left = 0)' /\ (step = "idle" <=> taken = NoRequest)'
    BY <1>0, <1>3 DEF Reply, AdminTypeOK, Requests, NoRequest
  <2> QED
    BY <2>1, <2>2, <2>3, <2>4 DEF Shape, Counted
<1>4. ASSUME NEW r \in Requests, Expire(r) PROVE Shape'
  <2>1. AdminTypeOK'
    BY <1>t, <1>4 DEF Expire, buffers, AdminTypeOK, Requests, NoRequest
  <2>2. InTurn' /\ LastSubmitted'
    BY <1>u, <1>4 DEF Expire, buffers, AdminTypeOK, InTurn, LastSubmitted, Submitted, Requests,
       NoRequest
  <2>3. ASSUME NEW q \in Requests PROVE CountedFor(q)'
    <3>1. CountedFor(q)
      BY <1>0
    <3> QED
      BY <1>t, <1>4, <3>1 DEF Expire, buffers, AdminTypeOK, CountedFor, Submitted,
         Requests, NoRequest
  <2>4. (query = NoRequest => left = 0)' /\ (step = "idle" <=> taken = NoRequest)'
    BY <1>0, <1>4 DEF Expire, buffers, AdminTypeOK, Requests, NoRequest
  <2> QED
    BY <2>1, <2>2, <2>3, <2>4 DEF Shape, Counted
<1>5. ASSUME TakeQuery PROVE Shape'
  <2>0. /\ query \in Requests /\ query # NoRequest
        /\ handled[query] + 1 \in 0 .. MaxPieces /\ left + handled[query] <= size[query]
        /\ waiting[query] <= handled[query] /\ taken = NoRequest
    <3>1. step = "idle" /\ left > 0 /\ left \in 0 .. MaxPieces /\ query \in Requests \cup {NoRequest}
      BY <1>t, <1>5 DEF TakeQuery, AdminTypeOK
    <3>2. query \in Requests /\ query # NoRequest /\ taken = NoRequest
      BY <1>0, <3>1 DEF Requests, NoRequest
    <3>3. CountedFor(query)
      BY <1>0, <3>2
    <3>4. /\ size[query] \in 0 .. MaxPieces /\ handled[query] \in 0 .. MaxPieces
          /\ left + handled[query] <= size[query] /\ waiting[query] <= handled[query]
      BY <3>2, <3>3 DEF CountedFor
    <3>5. handled[query] + 1 \in 0 .. MaxPieces
      BY <1>t, <3>1, <3>4
    <3> QED
      BY <3>2, <3>4, <3>5
  <2>1. AdminTypeOK'
    BY <1>t, <1>5, <2>0 DEF TakeQuery, AdminTypeOK, Requests, NoRequest
  <2>2. InTurn' /\ LastSubmitted'
    BY <1>u, <1>5 DEF TakeQuery, AdminTypeOK, InTurn, LastSubmitted, Submitted, Requests, NoRequest
  <2>3. ASSUME NEW q \in Requests PROVE CountedFor(q)'
    <3>1. CountedFor(q) /\ (q = query \/ handled'[q] = handled[q])
      BY <1>0, <1>5, <2>0 DEF TakeQuery, AdminTypeOK
    <3>2. handled'[query] = handled[query] + 1 /\ left' = left - 1 /\ taken' = query
      BY <1>t, <1>5, <2>0 DEF TakeQuery, AdminTypeOK
    <3> QED
      BY <1>t, <1>5, <2>0, <3>1, <3>2 DEF TakeQuery, AdminTypeOK, CountedFor, Submitted
  <2>4. (query = NoRequest => left = 0)' /\ (step = "idle" <=> taken = NoRequest)'
    BY <1>0, <1>5 DEF TakeQuery, AdminTypeOK, Requests, NoRequest
  <2> QED
    BY <2>1, <2>2, <2>3, <2>4 DEF Shape, Counted
<1>6. ASSUME DrainAnswers PROVE Shape'
  <2>1. AdminTypeOK'
    BY <1>t, <1>6 DEF DrainAnswers, AdminTypeOK, Requests, NoRequest
  <2>2. InTurn' /\ LastSubmitted'
    BY <1>u, <1>6 DEF DrainAnswers, AdminTypeOK, InTurn, LastSubmitted, Submitted, Requests,
       NoRequest
  <2>3. ASSUME NEW q \in Requests PROVE CountedFor(q)'
    <3>1. CountedFor(q)
      BY <1>0
    <3> QED
      BY <1>t, <1>6, <3>1 DEF DrainAnswers, AdminTypeOK, CountedFor, Submitted, Requests,
         NoRequest
  <2>4. (query = NoRequest => left = 0)' /\ (step = "idle" <=> taken = NoRequest)'
    BY <1>0, <1>6 DEF DrainAnswers, AdminTypeOK, Requests, NoRequest
  <2> QED
    BY <2>1, <2>2, <2>3, <2>4 DEF Shape, Counted
<1>7. ASSUME HandlerAnswers PROVE Shape'
  <2>0. /\ taken \in Requests /\ taken # NoRequest /\ waiting[taken] + 1 <= handled[taken]
        /\ waiting[taken] + 1 \in 0 .. MaxPieces
    BY <1>0, <1>7 DEF HandlerAnswers, Returns, AdminTypeOK, CountedFor, Requests, NoRequest
  <2>1. AdminTypeOK'
    BY <1>t, <1>7, <2>0 DEF HandlerAnswers, Returns, SendHttpResponse, AdminTypeOK, Requests,
       NoRequest
  <2>2. InTurn' /\ LastSubmitted'
    BY <1>u, <1>7 DEF HandlerAnswers, Returns, SendHttpResponse, AdminTypeOK, InTurn,
       LastSubmitted, Submitted, Requests, NoRequest
  <2>3. ASSUME NEW q \in Requests PROVE CountedFor(q)'
    <3>1. CountedFor(q)
      BY <1>0
    <3> QED
      BY <1>t, <1>7, <2>0, <3>1 DEF HandlerAnswers, Returns, SendHttpResponse, AdminTypeOK,
         CountedFor, Submitted, Requests, NoRequest
  <2>4. (query = NoRequest => left = 0)' /\ (step = "idle" <=> taken = NoRequest)'
    BY <1>0, <1>7 DEF HandlerAnswers, Returns, SendHttpResponse, AdminTypeOK, Requests, NoRequest
  <2> QED
    BY <2>1, <2>2, <2>3, <2>4 DEF Shape, Counted
<1>8. ASSUME HandlerFails PROVE Shape'
  <2>0. /\ taken \in Requests /\ taken # NoRequest /\ waiting[taken] + 1 <= handled[taken]
        /\ waiting[taken] + 1 \in 0 .. MaxPieces
    BY <1>0, <1>8 DEF HandlerFails, Returns, AdminTypeOK, CountedFor, Requests, NoRequest
  <2>1. AdminTypeOK'
    BY <1>t, <1>8, <2>0 DEF HandlerFails, Returns, AdminTypeOK, Requests, NoRequest
  <2>2. InTurn' /\ LastSubmitted'
    BY <1>u, <1>8 DEF HandlerFails, Returns, AdminTypeOK, InTurn, LastSubmitted, Submitted,
       Requests, NoRequest
  <2>3. ASSUME NEW q \in Requests PROVE CountedFor(q)'
    <3>1. CountedFor(q)
      BY <1>0
    <3> QED
      BY <1>t, <1>8, <2>0, <3>1 DEF HandlerFails, Returns, AdminTypeOK, CountedFor,
         Submitted, Requests, NoRequest
  <2>4. (query = NoRequest => left = 0)' /\ (step = "idle" <=> taken = NoRequest)'
    BY <1>0, <1>8 DEF HandlerFails, Returns, AdminTypeOK, Requests, NoRequest
  <2> QED
    BY <2>1, <2>2, <2>3, <2>4 DEF Shape, Counted
<1>9. ASSUME HandlerWaits PROVE Shape'
  <2>0. /\ taken \in Requests /\ taken # NoRequest /\ waiting[taken] + 1 <= handled[taken]
        /\ waiting[taken] + 1 \in 0 .. MaxPieces
    BY <1>0, <1>9 DEF HandlerWaits, Returns, AdminTypeOK, CountedFor, Requests, NoRequest
  <2>1. AdminTypeOK'
    BY <1>t, <1>9, <2>0 DEF HandlerWaits, Returns, buffers, AdminTypeOK, Requests, NoRequest
  <2>2. InTurn' /\ LastSubmitted'
    BY <1>u, <1>9 DEF HandlerWaits, Returns, buffers, AdminTypeOK, InTurn, LastSubmitted,
       Submitted, Requests, NoRequest
  <2>3. ASSUME NEW q \in Requests PROVE CountedFor(q)'
    <3>1. CountedFor(q)
      BY <1>0
    <3> QED
      BY <1>t, <1>9, <2>0, <3>1 DEF HandlerWaits, Returns, buffers, AdminTypeOK,
         CountedFor, Submitted, Requests, NoRequest
  <2>4. (query = NoRequest => left = 0)' /\ (step = "idle" <=> taken = NoRequest)'
    BY <1>0, <1>9 DEF HandlerWaits, Returns, buffers, AdminTypeOK, Requests, NoRequest
  <2> QED
    BY <2>1, <2>2, <2>3, <2>4 DEF Shape, Counted
<1>10. ASSUME NEW r \in Requests, ResumedAnswers(r) PROVE Shape'
  <2>0. waiting[r] - 1 \in 0 .. MaxPieces /\ handled[r] > 0 /\ taken = NoRequest
    <3>1. CountedFor(r) /\ waiting[r] > 0
      BY <1>0, <1>10 DEF ResumedAnswers, Resumes
    <3>2. taken = NoRequest
      BY <1>0, <1>10 DEF ResumedAnswers, Resumes
    <3> QED
      BY <1>t, <3>1, <3>2 DEF CountedFor
  <2>1. AdminTypeOK'
    BY <1>t, <1>10, <2>0 DEF ResumedAnswers, Resumes, SendHttpResponse, AdminTypeOK, Requests,
       NoRequest
  <2>2. InTurn' /\ LastSubmitted'
    BY <1>u, <1>10 DEF ResumedAnswers, Resumes, SendHttpResponse, AdminTypeOK, InTurn,
       LastSubmitted, Submitted, Requests, NoRequest
  <2>3. ASSUME NEW q \in Requests PROVE CountedFor(q)'
    <3>1. CountedFor(q)
      BY <1>0
    <3> QED
      BY <1>t, <1>10, <2>0, <3>1 DEF ResumedAnswers, Resumes, SendHttpResponse,
         AdminTypeOK, CountedFor, Submitted, Requests, NoRequest
  <2>4. (query = NoRequest => left = 0)' /\ (step = "idle" <=> taken = NoRequest)'
    BY <1>0, <1>10 DEF ResumedAnswers, Resumes, SendHttpResponse, AdminTypeOK, Requests, NoRequest
  <2> QED
    BY <2>1, <2>2, <2>3, <2>4 DEF Shape, Counted
<1>11. ASSUME NEW r \in Requests, ResumedFails(r) PROVE Shape'
  <2>0. waiting[r] - 1 \in 0 .. MaxPieces /\ handled[r] > 0 /\ taken = NoRequest
    <3>1. CountedFor(r) /\ waiting[r] > 0
      BY <1>0, <1>11 DEF ResumedFails, Resumes
    <3>2. taken = NoRequest
      BY <1>0, <1>11 DEF ResumedFails, Resumes
    <3> QED
      BY <1>t, <3>1, <3>2 DEF CountedFor
  <2>1. AdminTypeOK'
    BY <1>t, <1>11, <2>0 DEF ResumedFails, Resumes, buffers, AdminTypeOK, Requests, NoRequest
  <2>2. InTurn' /\ LastSubmitted'
    BY <1>u, <1>11 DEF ResumedFails, Resumes, buffers, AdminTypeOK, InTurn, LastSubmitted,
       Submitted, Requests, NoRequest
  <2>3. ASSUME NEW q \in Requests PROVE CountedFor(q)'
    <3>1. CountedFor(q)
      BY <1>0
    <3> QED
      BY <1>t, <1>11, <2>0, <3>1 DEF ResumedFails, Resumes, buffers, AdminTypeOK,
         CountedFor, Submitted, Requests, NoRequest
  <2>4. (query = NoRequest => left = 0)' /\ (step = "idle" <=> taken = NoRequest)'
    BY <1>0, <1>11 DEF ResumedFails, Resumes, buffers, AdminTypeOK, Requests, NoRequest
  <2> QED
    BY <2>1, <2>2, <2>3, <2>4 DEF Shape, Counted
<1>12. CASE UNCHANGED adminVars
  BY <1>0, <1>12 DEF adminVars, buffers, Shape, AdminTypeOK, InTurn, LastSubmitted, Counted,
     CountedFor, Submitted
<1> QED
  BY <1>1, <1>2, <1>3, <1>4, <1>5, <1>6, <1>7, <1>8, <1>9, <1>10, <1>11, <1>12
  DEF AdminNext, LogicStep

(* Buffers, handlers and requests keep their types, and the handlers that  *)
(* wait are bounded by the pieces of the queries.                          *)
THEOREM AdminTypeCorrect == AdminSpec => []AdminTypeOK
<1>1. Shape => AdminTypeOK
  BY DEF Shape
<1> QED
  BY <1>1, ShapeBegins, ShapeKept, PTL DEF AdminSpec
-----------------------------------------------------------------------------
LEMMA OneTokenKept == ASSUME Shape, OneToken, [AdminNext]_adminVars PROVE OneToken'
<1>0. /\ AdminTypeOK /\ \A q \in Requests : CountedFor(q)
      /\ step = "idle" <=> taken = NoRequest
  BY DEF Shape, Counted
<1>1. ASSUME NEW r \in Requests, NEW n \in 0 .. MaxPieces, Submit(r, n) PROVE OneToken'
  <2>1. /\ handled[r] = 0 /\ r \notin answers /\ \A s \in Requests : r \notin got[s]
        /\ \A q \in Requests : q # r => size'[q] = size[q]
    BY <1>0, <1>1 DEF Submit, Served, Submitted, CountedFor, AdminTypeOK
  <2> QED
    BY <1>1, <2>1 DEF Submit, OneToken
<1>2. ASSUME NEW r \in Requests, Reply(r) PROVE OneToken'
  <2>1. /\ \A s \in Requests : got'[s] = IF s = r THEN answers ELSE got[s]
        /\ answers' = {} /\ UNCHANGED <<size, taken, waiting>>
    BY <1>0, <1>2 DEF Reply, AdminTypeOK
  <2> QED
    BY <2>1 DEF OneToken
<1>3. ASSUME TakeQuery PROVE OneToken'
  <2>1. query \in Requests /\ left + handled[query] <= size[query] /\ left > 0 /\ left \in Nat
    BY <1>0, <1>3 DEF TakeQuery, AdminTypeOK, CountedFor, Shape, Counted
  <2>2. ASSUME size[query] <= 1
        PROVE  waiting[query] = 0 /\ query \notin answers /\ \A s \in Requests : query \notin got[s]
    BY <1>0, <2>1, <2>2 DEF CountedFor
  <2> QED
    BY <1>3, <2>1, <2>2 DEF TakeQuery, OneToken
<1>4. ASSUME DrainAnswers PROVE OneToken'
  BY <1>4 DEF DrainAnswers, OneToken
<1>5. ASSUME Returns PROVE taken \in Requests /\ (size[taken] <= 1 => waiting[taken] = 0)
  BY <1>0, <1>5 DEF Returns, AdminTypeOK, CountedFor
<1>6. ASSUME HandlerAnswers \/ HandlerFails PROVE OneToken'
  <2>1. /\ Returns /\ answers' = answers \cup {taken} /\ taken' = NoRequest
        /\ UNCHANGED <<size, got, waiting>>
    BY <1>6 DEF HandlerAnswers, HandlerFails, SendHttpResponse, Returns
  <2> QED
    BY <1>5, <2>1 DEF OneToken, Requests, NoRequest
<1>7. ASSUME HandlerWaits PROVE OneToken'
  <2>1. Returns /\ \A q \in Requests : q # taken => waiting'[q] = waiting[q]
    BY <1>0, <1>7 DEF HandlerWaits, AdminTypeOK
  <2> QED
    BY <1>5, <1>7, <2>1 DEF HandlerWaits, Returns, buffers, OneToken, Requests, NoRequest
<1>8. ASSUME NEW r \in Requests, ResumedAnswers(r) \/ ResumedFails(r) PROVE OneToken'
  <2>1. /\ waiting[r] > 0 /\ waiting'[r] = waiting[r] - 1
        /\ \A q \in Requests : q # r => waiting'[q] = waiting[q]
        /\ answers' \in {answers, answers \cup {r}} /\ taken = NoRequest
        /\ UNCHANGED <<size, got, taken>>
    BY <1>0, <1>8 DEF ResumedAnswers, ResumedFails, Resumes, SendHttpResponse, buffers, AdminTypeOK
  <2>2. size[r] <= 1 => waiting'[r] = 0
    BY <1>0, <2>1 DEF CountedFor
  <2> QED
    BY <2>1, <2>2 DEF OneToken, Requests, NoRequest
<1>9. CASE UNCHANGED <<size, got, answers, taken, waiting>>
  BY <1>9 DEF OneToken
<1> QED
  BY <1>1, <1>2, <1>3, <1>4, <1>6, <1>7, <1>8, <1>9
  DEF AdminNext, LogicStep, Refuse, Expire, buffers, adminVars

(* The answer to a query of one piece is sent to one request at most, for  *)
(* every number of requests and of handlers that wait for the database.    *)
THEOREM AnswersSentOnce == AdminSpec => []SentOnce
<1>1. AdminInit => OneToken
  BY DEF AdminInit, OneToken
<1>2. OneToken => SentOnce
  BY DEF OneToken, SentOnce
<1> QED
  BY <1>1, <1>2, ShapeBegins, ShapeKept, OneTokenKept, PTL DEF AdminSpec
-----------------------------------------------------------------------------
(* Whatever is under way of a query belongs to a request that was          *)
(* submitted, before the one that waits or to it.                          *)
LEMMA PendingBefore ==
  ASSUME Shape, LateExplained, NEW p \in Requests, NEW r \in Requests,
         Pending(p), client[r] = "waits", p # r
  PROVE  p < r /\ Disturbed(r)
<1>1. Submitted(p)
  BY DEF Shape, AdminTypeOK, Counted, CountedFor, Pending
<1>2. p < r
  BY <1>1 DEF Shape, InTurn, Submitted, Requests
<1>3. Outlived(p) \/ Disturbed(p)
  BY <1>2 DEF Shape, InTurn, LateExplained
<1> QED
  BY <1>2, <1>3 DEF Disturbed, Requests

(* A request that was outlived stays so.                                   *)
LEMMA OutlivedStays ==
  ASSUME Shape, [AdminNext]_adminVars
  PROVE  /\ \A q \in Requests : Outlived(q) => Outlived(q)'
         /\ \A q \in Requests : Disturbed(q) => Disturbed(q)'
<1>1. ASSUME NEW q \in Requests, Outlived(q) PROVE Outlived(q)'
  <2>1. ASSUME NEW r \in Requests, NEW n \in 0 .. MaxPieces, Submit(r, n) PROVE Outlived(q)'
    <3>1. client[r] = "new" /\ size[r] = 0
      BY <2>1 DEF Submit, Served, Submitted, Shape, Counted, CountedFor
    <3> QED
      BY <1>1, <2>1, <3>1 DEF Submit, Outlived, Shape, AdminTypeOK
  <2>2. ASSUME NEW r \in Requests, Refuse(r) \/ Reply(r) \/ Expire(r) PROVE Outlived(q)'
    BY <1>1, <2>2 DEF Refuse, Served, Reply, Expire, Outlived, Shape, AdminTypeOK
  <2>3. CASE UNCHANGED <<client, size>>
    BY <1>1, <2>3 DEF Outlived
  <2> QED
    BY <2>1, <2>2, <2>3 DEF AdminNext, LogicStep, TakeQuery, DrainAnswers, HandlerAnswers,
       HandlerFails, HandlerWaits, ResumedAnswers, ResumedFails, adminVars
<1> QED
  BY <1>1 DEF Disturbed

LEMMA LateKept ==
  ASSUME Shape, OneToken, LateExplained, [AdminNext]_adminVars
  PROVE  LateExplained'
<1> SUFFICES ASSUME NEW q \in Requests, Pending(q)', client'[q] # "waits"
             PROVE  Outlived(q)' \/ Disturbed(q)'
  BY DEF LateExplained
<1>0. AdminTypeOK /\ CountedFor(q) /\ (Pending(q) => Submitted(q))
  BY DEF Shape, Counted, CountedFor, AdminTypeOK, Pending
<1>1. CASE Pending(q) /\ client[q] # "waits"
  BY <1>1, OutlivedStays DEF LateExplained
<1>2. ASSUME NEW r \in Requests, Reply(r), q = r PROVE Disturbed(q) \/ Outlived(q)
  <2>1. PICK p \in Requests : p \in answers
    BY <1>0, <1>2 DEF Reply, AdminTypeOK
  <2>2. CASE p # r
    BY <1>2, <2>1, <2>2, PendingBefore DEF Reply, Pending
  <2>3. CASE p = r
    <3>1. handled[q] > 0 /\ size[q] \in Nat /\ handled[q] \in Nat /\ left \in Nat
      BY <1>0, <1>2, <2>1, <2>3 DEF CountedFor, AdminTypeOK
    <3>2. size[q] > 1
      BY <1>0, <1>2, <2>1, <2>3, <3>1 DEF Reply, Pending, OneToken, CountedFor
    <3> QED
      BY <3>2 DEF Outlived
  <2> QED
    BY <2>2, <2>3
<1>3. ASSUME NEW r \in Requests, Expire(r), q = r PROVE Outlived(q)'
  BY <1>0, <1>3 DEF Expire, Outlived, AdminTypeOK
<1>4. ASSUME NEW r \in Requests, q # r,
             Refuse(r) \/ (\E n \in 0 .. MaxPieces : Submit(r, n)) \/ Reply(r) \/ Expire(r)
      PROVE  Pending(q) /\ client[q] # "waits"
  BY <1>0, <1>4 DEF Refuse, Submit, Reply, Expire, buffers, Pending, AdminTypeOK
<1>5. ASSUME NEW r \in Requests, q = r, Refuse(r) \/ \E n \in 0 .. MaxPieces : Submit(r, n)
      PROVE  FALSE
  BY <1>0, <1>5 DEF Refuse, Submit, Served, Submitted, buffers, Pending, AdminTypeOK
<1>6. ASSUME LogicStep \/ UNCHANGED adminVars PROVE Pending(q) /\ client[q] # "waits"
  <2>1. client[q] # "waits"
    BY <1>6 DEF LogicStep, TakeQuery, DrainAnswers, HandlerAnswers, HandlerFails, HandlerWaits,
       ResumedAnswers, ResumedFails, adminVars
  <2>2. CASE TakeQuery
    BY <1>0, <2>2 DEF TakeQuery, Pending, AdminTypeOK
  <2>3. CASE DrainAnswers
    BY <2>3 DEF DrainAnswers, Pending
  <2>4. CASE HandlerAnswers \/ HandlerFails
    <3>1. answers' = answers \cup {taken} /\ taken' = NoRequest
          /\ UNCHANGED <<waiting, query>> /\ (left' = 0 \/ left' = left)
      BY <2>4 DEF HandlerAnswers, HandlerFails, Returns, SendHttpResponse
    <3> QED
      BY <1>6, <2>1, <3>1 DEF Pending, Requests, NoRequest
  <2>5. CASE HandlerWaits
    <3>1. waiting'[q] = waiting[q] \/ taken = q
      BY <1>0, <2>5 DEF HandlerWaits, AdminTypeOK
    <3> QED
      BY <2>5, <3>1 DEF HandlerWaits, Returns, buffers, Pending, Requests, NoRequest
  <2>6. ASSUME NEW r \in Requests, ResumedAnswers(r) \/ ResumedFails(r) PROVE Pending(q)
    BY <1>0, <2>6 DEF ResumedAnswers, ResumedFails, Resumes, SendHttpResponse, buffers, Pending,
       AdminTypeOK
  <2>7. CASE UNCHANGED adminVars
    BY <2>7 DEF adminVars, buffers, Pending
  <2> QED
    BY <1>6, <2>1, <2>2, <2>3, <2>4, <2>5, <2>6, <2>7 DEF LogicStep
<1> QED
  BY <1>1, <1>2, <1>3, <1>4, <1>5, <1>6, OutlivedStays DEF AdminNext

LEMMA StrayKept ==
  ASSUME Shape, LateExplained, StrayExplained, [AdminNext]_adminVars
  PROVE  StrayExplained'
<1> SUFFICES ASSUME NEW r \in Requests, NEW q \in Requests, q \in got'[r]
             PROVE  q = r \/ (q < r /\ Disturbed(r)')
  BY ShapeKept DEF StrayExplained, Shape, AdminTypeOK
<1>1. ASSUME q \in got[r] PROVE q = r \/ (q < r /\ Disturbed(r)')
  BY <1>1, OutlivedStays DEF StrayExplained
<1>2. ASSUME Reply(r), q # r PROVE q < r /\ Disturbed(r)'
  <2>1. q \in answers /\ client[r] = "waits"
    BY <1>2 DEF Reply, Shape, AdminTypeOK
  <2> QED
    BY <1>2, <2>1, PendingBefore, OutlivedStays DEF Pending
<1>3. got'[r] = got[r] \/ Reply(r)
  BY DEF Shape, AdminTypeOK, AdminNext, LogicStep, Refuse, Submit, Reply, Expire, TakeQuery,
     DrainAnswers, HandlerAnswers, HandlerFails, HandlerWaits, ResumedAnswers, ResumedFails,
     adminVars
<1> QED
  BY <1>1, <1>2, <1>3

LEMMA QueryStays ==
  ASSUME Shape, LateExplained, QueryKept, [AdminNext]_adminVars
  PROVE  QueryKept'
<1> SUFFICES ASSUME NEW r \in Requests, client'[r] = "waits", size'[r] > 0, handled'[r] = 0
             PROVE  (query' = r /\ left' > 0) \/ Disturbed(r)'
  BY DEF QueryKept
<1>0. AdminTypeOK /\ (step = "idle" <=> taken = NoRequest) /\ \A q \in Requests : CountedFor(q)
  BY DEF Shape, Counted
<1> DEFINE Before == client[r] = "waits" /\ size[r] > 0 /\ handled[r] = 0
<1>1. ASSUME Before, UNCHANGED <<query, left>> PROVE (query' = r /\ left' > 0) \/ Disturbed(r)'
  BY <1>1, OutlivedStays DEF QueryKept
<1>2. ASSUME NEW s \in Requests, NEW n \in 0 .. MaxPieces, Submit(s, n)
      PROVE  query' = r /\ left' > 0
  <2>1. CASE r = s
    BY <1>0, <1>2, <2>1 DEF Submit, AdminTypeOK
  <2>2. CASE r # s
    <3>1. /\ client[r] = "waits" /\ client[s] = "new"
          /\ \A q \in Requests : q < s => client[q] # "waits"
      BY <1>0, <1>2, <2>2 DEF Submit, Served, AdminTypeOK
    <3> QED
      BY <2>2, <3>1 DEF Shape, InTurn, Requests
  <2> QED
    BY <2>1, <2>2
<1>3. ASSUME NEW s \in Requests, Refuse(s) \/ Reply(s) \/ Expire(s)
      PROVE  Before /\ UNCHANGED <<query, left>>
  BY <1>0, <1>3 DEF Refuse, Reply, Expire, buffers, AdminTypeOK
<1>4. ASSUME TakeQuery PROVE Disturbed(r)'
  <2>1. query # r /\ Before
    BY <1>0, <1>4 DEF TakeQuery, AdminTypeOK, CountedFor
  <2> QED
    BY <2>1, OutlivedStays DEF QueryKept
<1>5. ASSUME NEW p \in Requests, Pending(p), handled[p] > 0, Before PROVE Disturbed(r)'
  BY <1>5, PendingBefore, OutlivedStays
<1>6. ASSUME HandlerAnswers PROVE Before /\ taken \in Requests /\ handled[taken] > 0
  BY <1>0, <1>6 DEF HandlerAnswers, Returns, AdminTypeOK, CountedFor
<1>7. ASSUME NEW p \in Requests, ResumedAnswers(p) PROVE Before /\ waiting[p] > 0 /\ handled[p] > 0
  BY <1>0, <1>7 DEF ResumedAnswers, Resumes, AdminTypeOK, CountedFor
<1>8. ASSUME \/ DrainAnswers \/ HandlerFails \/ HandlerWaits \/ UNCHANGED adminVars
             \/ \E p \in Requests : ResumedFails(p)
      PROVE  Before /\ UNCHANGED <<query, left>>
  BY <1>8 DEF DrainAnswers, HandlerFails, HandlerWaits, ResumedFails, adminVars, buffers
<1> QED
  <2> HIDE DEF Before
  <2> QED
    BY <1>1, <1>2, <1>3, <1>4, <1>5, <1>6, <1>7, <1>8 DEF AdminNext, LogicStep, Pending

LEMMA AdminInvariant == AdminSpec => []AdminInv
<1>1. AdminInit => AdminInv
  <2>1. AdminInit => OneToken /\ LateExplained /\ StrayExplained /\ QueryKept
    BY DEF AdminInit, OneToken, LateExplained, Pending, StrayExplained, QueryKept, Requests,
       NoRequest
  <2> QED
    BY <2>1, ShapeBegins DEF AdminInv
<1>2. AdminInv /\ [AdminNext]_adminVars => AdminInv'
  BY ShapeKept, OneTokenKept, LateKept, StrayKept, QueryStays DEF AdminInv
<1> QED
  BY <1>1, <1>2, PTL DEF AdminSpec

(* A request is sent its own answer, or that of an earlier one after a     *)
(* request before it expired or had a long query, for every number of      *)
(* requests (HttpThread.cpp:152).                                          *)
THEOREM StraysAlwaysExplained == AdminSpec => []StrayExplained
<1>1. AdminInv => StrayExplained
  BY DEF AdminInv
<1> QED
  BY <1>1, AdminInvariant, PTL

(* A query is not lost before the logic thread sees it, with the same      *)
(* exception (Main.cpp:610).                                               *)
THEOREM QueryAlwaysKept == AdminSpec => []QueryKept
<1>1. AdminInv => QueryKept
  BY DEF AdminInv
<1> QED
  BY <1>1, AdminInvariant, PTL
-----------------------------------------------------------------------------
(* Crontab: the minutes of the clock.                                      *)

\* The tick at which a minute begins.
Begins(m) == m * Second * Tick

MinuteAt(t) == (t \div Tick) \div Second

LEMMA Quotient ==
  ASSUME NEW a \in Nat, NEW b \in Nat \ {0}
  PROVE  a \div b \in Nat /\ (a \div b) * b <= a /\ a < (a \div b) * b + b
OBVIOUS

LEMMA Growing ==
  ASSUME NEW a \in Int, NEW b \in Int, NEW c \in Nat, a <= b PROVE a * c <= b * c
OBVIOUS

LEMMA Smaller ==
  ASSUME NEW a \in Int, NEW b \in Int, NEW c \in Nat \ {0}, a * c < b * c PROVE a < b
OBVIOUS

LEMMA Distributed ==
  ASSUME NEW a \in Int, NEW b \in Int, NEW c \in Int
  PROVE  (a + b) * c = a * c + b * c /\ (a - b) * c = a * c - b * c
OBVIOUS

LEMMA Associated ==
  ASSUME NEW a \in Int, NEW b \in Int, NEW c \in Int PROVE (a * b) * c = a * (b * c)
OBVIOUS

(* The quotient is the largest number whose multiple is not too large.     *)
LEMMA Floor ==
  ASSUME NEW a \in Nat, NEW b \in Nat \ {0}, NEW n \in Int
  PROVE  a \div b \in Nat /\ (n <= a \div b <=> n * b <= a)
<1>1. PICK q : q = a \div b
  OBVIOUS
<1>2. q \in Nat /\ q * b <= a /\ a < q * b + b
  BY <1>1, Quotient
<1>3. n * b \in Int /\ q * b \in Int /\ (q + 1) * b = q * b + b
  BY <1>2
<1>4. ASSUME n <= q PROVE n * b <= a
  <2>1. n * b <= q * b
    BY <1>2, <1>4, Growing
  <2> QED BY <1>2, <1>3, <2>1
<1>5. ASSUME n * b <= a PROVE n <= q
  <2>1. n * b < (q + 1) * b
    BY <1>2, <1>3, <1>5
  <2>2. n < q + 1
    BY <1>2, <2>1, Smaller
  <2> QED BY <1>2, <2>2
<1>6. n <= q <=> n * b <= a
  BY <1>4, <1>5
<1> QED BY <1>1, <1>2, <1>6

LEMMA Units == /\ Tick \in Nat \ {0} /\ Second \in Nat \ {0} /\ Minute \in Nat \ {0}
               /\ MaxClock \in Nat /\ Second * Tick \in Nat \ {0} /\ Tick <= Second * Tick
               /\ Tick * (Second - 1) = Second * Tick - Tick
<1>1. Tick \in Nat \ {0} /\ Second \in Nat \ {0} /\ Minute \in Nat \ {0} /\ MaxClock \in Nat
  BY CrontabAssumption
<1>2. Second * Tick \in Nat /\ Tick * (Second - 1) = Second * Tick - Tick
  BY <1>1
<1>3. 1 * Tick <= Second * Tick
  <2>1. 1 <= Second
    BY <1>1
  <2> QED BY <1>1, <2>1, Growing
<1> QED BY <1>1, <1>2, <1>3

LEMMA Beginnings ==
  ASSUME NEW m \in Int
  PROVE  /\ Begins(m) \in Int /\ Begins(m + 1) = Begins(m) + Second * Tick
         /\ (m * Second + 1) * Tick = Begins(m) + Tick
         /\ Begins(m) = m * (Second * Tick)
<1>1. m * Second \in Int /\ Tick \in Int /\ Second \in Int
  BY Units
<1>2. (m + 1) * Second = m * Second + Second
  BY <1>1
<1>3. (m * Second + Second) * Tick = m * Second * Tick + Second * Tick
  BY <1>1, Distributed
<1>4. (m * Second + 1) * Tick = m * Second * Tick + 1 * Tick
  BY <1>1, Distributed
<1>5. m * Second * Tick = m * (Second * Tick)
  BY <1>1, Associated
<1>6. m * Second * Tick \in Int /\ 1 * Tick = Tick
  BY <1>1
<1> QED BY <1>2, <1>3, <1>4, <1>5, <1>6 DEF Begins

LEMMA BeginsGrows ==
  ASSUME NEW m \in Int, NEW n \in Int
  PROVE  /\ m <= n => Begins(m) <= Begins(n)
         /\ m < n => Begins(m) + Second * Tick <= Begins(n)
<1>1. \A k \in Int : k <= n => Begins(k) <= Begins(n)
  <2> SUFFICES ASSUME NEW k \in Int, k <= n PROVE Begins(k) <= Begins(n)
    OBVIOUS
  <2>1. Second * Tick \in Nat
    BY Units
  <2>2. k * (Second * Tick) <= n * (Second * Tick)
    BY <2>1, Growing
  <2> QED BY <2>2, Beginnings
<1>2. m < n => m + 1 <= n /\ m + 1 \in Int
  OBVIOUS
<1> QED BY <1>1, <1>2, Beginnings

(* A minute is reached when it begins.                                     *)
LEMMA Reached ==
  ASSUME NEW t \in Nat, NEW m \in Int
  PROVE  MinuteAt(t) \in Nat /\ (m <= MinuteAt(t) <=> Begins(m) <= t)
<1>1. PICK s : s = t \div Tick
  OBVIOUS
<1>2. s \in Nat /\ (m * Second <= s <=> m * Second * Tick <= t)
  <2>1. m * Second \in Int
    BY Units
  <2> QED BY <1>1, <2>1, Floor, Units
<1>3. s \div Second \in Nat /\ (m <= s \div Second <=> m * Second <= s)
  BY <1>2, Floor, Units
<1> QED BY <1>1, <1>2, <1>3 DEF MinuteAt, Begins

Clocked == clock \in 0 .. MaxClock /\ timerNow \in 0 .. clock

LEMMA Now ==
  ASSUME Clocked
  PROVE  /\ clock \in Nat /\ timerNow \in Nat /\ timerNow <= clock
         /\ MinuteNow \in Nat /\ MinuteNow \in Minutes
         /\ OsTime \in Nat /\ OsTime * Tick \in Nat /\ OsTime * Tick <= clock
         /\ clock < OsTime * Tick + Tick
         /\ Begins(MinuteNow) <= clock /\ clock < Begins(MinuteNow + 1)
<1>1. clock \in Nat /\ clock <= MaxClock /\ timerNow \in Nat /\ timerNow <= clock
  BY Units DEF Clocked
<1>2. MinuteNow = MinuteAt(clock)
  BY DEF MinuteNow, MinuteAt, OsTime
<1>3. MinuteNow \in Nat
  BY <1>1, <1>2, Reached
<1>4. Begins(MinuteNow) <= clock
  <2>1. MinuteNow <= MinuteAt(clock) /\ MinuteNow \in Int
    BY <1>2, <1>3
  <2> QED BY <1>1, <2>1, Reached
<1>5. clock < Begins(MinuteNow + 1)
  <2>1. ~(MinuteNow + 1 <= MinuteAt(clock)) /\ MinuteNow + 1 \in Int
    BY <1>2, <1>3
  <2>2. ~(Begins(MinuteNow + 1) <= clock)
    BY <1>1, <2>1, Reached
  <2>3. Begins(MinuteNow + 1) \in Int
    BY <2>1, Beginnings
  <2> QED BY <1>1, <2>2, <2>3
<1>6. /\ OsTime \in Nat /\ OsTime * Tick \in Nat /\ OsTime * Tick <= clock
      /\ clock < OsTime * Tick + Tick
  <2>1. /\ clock \div Tick \in Nat /\ (clock \div Tick) * Tick <= clock
        /\ clock < (clock \div Tick) * Tick + Tick
    BY <1>1, Units, Quotient
  <2>2. \A n \in Nat : n * Tick \in Nat
    BY Units
  <2> QED BY <2>1, <2>2 DEF OsTime
<1>7. MinuteNow \in Minutes
  <2>1. Tick * Second = Second * Tick /\ Tick * Second \in Nat \ {0}
    BY Units
  <2>2. MinuteNow * (Second * Tick) <= MaxClock
    <3>1. Begins(MinuteNow) = MinuteNow * (Second * Tick) /\ Begins(MinuteNow) \in Int
      BY <1>3, Beginnings
    <3> QED BY <1>1, <1>4, <3>1, Units
  <2>3. /\ MaxClock \div (Tick * Second) \in Nat
        /\ MinuteNow <= MaxClock \div (Tick * Second)
    BY <1>3, <2>1, <2>2, Units, Floor
  <2> QED BY <1>3, <2>3 DEF Minutes
<1> QED BY <1>1, <1>3, <1>4, <1>5, <1>6, <1>7

(* Days begin at the multiples of Minute.                                  *)
LEMMA Multiples ==
  ASSUME NEW k \in Nat, k % Minute = 0
  PROVE  k = (k \div Minute) * Minute /\ k \div Minute \in Nat /\ (k + Minute) % Minute = 0
<1>1. PICK q : q = k \div Minute
  OBVIOUS
<1>2. q \in Nat /\ k % Minute = k - q * Minute /\ q * Minute \in Nat
  BY <1>1, Units, Quotient
<1>3. k = q * Minute
  BY <1>2
<1>4. k + Minute = (q + 1) * Minute
  BY <1>2, <1>3, Units
<1>5. ((q + 1) * Minute) % Minute = 0
  BY <1>2, Units
<1> QED BY <1>1, <1>2, <1>3, <1>4, <1>5

(* NextMidnight is the end of the day that the clock is in.                *)
LEMMA Midnight ==
  ASSUME Clocked
  PROVE  /\ NextMidnight \in Nat /\ NextMidnight % Minute = 0 /\ NextMidnight - Minute \in Nat
         /\ NextMidnight - Minute <= MinuteNow /\ MinuteNow < NextMidnight
<1>1. PICK q : q = MinuteNow \div Minute
  OBVIOUS
<1>2. MinuteNow \in Nat
  BY Now
<1>3. q \in Nat /\ q * Minute <= MinuteNow /\ MinuteNow < q * Minute + Minute
  BY <1>1, <1>2, Units, Quotient
<1>4. NextMidnight = (q + 1) * Minute
  BY <1>1 DEF NextMidnight
<1>5. (q + 1) * Minute = q * Minute + Minute /\ q * Minute \in Nat
  BY <1>3, Units
<1>6. ((q + 1) * Minute) % Minute = 0
  BY <1>3, Units
<1>7. NextMidnight = q * Minute + Minute /\ Minute \in Nat
  BY <1>4, <1>5, Units
<1>8. NextMidnight % Minute = 0
  BY <1>4, <1>6
<1> QED BY <1>2, <1>3, <1>5, <1>7, <1>8

LEMMA SameDay ==
  ASSUME Clocked, NEW k \in Nat, k % Minute = 0, k - Minute <= MinuteNow, MinuteNow < k
  PROVE  NextMidnight = k
<1>1. PICK q, r : q = k \div Minute /\ r = NextMidnight \div Minute
  OBVIOUS
<1>2. q \in Nat /\ r \in Nat /\ k = q * Minute /\ NextMidnight = r * Minute
  BY <1>1, Midnight, Multiples
<1>3. k < NextMidnight + Minute /\ NextMidnight < k + Minute
  <2>1. NextMidnight \in Nat /\ MinuteNow \in Nat /\ Minute \in Nat
    BY Midnight, Now, Units
  <2>2. NextMidnight - Minute <= MinuteNow /\ MinuteNow < NextMidnight
    BY Midnight
  <2> QED BY <2>1, <2>2
<1>4. (r + 1) * Minute = r * Minute + Minute /\ (q + 1) * Minute = q * Minute + Minute
  BY <1>2, Units
<1>5. q * Minute < (r + 1) * Minute /\ r * Minute < (q + 1) * Minute
  BY <1>2, <1>3, <1>4
<1>6. q < r + 1
  BY <1>2, <1>5, Smaller, Units
<1>7. r < q + 1
  BY <1>2, <1>5, Smaller, Units
<1> QED BY <1>2, <1>6, <1>7

LEMMA NewPlan ==
  ASSUME Clocked
  PROVE  /\ DayPlan \subseteq Nat /\ NextMidnight \in DayPlan
         /\ \A m \in DayPlan : /\ NextMidnight - Minute <= m /\ m <= NextMidnight
                               /\ m >= MinuteNow
                               /\ m # NextMidnight => m % Minute \in CronMinutes
         /\ \A m \in Int : /\ m >= MinuteNow /\ m < NextMidnight
                           /\ m % Minute \in CronMinutes
                           => m \in DayPlan
<1>1. /\ NextMidnight \in Nat /\ NextMidnight - Minute \in Nat /\ MinuteNow \in Nat
      /\ NextMidnight - Minute <= MinuteNow /\ MinuteNow < NextMidnight /\ Minute \in Nat
  BY Midnight, Now, Units
<1>2. \A m \in DayPlan :
        \/ m = NextMidnight
        \/ /\ m \in Int /\ NextMidnight - Minute <= m /\ m <= NextMidnight - 1
           /\ m >= MinuteNow /\ m % Minute \in CronMinutes
  BY <1>1 DEF DayPlan, Planned
<1>3. \A m \in DayPlan : m \in Nat /\ m >= MinuteNow /\ m <= NextMidnight
  BY <1>1, <1>2
<1>4. \A m \in DayPlan : NextMidnight - Minute <= m
  BY <1>1, <1>2
<1>5. \A m \in Int : /\ m >= MinuteNow /\ m < NextMidnight
                     => m \in NextMidnight - Minute .. NextMidnight - 1
  BY <1>1
<1>6. \A m \in Int : /\ m >= MinuteNow /\ m < NextMidnight /\ m % Minute \in CronMinutes
                     => m \in DayPlan
  BY <1>5 DEF DayPlan, Planned
<1>7. NextMidnight \in DayPlan
  BY DEF DayPlan
<1> QED BY <1>2, <1>3, <1>4, <1>6, <1>7

(* RunNext finds the first entry that is left.                             *)
LEMMA First ==
  ASSUME NEW D, D \subseteq Nat, D # {}
  PROVE  LET n == CHOOSE m \in D : \A k \in D : m <= k IN n \in D /\ \A k \in D : n <= k
<1> DEFINE less == {ss \in Nat \X Nat : ss[1] < ss[2]}
<1>1. IsWellFoundedOn(less, Nat)
  BY NatLessThanWellFounded, Zenon DEF OpToRel
<1>2. PICK n \in D : \A k \in D : ~(<<k, n>> \in less)
  <2> HIDE DEF less
  <2> QED BY <1>1, WFMin, Zenon
<1>3. \A k \in D : n <= k
  <2> SUFFICES ASSUME NEW k \in D PROVE n <= k
    OBVIOUS
  <2>1. n \in Nat /\ k \in Nat /\ <<k, n>> \notin less
    BY <1>2
  <2> QED BY <2>1
<1> HIDE DEF less
<1> QED BY <1>2, <1>3, Zenon
-----------------------------------------------------------------------------
(* The plan.  It ends with midnight, until an assertion ends it.           *)
Ended ==
  /\ midnight \in dayPlan \/ dayPlan = {}
  /\ dayPlan = {} => calling = "no" /\ ~timerRuns
  /\ calling # "no" => ~timerRuns

(* While RunNext is in time, the plan is that of a day, and midnight is    *)
(* not over when it is not in the past of a RunNext that is to come.       *)
PlanOfDay ==
  /\ midnight % Minute = 0 /\ midnight \in dayPlan /\ midnight - Minute <= MinuteNow
  /\ \A m \in dayPlan : /\ midnight - Minute <= m /\ m <= midnight
                        /\ m # midnight => m % Minute \in CronMinutes

RaisedInTime ==
  /\ \A m \in Minutes : raised[m] > 0 => m <= MinuteNow /\ m < midnight
  /\ \A m \in Minutes : raised[m] > 1 => (m + 1) % Minute = 0
  /\ \A m \in Minutes : m \in dayPlan /\ m < midnight /\ raised[m] > 0 => m = midnight - 1

NoneMissed ==
  \A m \in bootMinute .. midnight - 1 :
    m % Minute \in CronMinutes /\ m \notin dayPlan => m \in Minutes /\ raised[m] > 0

\* The timer is for the first entry, and less than a minute early.
Armed ==
  calling # "built" =>
    /\ \A m \in dayPlan : dayRunTimer < Begins(m) + Tick
    /\ \E m \in dayPlan : dayRunTimer > Begins(m) - (Second * Tick - Tick)
    /\ calling = "timer" => dayRunTimer <= timerNow
    /\ calling = "no" => timerRuns

\* A plan that was just made lacks no minute to come.
Complete ==
  calling = "built" =>
    \A m \in midnight - Minute .. midnight - 1 :
      m >= MinuteNow /\ m % Minute \in CronMinutes => m \in dayPlan

InTime == PlanOfDay /\ RaisedInTime /\ NoneMissed /\ Armed /\ Complete

CronInv == CronTypeOK /\ Ended /\ (~overslept => InTime)

LEMMA CronTypes ==
  ASSUME CronTypeOK
  PROVE  /\ dayPlan \subseteq Nat /\ midnight \in Nat /\ dayRunTimer \in Nat
         /\ raised \in [Minutes -> Nat] /\ bootMinute \in Nat /\ bootMinute \in Minutes
         /\ Minutes \subseteq Nat /\ Clocked
<1>1. Minutes \subseteq Nat
  BY DEF Minutes
<1> QED BY <1>1 DEF CronTypeOK, Clocked

(* The timer calls RunNext in the minute of the first entry or in the one  *)
(* before, unless it is late.                                              *)
LEMMA OnTime ==
  ASSUME CronInv, ~overslept, ~Late, calling = "timer"
  PROVE  \E n \in dayPlan : /\ \A m \in dayPlan : n <= m
                            /\ n - 1 <= MinuteNow /\ MinuteNow <= n
<1> USE DEF CronInv
<1>1. /\ \A m \in dayPlan : m \in Int /\ dayRunTimer < Begins(m) + Tick
      /\ dayRunTimer <= timerNow /\ dayRunTimer \in Nat
  BY CronTypes DEF InTime, Armed
<1>2. PICK n \in dayPlan : dayRunTimer > Begins(n) - (Second * Tick - Tick)
  BY DEF InTime, Armed
<1>3. /\ clock \in Nat /\ timerNow \in Nat /\ timerNow <= clock
      /\ MinuteNow \in Nat /\ Begins(MinuteNow) <= clock /\ clock < Begins(MinuteNow + 1)
  BY CronTypes, Now
<1>4. n \in Int /\ Begins(n) \in Int /\ Second * Tick \in Nat /\ Tick \in Nat
  BY <1>1, Beginnings, Units
<1>5. \A m \in dayPlan : n <= m
  <2> SUFFICES ASSUME NEW m \in dayPlan, m < n PROVE FALSE
    BY <1>1, <1>4
  <2>1. m \in Int /\ Begins(m) \in Int /\ Begins(m) + Second * Tick <= Begins(n)
    BY <1>1, <1>4, Beginnings, BeginsGrows
  <2>2. dayRunTimer < Begins(m) + Tick
    BY <1>1
  <2> QED BY <1>1, <1>2, <1>4, <2>1, <2>2
<1>6. n - 1 <= MinuteNow
  <2> SUFFICES ASSUME MinuteNow + 1 < n PROVE FALSE
    BY <1>3, <1>4
  <2>1. Begins(MinuteNow + 1) + Second * Tick <= Begins(n) /\ Begins(MinuteNow + 1) \in Int
    <3>1. MinuteNow + 1 \in Int
      BY <1>3
    <3> QED BY <1>4, <3>1, Beginnings, BeginsGrows
  <2>2. dayRunTimer <= clock
    BY <1>1, <1>3
  <2> QED BY <1>1, <1>2, <1>3, <1>4, <2>1, <2>2
<1>7. MinuteNow <= n
  <2> SUFFICES ASSUME n + 1 <= MinuteNow PROVE FALSE
    BY <1>3, <1>4
  <2>1. Begins(n + 1) <= Begins(MinuteNow) /\ Begins(n + 1) = Begins(n) + Second * Tick
    <3>1. n + 1 \in Int /\ MinuteNow \in Int
      BY <1>3, <1>4
    <3> QED BY <1>4, <3>1, Beginnings, BeginsGrows
  <2>2. clock - dayRunTimer < Second * Tick - Tick
    <3>1. ~(clock - dayRunTimer >= Tick * (Second - 1))
      BY DEF Late
    <3>2. Tick * (Second - 1) = Second * Tick - Tick
      BY Units
    <3> QED BY <1>1, <1>3, <1>4, <3>1, <3>2
  <2>3. dayRunTimer < Begins(n) + Tick /\ Begins(MinuteNow) \in Int
    BY <1>1, <1>3, Beginnings
  <2> QED BY <1>1, <1>3, <1>4, <2>1, <2>2, <2>3
<1> QED BY <1>5, <1>6, <1>7
-----------------------------------------------------------------------------
LEMMA PlanBegins == ASSUME CronInit PROVE CronInv
<1>1. /\ clock \in 0 .. Tick * Second * Minute - 1
      /\ timerNow \in {t \in 0 .. clock : clock - t <= MaxLoad}
      /\ dayPlan = DayPlan /\ midnight = NextMidnight
      /\ dayRunTimer = clock /\ timerRuns = FALSE /\ calling = "built"
      /\ raised = [m \in Minutes |-> 0] /\ bootMinute = MinuteNow /\ overslept = FALSE
  BY DEF CronInit
<1>2. Clocked
  <2>1. Tick * Second * Minute \in Nat /\ Tick * Second * Minute <= MaxClock /\ MaxClock \in Nat
    BY Units, CrontabAssumption
  <2>2. \A k \in Nat : k <= MaxClock => \A x \in 0 .. k - 1 : x \in 0 .. MaxClock
    BY <2>1
  <2> QED BY <1>1, <2>1, <2>2 DEF Clocked
<1>3. /\ clock \in Nat /\ MinuteNow \in Nat /\ MinuteNow \in Minutes
      /\ NextMidnight \in Nat /\ NextMidnight - Minute <= MinuteNow /\ DayPlan \subseteq Nat
      /\ NextMidnight \in DayPlan
  BY <1>2, Now, Midnight, NewPlan
<1>4. CronTypeOK
  BY <1>1, <1>2, <1>3 DEF CronTypeOK, Clocked
<1>5. Ended
  BY <1>1, <1>3 DEF Ended
<1>6. PlanOfDay
  BY <1>1, <1>2, Midnight, NewPlan DEF PlanOfDay
<1>7. RaisedInTime
  BY <1>1 DEF RaisedInTime
<1>8. \A m \in Int : m >= MinuteNow /\ m < midnight /\ m % Minute \in CronMinutes => m \in dayPlan
  BY <1>1, <1>2, NewPlan
<1>9. NoneMissed
  <2> SUFFICES ASSUME NEW m \in bootMinute .. midnight - 1, m % Minute \in CronMinutes
               PROVE  m \in dayPlan
    BY DEF NoneMissed
  <2>1. m \in Int /\ m >= MinuteNow /\ m < midnight
    BY <1>1, <1>3
  <2> QED BY <1>8, <2>1
<1>10. Complete
  <2> SUFFICES ASSUME NEW m \in midnight - Minute .. midnight - 1,
                      m >= MinuteNow, m % Minute \in CronMinutes
               PROVE  m \in dayPlan
    BY DEF Complete
  <2>1. m \in Int /\ m < midnight
    BY <1>1, <1>3, Units
  <2> QED BY <1>8, <2>1
<1>11. Armed
  BY <1>1 DEF Armed
<1> QED BY <1>4, <1>5, <1>6, <1>7, <1>9, <1>10, <1>11 DEF CronInv, InTime

LEMMA ElapseKeeps == ASSUME CronInv, Elapse PROVE CronInv'
<1>1. /\ clock < MaxClock /\ clock' = clock + 1
      /\ timerNow' = timerNow /\ dayPlan' = dayPlan /\ midnight' = midnight
      /\ dayRunTimer' = dayRunTimer /\ timerRuns' = timerRuns /\ calling' = calling
      /\ raised' = raised /\ bootMinute' = bootMinute /\ overslept' = overslept
  BY DEF Elapse, planVars
<1>2. clock \in Nat /\ timerNow \in Nat /\ timerNow <= clock /\ MaxClock \in Nat
  BY CronTypes, Now, Units DEF CronInv
<1>3. CronTypeOK'
  BY <1>1, <1>2 DEF CronTypeOK, CronInv
<1>4. Ended'
  BY <1>1 DEF Ended, CronInv
<1>5. MinuteNow \in Nat /\ MinuteNow' \in Nat /\ MinuteNow <= MinuteNow'
  <2>1. MinuteNow = MinuteAt(clock) /\ MinuteNow' = MinuteAt(clock + 1)
    BY <1>1 DEF MinuteNow, MinuteAt, OsTime
  <2>2. MinuteAt(clock) \in Nat /\ MinuteAt(clock + 1) \in Nat /\ clock + 1 \in Nat
    BY <1>2, Reached
  <2>3. Begins(MinuteAt(clock)) <= clock /\ Begins(MinuteAt(clock)) \in Int
    <3>1. MinuteAt(clock) \in Int /\ MinuteAt(clock) <= MinuteAt(clock)
      BY <2>2
    <3> QED BY <1>2, <3>1, Reached, Beginnings
  <2>4. Begins(MinuteAt(clock)) <= clock + 1 /\ MinuteAt(clock) \in Int
    BY <1>2, <2>2, <2>3
  <2>5. MinuteAt(clock) <= MinuteAt(clock + 1)
    BY <2>2, <2>4, Reached
  <2> QED BY <2>1, <2>2, <2>5
<1>6. ASSUME ~overslept PROVE InTime'
  <2>1. InTime /\ midnight \in Nat /\ Minute \in Nat /\ Minutes \subseteq Nat
    BY <1>6, CronTypes, Units DEF CronInv
  <2>2. PlanOfDay'
    <3>1. midnight - Minute <= MinuteNow'
      BY <1>5, <2>1 DEF InTime, PlanOfDay
    <3> QED BY <1>1, <2>1, <3>1 DEF InTime, PlanOfDay
  <2>3. RaisedInTime'
    <3>1. \A m \in Minutes : m <= MinuteNow => m <= MinuteNow'
      BY <1>5, <2>1
    <3> QED BY <1>1, <2>1, <3>1 DEF InTime, RaisedInTime
  <2>4. NoneMissed' /\ Armed'
    BY <1>1, <2>1 DEF InTime, NoneMissed, Armed
  <2>5. Complete'
    <3>1. \A m \in midnight - Minute .. midnight - 1 : m >= MinuteNow' => m >= MinuteNow
      BY <1>5, <2>1
    <3> QED BY <1>1, <2>1, <3>1 DEF InTime, Complete
  <2> QED BY <2>2, <2>3, <2>4, <2>5 DEF InTime
<1> QED BY <1>1, <1>3, <1>4, <1>6 DEF CronInv

LEMMA DispatchKeeps == ASSUME CronInv, TimerDispatch PROVE CronInv'
<1>1. /\ calling = "no" /\ timerNow' = clock /\ clock' = clock
      /\ dayPlan' = dayPlan /\ midnight' = midnight /\ dayRunTimer' = dayRunTimer
      /\ raised' = raised /\ bootMinute' = bootMinute /\ overslept' = overslept
  BY DEF TimerDispatch, planVars
<1>2. \/ timerRuns /\ dayRunTimer <= clock /\ calling' = "timer" /\ timerRuns' = FALSE
      \/ ~(timerRuns /\ dayRunTimer <= clock) /\ calling' = "no" /\ timerRuns' = timerRuns
  BY DEF TimerDispatch, CronInv, CronTypeOK
<1>3. MinuteNow' = MinuteNow
  BY <1>1 DEF MinuteNow, OsTime
<1>4. CronTypeOK'
  <2>1. clock \in 0 .. clock
    BY CronTypes, Now DEF CronInv
  <2> QED BY <1>1, <1>2, <2>1 DEF CronTypeOK, CronInv
<1>5. Ended'
  BY <1>1, <1>2 DEF Ended, CronInv
<1>6. ASSUME ~overslept PROVE InTime'
  <2>1. InTime
    BY <1>6 DEF CronInv
  <2>2. PlanOfDay' /\ RaisedInTime' /\ NoneMissed'
    BY <1>1, <1>3, <2>1 DEF InTime, PlanOfDay, RaisedInTime, NoneMissed
  <2>3. Complete'
    BY <1>2 DEF Complete
  <2>4. Armed'
    <3>1. timerRuns
      BY <1>1, <2>1 DEF InTime, Armed
    <3> QED BY <1>1, <1>2, <2>1, <3>1 DEF InTime, Armed
  <2> QED BY <2>2, <2>3, <2>4 DEF InTime
<1> QED BY <1>1, <1>4, <1>5, <1>6 DEF CronInv

(* A plan that is made for the day the old one was for lacks what is over. *)
LEMMA RebuildKeeps == ASSUME CronInv, Rebuild PROVE CronInv'
<1>1. /\ calling # "no" /\ dayPlan = {midnight}
      /\ dayPlan' = DayPlan /\ midnight' = NextMidnight
      /\ calling' = "built" /\ overslept' = (overslept \/ Late)
      /\ clock' = clock /\ timerNow' = timerNow /\ dayRunTimer' = dayRunTimer
      /\ timerRuns' = timerRuns /\ raised' = raised /\ bootMinute' = bootMinute
  BY DEF Rebuild
<1>2. CronTypeOK /\ Ended /\ Clocked
  BY CronTypes DEF CronInv
<1>3. /\ NextMidnight \in Nat /\ NextMidnight % Minute = 0 /\ MinuteNow \in Nat
      /\ NextMidnight - Minute <= MinuteNow /\ MinuteNow < NextMidnight
      /\ DayPlan \subseteq Nat /\ NextMidnight \in DayPlan
  BY <1>2, Midnight, Now, NewPlan
<1>4. MinuteNow' = MinuteNow
  BY <1>1 DEF MinuteNow, OsTime
<1>5. CronTypeOK'
  BY <1>1, <1>2, <1>3 DEF CronTypeOK
<1>6. Ended'
  BY <1>1, <1>2, <1>3 DEF Ended
<1>7. ASSUME ~overslept, ~Late PROVE InTime'
  <2>1. /\ InTime /\ midnight \in Nat /\ Minute \in Nat \ {0} /\ Minutes \subseteq Nat
        /\ bootMinute \in Nat /\ raised \in [Minutes -> Nat]
    BY <1>2, <1>7, CronTypes, Units DEF CronInv
  <2>2. \/ midnight' = midnight /\ MinuteNow < midnight
        \/ midnight' = midnight + Minute /\ MinuteNow = midnight
    <3>1. midnight % Minute = 0 /\ midnight - Minute <= MinuteNow
      BY <2>1 DEF InTime, PlanOfDay
    <3>2. MinuteNow <= midnight
      <4>1. CASE calling = "timer"
        BY <1>1, <1>7, <4>1, OnTime
      <4>2. CASE calling = "built"
        BY <1>3, <1>7, <2>1, <4>2 DEF Late
      <4> QED BY <1>1, <1>2, <4>1, <4>2 DEF CronTypeOK
    <3>3. CASE MinuteNow < midnight
      BY <1>1, <1>2, <2>1, <3>1, <3>3, SameDay
    <3>4. CASE MinuteNow = midnight
      <4>1. PICK k : k = midnight + Minute
        OBVIOUS
      <4>2. k \in Nat /\ k % Minute = 0 /\ k - Minute <= MinuteNow /\ MinuteNow < k
        <5>1. (midnight + Minute) % Minute = 0
          BY <2>1, <3>1, Multiples
        <5>2. k \in Nat /\ k - Minute <= MinuteNow /\ MinuteNow < k
          BY <2>1, <3>4, <4>1
        <5> QED BY <4>1, <5>1, <5>2
      <4>3. NextMidnight = k
        BY <1>2, <4>2, SameDay
      <4> QED BY <1>1, <3>4, <4>1, <4>3
    <3> QED BY <1>3, <2>1, <3>2, <3>3, <3>4
  <2>3. \A m \in Int : /\ m >= MinuteNow /\ m < midnight' /\ m % Minute \in CronMinutes
                       => m \in dayPlan'
    BY <1>1, <1>2, NewPlan
  <2>4. \A m \in dayPlan' : /\ m \in Nat /\ midnight' - Minute <= m /\ m <= midnight'
                            /\ m >= MinuteNow
                            /\ m # midnight' => m % Minute \in CronMinutes
    BY <1>1, <1>2, NewPlan
  <2>5. PlanOfDay'
    BY <1>1, <1>3, <1>4, <2>4 DEF PlanOfDay
  <2>6. Complete'
    <3> SUFFICES ASSUME NEW m \in midnight' - Minute .. midnight' - 1,
                        m >= MinuteNow, m % Minute \in CronMinutes
                 PROVE  m \in dayPlan'
      BY <1>4 DEF Complete
    <3>1. m \in Int /\ m < midnight'
      BY <1>1, <1>3, <2>1
    <3> QED BY <2>3, <3>1
  <2>7. Armed'
    BY <1>1 DEF Armed
  <2>8. NoneMissed'
    <3> SUFFICES ASSUME NEW m \in bootMinute .. midnight' - 1, m % Minute \in CronMinutes,
                        m \notin dayPlan'
                 PROVE  m \in Minutes /\ raised[m] > 0
      BY <1>1 DEF NoneMissed
    <3>1. m \in Int /\ m < midnight' /\ bootMinute <= m
      BY <1>1, <1>3, <2>1
    <3>2. m < MinuteNow
      BY <1>3, <2>3, <3>1
    <3>3. m \in bootMinute .. midnight - 1
      BY <1>3, <2>1, <2>2, <3>1, <3>2
    <3>4. m \notin dayPlan
      BY <1>1, <2>1, <3>3
    <3> QED BY <2>1, <3>3, <3>4 DEF InTime, NoneMissed
  <2>9. RaisedInTime'
    <3>1. \A m \in Minutes : raised[m] > 0 => m <= MinuteNow /\ m < midnight
      BY <2>1 DEF InTime, RaisedInTime
    <3>2. \A m \in Minutes : m < midnight => m < midnight'
      BY <2>1, <2>2
    <3>3. \A m \in Minutes : m \in dayPlan' /\ raised[m] > 0 => m = midnight' - 1
      <4> SUFFICES ASSUME NEW m \in Minutes, m \in dayPlan', raised[m] > 0
                   PROVE  m = midnight' - 1
        OBVIOUS
      <4>1. m \in Nat /\ m = MinuteNow /\ m < midnight
        BY <1>3, <2>1, <2>4, <3>1
      <4>2. midnight' = midnight
        BY <2>1, <2>2, <4>1
      <4>3. CASE calling = "timer"
        <5>1. midnight - 1 <= MinuteNow
          BY <1>1, <1>7, <4>3, OnTime
        <5> QED BY <1>3, <2>1, <4>1, <4>2, <5>1
      <4>4. CASE calling = "built"
        <5>1. m \in midnight - Minute .. midnight - 1 /\ m >= MinuteNow
          BY <1>3, <2>1, <2>4, <4>1, <4>2
        <5>2. m % Minute \in CronMinutes
          BY <2>1, <2>4, <4>1, <4>2
        <5>3. m \in dayPlan
          BY <2>1, <4>4, <5>1, <5>2 DEF InTime, Complete
        <5> QED BY <1>1, <2>1, <4>1, <5>3
      <4> QED BY <1>1, <1>2, <4>3, <4>4 DEF CronTypeOK
    <3>4. \A m \in Minutes : raised[m] > 1 => (m + 1) % Minute = 0
      BY <2>1 DEF InTime, RaisedInTime
    <3> QED BY <1>1, <1>4, <3>1, <3>2, <3>3, <3>4 DEF RaisedInTime
  <2> QED BY <2>5, <2>6, <2>7, <2>8, <2>9 DEF InTime
<1> QED BY <1>1, <1>5, <1>6, <1>7 DEF CronInv

LEMMA RunNextKeeps == ASSUME CronInv, RunNext PROVE CronInv'
<1>1. PICK D, next : D = dayPlan \ Due /\ next = CHOOSE m \in D : \A k \in D : m <= k
  OBVIOUS
<1>2. /\ calling # "no" /\ dayPlan # {midnight} /\ midnight \notin Due
      /\ dayPlan' = D /\ timerRuns' = TRUE /\ calling' = "no"
      /\ raised' = [m \in Minutes |-> IF m \in Due THEN raised[m] + 1 ELSE raised[m]]
      /\ overslept' = (overslept \/ Late)
      /\ clock' = clock /\ timerNow' = timerNow /\ midnight' = midnight
      /\ bootMinute' = bootMinute
  BY <1>1 DEF RunNext
<1>3. dayRunTimer' = timerNow + (next * Second - OsTime) * Tick
  BY <1>1, <1>2 DEF RunNext
<1>4. /\ CronTypeOK /\ Ended /\ Clocked /\ dayPlan \subseteq Nat /\ midnight \in Nat
      /\ dayRunTimer \in Nat /\ raised \in [Minutes -> Nat] /\ Minutes \subseteq Nat
      /\ bootMinute \in Nat
  BY CronTypes DEF CronInv
<1>5. /\ clock \in Nat /\ timerNow \in Nat /\ timerNow <= clock
      /\ MinuteNow \in Nat /\ MinuteNow \in Minutes /\ OsTime \in Nat
      /\ OsTime * Tick \in Nat /\ OsTime * Tick <= clock /\ clock < OsTime * Tick + Tick
      /\ clock < Begins(MinuteNow + 1)
  BY <1>4, Now
<1>6. midnight \in D
  BY <1>1, <1>2, <1>4 DEF Ended
<1>7. /\ next \in D /\ \A k \in D : next <= k
  BY <1>1, <1>4, <1>6, First
<1>8. /\ \A m \in Due : m \in dayPlan /\ m \in Nat /\ m <= MinuteNow
      /\ \A m \in D : m \in dayPlan /\ m \in Nat /\ m \notin Due /\ MinuteNow < m
  <2>1. \A m \in dayPlan : m \in Nat
    BY <1>4
  <2>2. \A m \in Due : m \in dayPlan /\ m <= MinuteNow
    BY DEF Due
  <2>3. \A m \in D : m \in dayPlan /\ m \notin Due
    BY <1>1
  <2>4. \A m \in D : MinuteNow < m
    BY <1>5, <2>1, <2>3 DEF Due
  <2> QED BY <2>1, <2>2, <2>3, <2>4
<1>9. next \in Nat /\ Begins(next) \in Int /\ Begins(MinuteNow + 1) <= Begins(next)
  <2>1. next \in Nat /\ MinuteNow < next
    BY <1>7, <1>8
  <2>2. MinuteNow + 1 <= next /\ MinuteNow + 1 \in Int
    BY <1>5, <2>1
  <2> QED BY <2>1, <2>2, Beginnings, BeginsGrows
<1>10. dayRunTimer' = timerNow + Begins(next) - OsTime * Tick
  <2>1. next * Second \in Int /\ Tick \in Int
    BY <1>9, Units
  <2>2. (next * Second - OsTime) * Tick = next * Second * Tick - OsTime * Tick
    BY <1>5, <2>1, Distributed
  <2> QED BY <1>3, <1>5, <1>9, <2>2 DEF Begins
<1>11. CronTypeOK'
  <2>1. Begins(MinuteNow + 1) \in Int
    BY <1>5, Beginnings
  <2>2. dayRunTimer' \in Nat
    BY <1>5, <1>9, <1>10, <2>1
  <2>3. raised' \in [Minutes -> Nat]
    BY <1>2, <1>4
  <2>4. dayPlan' \subseteq Nat
    BY <1>1, <1>2, <1>4
  <2> QED BY <1>2, <1>4, <2>2, <2>3, <2>4 DEF CronTypeOK
<1>12. Ended'
  BY <1>2, <1>6 DEF Ended
<1>13. MinuteNow' = MinuteNow
  BY <1>2 DEF MinuteNow, OsTime
<1>14. \A m \in Minutes : /\ raised'[m] >= raised[m]
                          /\ m \in Due => raised'[m] = raised[m] + 1 /\ raised'[m] > 0
                          /\ m \notin Due => raised'[m] = raised[m]
  BY <1>2, <1>4
<1>15. ASSUME ~overslept, ~Late PROVE InTime'
  <2>1. InTime
    BY <1>15 DEF CronInv
  <2>2. PlanOfDay'
    BY <1>2, <1>6, <1>8, <1>13, <2>1 DEF InTime, PlanOfDay
  <2>3. \A m \in Due : m < midnight
    <3>1. \A m \in dayPlan : m <= midnight
      BY <2>1 DEF InTime, PlanOfDay
    <3>2. \A m \in Due : m <= midnight /\ m # midnight /\ m \in Nat
      BY <1>2, <1>8, <3>1
    <3> QED BY <1>4, <3>2
  <2>4. RaisedInTime'
    <3>1. ASSUME NEW m \in Minutes, raised'[m] > 0 PROVE m <= MinuteNow /\ m < midnight
      <4>1. CASE m \in Due
        BY <1>8, <2>3, <4>1
      <4>2. CASE m \notin Due
        BY <1>14, <2>1, <3>1, <4>2 DEF InTime, RaisedInTime
      <4> QED BY <4>1, <4>2
    <3>2. ASSUME NEW m \in Minutes, raised'[m] > 1 PROVE (m + 1) % Minute = 0
      <4>1. CASE m \in Due
        <5>1. raised[m] > 0
          BY <1>4, <1>14, <3>2, <4>1
        <5>2. m = midnight - 1
          BY <1>8, <2>1, <2>3, <4>1, <5>1 DEF InTime, RaisedInTime
        <5>3. m + 1 = midnight
          BY <1>4, <5>2
        <5> QED BY <2>1, <5>3 DEF InTime, PlanOfDay
      <4>2. CASE m \notin Due
        BY <1>14, <2>1, <3>2, <4>2 DEF InTime, RaisedInTime
      <4> QED BY <4>1, <4>2
    <3>3. ASSUME NEW m \in Minutes, m \in D, m < midnight, raised'[m] > 0
          PROVE  m = midnight - 1
      BY <1>8, <1>14, <2>1, <3>3 DEF InTime, RaisedInTime
    <3> QED BY <1>2, <1>13, <3>1, <3>2, <3>3 DEF RaisedInTime
  <2>5. NoneMissed'
    <3> SUFFICES ASSUME NEW m \in bootMinute .. midnight - 1, m % Minute \in CronMinutes,
                        m \notin D
                 PROVE  m \in Minutes /\ raised'[m] > 0
      BY <1>2 DEF NoneMissed
    <3>1. CASE m \in Due
      <4>1. m \in Minutes
        <5>1. m \in Nat /\ m <= MinuteNow
          BY <1>8, <3>1
        <5>2. \A k \in Nat : k \in Minutes <=> k <= MaxClock \div (Tick * Second)
          <6>1. MaxClock \div (Tick * Second) \in Nat
            BY Units, Quotient
          <6> QED BY <6>1 DEF Minutes
        <5>3. MaxClock \div (Tick * Second) \in Nat
          BY Units, Quotient
        <5> QED BY <1>5, <5>1, <5>2, <5>3
      <4> QED BY <1>14, <3>1, <4>1
    <3>2. CASE m \notin Due
      <4>1. m \notin dayPlan
        BY <1>1, <3>2
      <4> QED BY <1>14, <2>1, <3>2, <4>1 DEF InTime, NoneMissed
    <3> QED BY <3>1, <3>2
  <2>6. Complete'
    BY <1>2 DEF Complete
  <2>7. \A m \in D : dayRunTimer' < Begins(m) + Tick
    <3> SUFFICES ASSUME NEW m \in D PROVE dayRunTimer' < Begins(m) + Tick
      OBVIOUS
    <3>1. m \in Int /\ next <= m
      BY <1>7, <1>8
    <3>2. Begins(next) <= Begins(m) /\ Begins(m) \in Int
      BY <1>9, <3>1, Beginnings, BeginsGrows
    <3> QED BY <1>5, <1>9, <1>10, <3>2, Units
  <2>8. clock - timerNow < Second * Tick - Tick
    <3>1. ~(calling = "timer" /\ clock - dayRunTimer >= Second * Tick - Tick)
      BY <1>15, Units DEF Late
    <3>2. ~(calling = "built" /\ clock - timerNow >= Second * Tick - Tick)
      BY <1>15, Units DEF Late
    <3>3. calling = "timer" => dayRunTimer <= timerNow
      BY <2>1 DEF InTime, Armed
    <3>4. calling \in {"timer", "built"}
      BY <1>2, <1>4 DEF CronTypeOK
    <3>5. Second * Tick \in Nat /\ Tick \in Nat
      BY Units
    <3>6. CASE calling = "timer"
      BY <1>4, <1>5, <3>1, <3>3, <3>5, <3>6
    <3>7. CASE calling = "built"
      BY <1>5, <3>2, <3>5, <3>7
    <3> QED BY <3>4, <3>6, <3>7
  <2>9. dayRunTimer' > Begins(next) - (Second * Tick - Tick)
    <3>1. Second * Tick \in Nat /\ Tick \in Nat
      BY Units
    <3> QED BY <1>5, <1>9, <1>10, <2>8, <3>1
  <2>10. Armed'
    BY <1>2, <1>7, <2>7, <2>9 DEF Armed
  <2> QED BY <2>2, <2>4, <2>5, <2>6, <2>10 DEF InTime
<1> QED BY <1>2, <1>11, <1>12, <1>15 DEF CronInv

(* Who is in time is never past midnight.                                  *)
LEMMA PastMidnightKeeps == ASSUME CronInv, RunPastMidnight PROVE CronInv'
<1>1. /\ calling # "no" /\ dayPlan # {midnight} /\ midnight \in Due
      /\ dayPlan' = {} /\ calling' = "no" /\ overslept' = (overslept \/ Late)
      /\ clock' = clock /\ timerNow' = timerNow /\ midnight' = midnight
      /\ dayRunTimer' = dayRunTimer /\ timerRuns' = timerRuns
      /\ raised' = raised /\ bootMinute' = bootMinute
  BY DEF RunPastMidnight
<1>2. CronTypeOK /\ Ended /\ dayPlan \subseteq Nat /\ midnight \in Nat /\ MinuteNow \in Nat
  BY CronTypes, Now DEF CronInv
<1>3. CronTypeOK'
  BY <1>1, <1>2 DEF CronTypeOK
<1>4. Ended'
  BY <1>1, <1>2 DEF Ended
<1>5. midnight \in dayPlan /\ midnight <= MinuteNow
  BY <1>1 DEF Due
<1>6. overslept \/ Late
  <2> SUFFICES ASSUME ~overslept, ~Late PROVE FALSE
    OBVIOUS
  <2>1. calling = "timer"
    <3>1. calling # "built"
      BY <1>2, <1>5 DEF Late
    <3> QED BY <1>1, <1>2, <3>1 DEF CronTypeOK
  <2>2. PICK n \in dayPlan : /\ \A m \in dayPlan : n <= m
                             /\ n - 1 <= MinuteNow /\ MinuteNow <= n
    BY <2>1, OnTime
  <2>3. \A m \in dayPlan : m <= midnight
    BY DEF CronInv, InTime, PlanOfDay
  <2>4. \A m \in dayPlan : m = midnight
    BY <1>2, <1>5, <2>2, <2>3
  <2> QED BY <1>1, <1>5, <2>4
<1> QED BY <1>1, <1>3, <1>4, <1>6 DEF CronInv

LEMMA PlanStep == ASSUME CronInv, [CronNext]_cronVars PROVE CronInv'
<1>1. CASE UNCHANGED cronVars
  <2>1. /\ clock' = clock /\ timerNow' = timerNow /\ dayPlan' = dayPlan
        /\ midnight' = midnight /\ dayRunTimer' = dayRunTimer /\ timerRuns' = timerRuns
        /\ calling' = calling /\ raised' = raised /\ bootMinute' = bootMinute
        /\ overslept' = overslept
    BY <1>1 DEF cronVars, planVars
  <2>2. MinuteNow' = MinuteNow
    BY <2>1 DEF MinuteNow, OsTime
  <2>3. CronTypeOK' /\ Ended'
    BY <2>1 DEF CronInv, CronTypeOK, Ended
  <2>4. InTime => InTime'
    BY <2>1, <2>2 DEF InTime, PlanOfDay, RaisedInTime, NoneMissed, Armed, Complete
  <2> QED BY <2>1, <2>3, <2>4 DEF CronInv
<1> QED BY <1>1, ElapseKeeps, DispatchKeeps, RebuildKeeps, RunNextKeeps, PastMidnightKeeps
        DEF CronNext

LEMMA PlanInvariant == CronSpec => []CronInv
<1>1. CronInit => CronInv
  BY PlanBegins
<1>2. CronInv /\ [CronNext]_cronVars => CronInv'
  BY PlanStep
<1> QED BY <1>1, <1>2, PTL DEF CronSpec

(* The variables of Crontab keep their types.                              *)
THEOREM CronTypeCorrect == CronSpec => []CronTypeOK
<1>1. CronInv => CronTypeOK
  BY DEF CronInv
<1> QED BY <1>1, PlanInvariant, PTL

(* The plan of the day is kept, unless RunNext was called too late: no     *)
(* event is missed, none raised twice but those of a last minute, and the  *)
(* timer is there.                                                         *)
THEOREM PlansKept == CronSpec => []PlanKept
<1>1. CronInv => PlanKept
  <2> SUFFICES ASSUME CronInv, ~overslept PROVE PlanKept
    BY DEF PlanKept
  <2>1. InTime /\ \A m \in dayPlan : m \in Int
    BY CronTypes DEF CronInv
  <2>2. \A m \in Minutes : raised[m] > 1 => (m + 1) % Minute = 0
    BY <2>1 DEF InTime, RaisedInTime
  <2>3. \A m \in bootMinute .. midnight - 1 :
          m % Minute \in CronMinutes /\ m \notin dayPlan => m \in Minutes /\ raised[m] > 0
    BY <2>1 DEF InTime, NoneMissed
  <2>4. calling = "no" => timerRuns /\ \A m \in dayPlan : dayRunTimer < (m * Second + 1) * Tick
    <3>1. \A m \in dayPlan : (m * Second + 1) * Tick = Begins(m) + Tick
      BY <2>1, Beginnings
    <3> QED BY <2>1, <3>1 DEF InTime, Armed
  <2> QED BY <2>2, <2>3, <2>4 DEF PlanKept
<1> QED BY <1>1, PlanInvariant, PTL
=============================================================================
