----------------------------- MODULE AdminHttp -----------------------------
(***************************************************************************)
(* The administrator's interface: HttpThread's AdminRequestCB hands a      *)
(* query to the logic thread through one request buffer and waits up to    *)
(* six seconds for one response buffer to fill (HttpThread.cpp).  The      *)
(* logic thread takes the query (Main.cpp HandleHttpPacket) and runs a     *)
(* handler of UrlDispatch.lua in a coroutine, which may wait for the       *)
(* database.                                                               *)
(*                                                                         *)
(* Requests are numbered in the order the HTTP thread serves them; it      *)
(* serves one at a time.  A buffer holds requests instead of text: the     *)
(* request buffer the pieces of 4095 bytes left of one query, the response *)
(* buffer whose answers have been appended.                                *)
(***************************************************************************)
EXTENDS Integers, FiniteSets

CONSTANTS MaxRequest,  \* bound: requests of a run
          MaxPieces    \* bound: pieces of a query

ASSUME AdminAssumption == MaxRequest \in Nat /\ MaxPieces \in Nat

Requests == 1 .. MaxRequest
NoRequest == 0

VARIABLES
  client,   \* how far the HTTP thread is with each request
  size,     \* pieces of each request's query
  got,      \* whose answers each request was sent
  query,    \* g_pHttpReqEvBuf: whose query it holds ...
  left,     \* ... and the pieces left of it
  answers,  \* g_pHttpRespEvBuf
  step,     \* how far HandleHttpPacket is ...
  taken,    \* ... with whose query
  waiting,  \* handlers of each request that wait for the database
  handled   \* pieces handled of each request

buffers == <<query, left, answers>>
adminVars == <<client, size, got, buffers, step, taken, waiting, handled>>

AdminInit ==
  /\ client = [r \in Requests |-> "new"]
  /\ size = [r \in Requests |-> 0]
  /\ got = [r \in Requests |-> {}]
  /\ query = NoRequest /\ left = 0
  /\ answers = {}
  /\ step = "idle" /\ taken = NoRequest
  /\ waiting = [r \in Requests |-> 0]
  /\ handled = [r \in Requests |-> 0]
-----------------------------------------------------------------------------
(* The HTTP thread: AdminRequestCB.                                        *)

\* Mutant: the next request does not wait for the one before.
ServedAnyTime(r) == client[r] = "new"

Served(r) == client[r] = "new" /\ \A q \in Requests : q < r => client[q] \notin {"new", "waits"}

\* Neither GET nor POST, or an address that is not registered.
Refuse(r) ==
  /\ Served(r)
  /\ client' = [client EXCEPT ![r] = "refused"]
  /\ UNCHANGED <<size, got, buffers, step, taken, waiting, handled>>

\* Mutant: the query is added before the buffer is drained.
SubmitThenDrain(r, n) ==
  /\ Served(r)
  /\ client' = [client EXCEPT ![r] = "waits"]
  /\ size' = [size EXCEPT ![r] = n]
  /\ query' = r /\ left' = 0
  /\ UNCHANGED <<got, answers, step, taken, waiting, handled>>

\* The request buffer is drained and takes the query.  The response buffer is not drained.
Submit(r, n) ==
  /\ Served(r)
  /\ client' = [client EXCEPT ![r] = "waits"]
  /\ size' = [size EXCEPT ![r] = n]
  /\ query' = r /\ left' = n
  /\ UNCHANGED <<got, answers, step, taken, waiting, handled>>

\* Mutant: the response buffer keeps what was sent.
ReplyCopies(r) ==
  /\ client[r] = "waits" /\ answers # {}
  /\ got' = [got EXCEPT ![r] = answers]
  /\ client' = [client EXCEPT ![r] = "replied"]
  /\ UNCHANGED <<size, buffers, step, taken, waiting, handled>>

\* evhttp_send_reply moves whatever the response buffer holds.
Reply(r) ==
  /\ client[r] = "waits" /\ answers # {}
  /\ got' = [got EXCEPT ![r] = answers]
  /\ answers' = {}
  /\ client' = [client EXCEPT ![r] = "replied"]
  /\ UNCHANGED <<size, query, left, step, taken, waiting, handled>>

\* 408 after six seconds: the query stays where it is.
Expire(r) ==
  /\ client[r] = "waits"
  /\ client' = [client EXCEPT ![r] = "expired"]
  /\ UNCHANGED <<size, got, buffers, step, taken, waiting, handled>>
-----------------------------------------------------------------------------
(* The logic thread: HandleHttpPacket, HttpReqDispatch, dbDispatch.        *)

TakeQuery ==
  /\ step = "idle" /\ left > 0
  /\ step' = "drain" /\ taken' = query
  /\ left' = left - 1
  /\ handled' = [handled EXCEPT ![query] = @ + 1]
  /\ UNCHANGED <<client, size, got, query, answers, waiting>>

DrainAnswers ==
  /\ step = "drain"
  /\ step' = "call"
  /\ answers' = {}
  /\ UNCHANGED <<client, size, got, query, left, taken, waiting, handled>>

\* _SendHttpResponse: it drains the request buffer, whosever query is there by now.
SendHttpResponse(r) == answers' = answers \cup {r} /\ left' = 0

Returns == step = "call" /\ step' = "idle" /\ taken' = NoRequest

HandlerAnswers ==
  /\ Returns
  /\ SendHttpResponse(taken)
  /\ UNCHANGED <<client, size, got, query, waiting, handled>>

\* The handler raised an error or the query has no pairs: {"code":500}.
HandlerFails ==
  /\ Returns
  /\ answers' = answers \cup {taken}
  /\ UNCHANGED <<client, size, got, query, left, waiting, handled>>

HandlerWaits ==
  /\ Returns
  /\ waiting' = [waiting EXCEPT ![taken] = @ + 1]
  /\ UNCHANGED <<client, size, got, buffers, handled>>

Resumes(r) ==
  /\ step = "idle" /\ waiting[r] > 0
  /\ waiting' = [waiting EXCEPT ![r] = @ - 1]

ResumedAnswers(r) ==
  /\ Resumes(r)
  /\ SendHttpResponse(r)
  /\ UNCHANGED <<client, size, got, query, step, taken, handled>>

(* An error after the database answered: the handler that raised it        *)
(* further down than UrlDispatch gives no answer at all.                   *)
ResumedFails(r) ==
  /\ Resumes(r)
  /\ UNCHANGED <<client, size, got, buffers, step, taken, handled>>

LogicStep ==
  \/ TakeQuery \/ DrainAnswers
  \/ HandlerAnswers \/ HandlerFails \/ HandlerWaits
  \/ \E r \in Requests : ResumedAnswers(r) \/ ResumedFails(r)

AdminNext ==
  \/ LogicStep
  \/ \E r \in Requests :
       Refuse(r) \/ (\E n \in 0 .. MaxPieces : Submit(r, n)) \/ Reply(r) \/ Expire(r)

AdminSpec == AdminInit /\ [][AdminNext]_adminVars

-----------------------------------------------------------------------------
(* The type invariant.                                                     *)
AdminTypeOK ==
  /\ client \in [Requests -> {"new", "refused", "waits", "replied", "expired"}]
  /\ size \in [Requests -> 0 .. MaxPieces]
  /\ got \in [Requests -> SUBSET Requests]
  /\ query \in Requests \cup {NoRequest} /\ left \in 0 .. MaxPieces
  /\ answers \in SUBSET Requests
  /\ step \in {"idle", "drain", "call"} /\ taken \in Requests \cup {NoRequest}
  /\ waiting \in [Requests -> 0 .. MaxPieces]
  /\ handled \in [Requests -> 0 .. MaxPieces]

\* An answer can come after its request is over, or a second one after the first.
Outlived(q) == client[q] = "expired" \/ size[q] > 1

Disturbed(r) == \E q \in Requests : q < r /\ Outlived(q)

(* Whose answer a request is sent (HttpThread.cpp:152): its own, as long   *)
(* as no earlier request expired or had a query of more than 4095 bytes.   *)
(* After one that did, every answer may go one request too far, for good.  *)
StrayExplained ==
  \A r \in Requests : \A q \in got[r] : q = r \/ (q < r /\ Disturbed(r))

(* The answer to a query of one piece is sent to one request at most,      *)
(* however late it is.                                                     *)
SentOnce ==
  \A q, r, s \in Requests : size[q] <= 1 /\ q \in got[r] /\ q \in got[s] => r = s

(* A query is not lost before the logic thread sees it, although           *)
(* _SendHttpResponse drains the request buffer under the other lock        *)
(* (Main.cpp:610): only the late answer of an outlived request can do it.  *)
QueryKept ==
  \A r \in Requests :
    client[r] = "waits" /\ size[r] > 0 /\ handled[r] = 0 =>
      (query = r /\ left > 0) \/ Disturbed(r)
=============================================================================
