----------------------------- MODULE AsyncStore -----------------------------
(***************************************************************************)
(* What the database path promises the coroutines that call it.  Calls     *)
(* take effect one by one in the order in which they were made, each at a  *)
(* point between the call and its answer; the answers come in this order,  *)
(* each to the caller whose call it answers; a find is answered with what  *)
(* the calls before it have left of its document.  A call may fail, and    *)
(* then has no effect.  With Capacity calls ahead of it a call is refused, *)
(* with Capacity answers under way an answer is lost, and the caller waits *)
(* for ever.  DBPipe.tla is shown to implement this specification.         *)
(***************************************************************************)
EXTENDS Naturals, Sequences

CONSTANTS
  Callers,   \* coroutines
  StoreDocs, \* documents
  Versions,  \* what a document may be
  Synced,    \* documents that are also saved synchronously
  Capacity   \* calls and answers under way that are not lost

VARIABLES
  suspended, \* callers that wait for an answer
  line,      \* calls that have not taken effect, oldest first
  replies,   \* answers under way, oldest first
  store      \* the documents

storeVars == <<suspended, line, replies, store>>

StoreCall == [by : Callers, op : {"find", "update"}, doc : StoreDocs, ver : Versions]

StoreInit ==
  /\ suspended = {} /\ line = <<>> /\ replies = <<>>
  /\ store \in [StoreDocs -> Versions]

Offer(q, x, r) == r = Append(q, x) \/ (Len(q) >= Capacity /\ r = q)

Asks(c) == \E x \in StoreCall : x.by = c /\ Offer(line, x, line')

Ask(c) ==
  /\ c \notin suspended
  /\ Asks(c)
  /\ suspended' = suspended \cup {c}
  /\ UNCHANGED <<replies, store>>

\* The oldest call takes effect; a find that succeeds reads its document.
Perform(ok) ==
  /\ line # <<>>
  /\ LET x == Head(line)
     IN  /\ store' = IF ok /\ x.op = "update" THEN [store EXCEPT ![x.doc] = x.ver] ELSE store
         /\ Offer(replies,
                  [by |-> x.by, ok |-> ok,
                   ver |-> IF ok /\ x.op = "find" THEN store[x.doc] ELSE 0], replies')
  /\ line' = Tail(line)
  /\ UNCHANGED suspended

Answered(c) == replies # <<>> /\ Head(replies).by = c /\ replies' = Tail(replies)

Return(c) ==
  /\ c \in suspended /\ Answered(c)
  /\ suspended' = suspended \ {c}
  /\ UNCHANGED <<line, store>>

\* The caller is answered and calls again at once.
AskAgain(c) ==
  /\ c \in suspended /\ Answered(c)
  /\ Asks(c)
  /\ UNCHANGED <<suspended, store>>

SaveNow ==
  /\ store' \in [StoreDocs -> Versions]
  /\ \A d \in StoreDocs \ Synced : store'[d] = store[d]
  /\ UNCHANGED <<suspended, line, replies>>

StoreNext ==
  \/ \E c \in Callers : Ask(c) \/ Return(c) \/ AskAgain(c)
  \/ \E ok \in BOOLEAN : Perform(ok)
  \/ SaveNow

StoreSpec == StoreInit /\ [][StoreNext]_storeVars
=============================================================================
