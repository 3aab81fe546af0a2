----------------------------- MODULE EagerStore -----------------------------
(***************************************************************************)
(* The database as the modules of the game may take it to be: a call takes *)
(* effect when it is made, and its answer, settled then, comes at any      *)
(* later time, after those of the earlier calls.  While nothing fails and  *)
(* nothing is lost, the steps of DBPipe.tla are steps of this store.       *)
(***************************************************************************)
EXTENDS Naturals, Sequences

CONSTANTS
  Callers,   \* coroutines
  EagerDocs, \* documents
  Versions   \* what a document may be

VARIABLES
  docs, \* the documents, with every call made so far
  owed  \* the answers the callers wait for, oldest first

eagerVars == <<docs, owed>>

EagerInit ==
  /\ docs \in [EagerDocs -> Versions]
  /\ owed = <<>>

Owing(c, ver) == [by |-> c, ver |-> ver]

\* Caller c makes a call while the answers of q are owed.
Makes(c, q) ==
  \E d \in EagerDocs :
    \/ owed' = Append(q, Owing(c, docs[d])) /\ UNCHANGED docs
    \/ \E v \in Versions :
         owed' = Append(q, Owing(c, 0)) /\ docs' = [docs EXCEPT ![d] = v]

Start(c) == (\A k \in DOMAIN owed : owed[k].by # c) /\ Makes(c, owed)

Due(c) == owed # <<>> /\ Head(owed).by = c

Finish(c) == Due(c) /\ owed' = Tail(owed) /\ UNCHANGED docs

GoOn(c) == Due(c) /\ Makes(c, Tail(owed))

EagerNext == \E c \in Callers : Start(c) \/ Finish(c) \/ GoOn(c)
=============================================================================
