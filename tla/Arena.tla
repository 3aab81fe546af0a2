------------------------------- MODULE Arena -------------------------------
(***************************************************************************)
(* The arena: modules/arena/Arena.lua and ArenaSave.lua.  RankList holds   *)
(* an entry for each account by rank, Account2Rank the rank of each        *)
(* account.  A fight swaps two entries in memory; the ranks it touched go  *)
(* into the save queue SQ, whose entries are lists of ranks, those of one  *)
(* swap in one list.  The save timer takes lists off the queue and updates *)
(* one document for each rank, yielding at each of them.                   *)
(*                                                                         *)
(* A position of the queue is counted from SQ.tail.  The fight list and    *)
(* value of an entry are the number of their changes.  Robots are accounts *)
(* like others.                                                            *)
(***************************************************************************)
EXTENDS Integers, Sequences, FiniteSets

CONSTANTS
  Fighters,   \* accounts
  SaveCount,  \* saveCnt of a save by the timer (10)
  MaxFight,   \* bound: changes of a fight list
  MaxStarts   \* bound: starts of the process

ASSUME ArenaAssumption ==
  IsFiniteSet(Fighters) /\ SaveCount \in Nat \ {0} /\ MaxFight \in Nat /\ MaxStarts \in Nat

VARIABLES
  rankList,      \* RankList
  account2Rank,  \* Account2Rank, 0 for nil
  queue,         \* SQ.queue from the tail on
  dirty,         \* SQ.dirty, 0 for nil
  saveCnt,       \* saveCnt of the save that waits for the database ...
  rankArr,       \* ... and what is left of its rankArr
  arenaDoc,      \* the documents of the collection "arena"
  arenaPhase,    \* "runs", or "exits" once GameExit has saved
  nStarts,       \* starts of the process
  torn           \* history: the documents loaded at the last start missed a rank

sq == <<queue, dirty>>
ranks == <<rankList, account2Rank>>
saver == <<saveCnt, rankArr>>
arenaVars == <<ranks, sq, saver, arenaDoc, arenaPhase, nStarts, torn>>

Ranks   == 1 .. Cardinality(Fighters)
Entry   == [account : Fighters, val : 0 .. MaxFight, rank : Ranks]
NoEntry == [account |-> "", val |-> 0, rank |-> 0]
Idle    == -SaveCount - Cardinality(Fighters)

ArenaInit ==
  /\ rankList = << >> /\ account2Rank = [a \in Fighters |-> 0]
  /\ queue = << >> /\ dirty = [r \in Ranks |-> 0]
  /\ saveCnt = Idle /\ rankArr = {}
  /\ arenaDoc = [a \in Fighters |-> NoEntry]
  /\ arenaPhase = "runs" /\ nStarts = 0 /\ torn = FALSE
-----------------------------------------------------------------------------
(* ArenaSave.lua.                                                          *)

Sq(q, d) == [queue |-> q, dirty |-> d]

\* push without a pair.
PushFirst(s, r) ==
  IF s.dirty[r] # 0 THEN s
  ELSE Sq(Append(s.queue, {r}), [s.dirty EXCEPT ![r] = Len(s.queue) + 1])

\* Mutant: the other ranks of the list are forgotten.
PushPairedAlone(s, p, r) ==
  LET to   == s.dirty[p]
      from == s.dirty[r]
  IN  IF from = to THEN s
      ELSE IF from = 0
        THEN Sq([s.queue EXCEPT ![to] = @ \cup {r}], [s.dirty EXCEPT ![r] = to])
        ELSE Sq([s.queue EXCEPT ![to] = @ \cup {r}, ![from] = {}], [s.dirty EXCEPT ![r] = to])

\* push with the pair p: r and all of its list move to the list of p.
PushPaired(s, p, r) ==
  LET to   == s.dirty[p]
      from == s.dirty[r]
  IN  IF from = to THEN s
      ELSE IF from = 0
        THEN Sq([s.queue EXCEPT ![to] = @ \cup {r}], [s.dirty EXCEPT ![r] = to])
        ELSE Sq([s.queue EXCEPT ![to] = @ \cup s.queue[from], ![from] = {}],
                [k \in Ranks |-> IF k \in s.queue[from] THEN to ELSE s.dirty[k]])

SetSq(s) == queue' = s.queue /\ dirty' = s.dirty

\* pop.
Pop ==
  /\ queue' = Tail(queue)
  /\ dirty' = [k \in Ranks |-> IF k \in Head(queue) \/ dirty[k] = 0 THEN 0 ELSE dirty[k] - 1]
-----------------------------------------------------------------------------
(* Arena.lua: ranks.                                                       *)

\* addRank: the entry is inserted at once.
AddRank(a) ==
  /\ arenaPhase = "runs"
  /\ account2Rank[a] = 0 /\ Len(rankList) < Cardinality(Fighters)
  /\ LET n == Len(rankList) + 1
         e == [account |-> a, val |-> 0, rank |-> n]
     IN  /\ rankList' = Append(rankList, e)
         /\ account2Rank' = [account2Rank EXCEPT ![a] = n]
         /\ arenaDoc' = [arenaDoc EXCEPT ![a] = e]
  /\ UNCHANGED <<sq, saver, arenaPhase, nStarts, torn>>

\* Mutant: the entries take their ranks along.
SwappedWithRanks(x, y) == [rankList EXCEPT ![x] = rankList[y], ![y] = rankList[x]]

\* swapRank: the entries change places, Account2Rank those of the accounts found there.
Swapped(x, y) ==
  [rankList EXCEPT ![x] = [rankList[y] EXCEPT !.rank = x], ![y] = [rankList[x] EXCEPT !.rank = y]]

\* Mutant: the ranks are pushed one by one, the upper one only.
RiseRankHalfDirty(a, b) ==
  /\ arenaPhase = "runs"
  /\ LET x == account2Rank[a]
         y == account2Rank[b]
     IN  /\ y # 0 /\ x > y
         /\ LET c == rankList[x].account
                d == rankList[y].account
            IN  account2Rank' = [account2Rank EXCEPT ![c] = account2Rank[d], ![d] = account2Rank[c]]
         /\ rankList' = Swapped(x, y)
         /\ SetSq(PushFirst(Sq(queue, dirty), x))
  /\ UNCHANGED <<saver, arenaDoc, arenaPhase, nStarts, torn>>

\* riseRank: a has won against b, whom it may have been shown when b had another rank.
RiseRank(a, b) ==
  /\ arenaPhase = "runs"
  /\ LET x == account2Rank[a]
         y == account2Rank[b]
     IN  /\ y # 0 /\ x > y
         /\ LET c == rankList[x].account
                d == rankList[y].account
            IN  account2Rank' = [account2Rank EXCEPT ![c] = account2Rank[d], ![d] = account2Rank[c]]
         /\ rankList' = Swapped(x, y)
         /\ SetSq(PushPaired(PushFirst(Sq(queue, dirty), x), x, y))
  /\ UNCHANGED <<saver, arenaDoc, arenaPhase, nStarts, torn>>

\* changeFightList and fightValChange.
ChangeFightList(a) ==
  /\ arenaPhase = "runs" /\ account2Rank[a] # 0
  /\ LET r == account2Rank[a]
     IN  /\ rankList[r].val < MaxFight
         /\ rankList' = [rankList EXCEPT ![r].val = @ + 1]
         /\ SetSq(PushFirst(Sq(queue, dirty), rankList[r].rank))
  /\ UNCHANGED <<account2Rank, saver, arenaDoc, arenaPhase, nStarts, torn>>
-----------------------------------------------------------------------------
(* Arena.lua: saving.                                                      *)

Stored(r) == [arenaDoc EXCEPT ![rankList[r].account] = rankList[r]]

\* The timer's save, and its next round: another list is taken off the queue.
SavePops ==
  /\ saveCnt = Idle \/ (rankArr = {} /\ saveCnt > 0)
  /\ saveCnt = Idle => arenaPhase = "runs"
  /\ queue # << >>
  /\ rankArr' = Head(queue) /\ Pop
  /\ saveCnt' = IF saveCnt = Idle THEN SaveCount ELSE saveCnt
  /\ UNCHANGED <<ranks, arenaDoc, arenaPhase, nStarts, torn>>

\* One DB.Update: the entry that has the rank by now.
SaveRank(r) ==
  /\ saveCnt # Idle /\ r \in rankArr
  /\ arenaDoc' = Stored(r)
  /\ rankArr' = rankArr \ {r} /\ saveCnt' = saveCnt - 1
  /\ UNCHANGED <<ranks, sq, arenaPhase, nStarts, torn>>

SaveEnds ==
  /\ saveCnt # Idle /\ rankArr = {} /\ (saveCnt <= 0 \/ queue = << >>)
  /\ saveCnt' = Idle
  /\ UNCHANGED <<ranks, sq, rankArr, arenaDoc, arenaPhase, nStarts, torn>>

(* GameExit: save(true).  saveCnt is -1, and the loop ends at the first    *)
(* list.  A save that waits goes on until DBTManager is empty.             *)
ArenaExit ==
  /\ arenaPhase = "runs"
  /\ arenaPhase' = "exits"
  /\ IF queue = << >> THEN UNCHANGED <<sq, arenaDoc>>
     ELSE /\ Pop
          /\ arenaDoc' = [a \in Fighters |->
               IF \E r \in Head(queue) : rankList[r].account = a
                 THEN rankList[CHOOSE r \in Head(queue) : rankList[r].account = a]
                 ELSE arenaDoc[a]]
  /\ UNCHANGED <<ranks, saver, nStarts, torn>>

(* The process starts again, after its exit or after a crash: loadDB sorts *)
(* the documents by rank.                                                  *)
ArenaRestart ==
  /\ nStarts < MaxStarts
  /\ arenaPhase = "exits" => saveCnt = Idle
  /\ LET known == {a \in Fighters : arenaDoc[a] # NoEntry}
     IN  \E l \in [1 .. Cardinality(known) -> known] :
           /\ \A i, j \in DOMAIN l : i < j => l[i] # l[j] /\ arenaDoc[l[i]].rank <= arenaDoc[l[j]].rank
           /\ rankList' = [i \in DOMAIN l |-> arenaDoc[l[i]]]
  /\ account2Rank' = [a \in Fighters |-> arenaDoc[a].rank]
  /\ torn' = \E r \in 1 .. Len(rankList') : rankList'[r].rank # r
  /\ queue' = << >> /\ dirty' = [r \in Ranks |-> 0]
  /\ saveCnt' = Idle /\ rankArr' = {}
  /\ arenaPhase' = "runs" /\ nStarts' = nStarts + 1
  /\ UNCHANGED arenaDoc

ArenaNext ==
  \/ \E a \in Fighters : AddRank(a) \/ ChangeFightList(a) \/ \E b \in Fighters : RiseRank(a, b)
  \/ SavePops \/ (\E r \in Ranks : SaveRank(r)) \/ SaveEnds
  \/ ArenaExit \/ ArenaRestart

ArenaSpec == ArenaInit /\ [][ArenaNext]_arenaVars
-----------------------------------------------------------------------------
(* The type invariant.                                                     *)
ArenaTypeOK ==
  /\ Len(rankList) <= Cardinality(Fighters) /\ \A r \in 1 .. Len(rankList) : rankList[r] \in Entry
  /\ account2Rank \in [Fighters -> Ranks \cup {0}]
  /\ \A p \in 1 .. Len(queue) : queue[p] \in SUBSET Ranks
  /\ dirty \in [Ranks -> 0 .. Len(queue)]
  /\ saveCnt \in Idle .. SaveCount /\ rankArr \in SUBSET Ranks
  /\ arenaDoc \in [Fighters -> Entry \cup {NoEntry}]
  /\ arenaPhase \in {"runs", "exits"} /\ nStarts \in 0 .. MaxStarts /\ torn \in BOOLEAN

(* RankList and Account2Rank are inverse to each other and each entry      *)
(* knows its rank, through every swap, unless the documents of the last    *)
(* start were torn.                                                        *)
RankInverse ==
  ~torn =>
    /\ \A r \in 1 .. Len(rankList) : rankList[r].rank = r /\ account2Rank[rankList[r].account] = r
    /\ \A a \in Fighters : account2Rank[a] # 0 =>
         account2Rank[a] <= Len(rankList) /\ rankList[account2Rank[a]].account = a

(* The lists of the save queue share no rank, and SQ.dirty knows where     *)
(* each is, however lists were merged before they were taken (push).       *)
DirtyKnowsList == \A r \in Ranks, p \in 1 .. Len(queue) : r \in queue[p] <=> dirty[r] = p

(* What is not in the database is on its way there: the document of the    *)
(* account at a rank differs from its entry only while the rank is in the  *)
(* queue or in what is left of a save, which reads the list after yields   *)
(* during which ranks were swapped.                                        *)
RankSavedOrDirty ==
  arenaPhase = "runs" /\ ~torn =>
    \A r \in 1 .. Len(rankList) :
      arenaDoc[rankList[r].account] # rankList[r] =>
        dirty[r] # 0 \/ (saveCnt # Idle /\ r \in rankArr)
=============================================================================
