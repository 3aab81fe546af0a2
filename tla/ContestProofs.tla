--------------------------- MODULE ContestProofs ---------------------------
(***************************************************************************)
(* Proofs about Arena, for every finite set of accounts, every number of   *)
(* fights and of starts, and about Treasure, for every set of players and  *)
(* of mines, every number of handlers and of stays.                        *)
(***************************************************************************)
EXTENDS Arena, Treasure, TLAPS, FiniteSetTheorems, FunctionTheorems, SequenceTheorems

(* Arena: the invariant.  The save queue and its index agree.              *)
Knows(s) ==
  /\ s.queue \in Seq(SUBSET Ranks) /\ s.dirty \in [Ranks -> Nat]
  /\ \A r \in Ranks : s.dirty[r] <= Len(s.queue)
  /\ \A r \in Ranks, p \in 1 .. Len(s.queue) : r \in s.queue[p] <=> s.dirty[r] = p

RanksTyped ==
  /\ rankList \in Seq(Entry) /\ Len(rankList) <= Cardinality(Fighters)
  /\ account2Rank \in [Fighters -> Ranks \cup {0}]
  /\ arenaDoc \in [Fighters -> Entry \cup {NoEntry}]
  /\ saveCnt \in Int /\ rankArr \in SUBSET Ranks
  /\ arenaPhase \in {"runs", "exits"} /\ nStarts \in 0 .. MaxStarts /\ torn \in BOOLEAN

(* Each account has one entry at most, and whoever has one is ranked and   *)
(* has a document.  No rank is beyond the list, even if it is torn.        *)
Listed ==
  /\ \A i, j \in 1 .. Len(rankList) : rankList[i].account = rankList[j].account => i = j
  /\ \A i \in 1 .. Len(rankList) :
       /\ account2Rank[rankList[i].account] # 0
       /\ arenaDoc[rankList[i].account] # NoEntry
       /\ rankList[i].rank <= Len(rankList)

Fits ==
  /\ \A a \in Fighters : account2Rank[a] <= Len(rankList) /\ arenaDoc[a].rank <= Len(rankList)
  /\ \A r \in Ranks : dirty[r] # 0 \/ r \in rankArr => r <= Len(rankList)

Signed == \A a \in Fighters : arenaDoc[a] # NoEntry => arenaDoc[a].account = a

(* A save goes through one list beyond its count at most, so that its      *)
(* count is not the one of a save that has ended.                          *)
Counting ==
  /\ saveCnt = Idle => rankArr = {}
  /\ saveCnt # Idle => saveCnt - Cardinality(rankArr) > Idle /\ saveCnt <= SaveCount

ArenaShape == RanksTyped /\ Knows(Sq(queue, dirty)) /\ Listed /\ Fits /\ Signed /\ Counting

ArenaInv == ArenaShape /\ RankInverse /\ RankSavedOrDirty
-----------------------------------------------------------------------------
(* The save queue.                                                         *)

\* What push does to a queue without the rank, whatever else is in the queue.
LEMMA PushFirstKnows ==
  ASSUME NEW s, Knows(s), s = Sq(s.queue, s.dirty), NEW r \in Ranks
  PROVE  LET t == PushFirst(s, r)
         IN  /\ Knows(t) /\ t = Sq(t.queue, t.dirty)
             /\ \A k \in Ranks : t.dirty[k] # 0 <=> s.dirty[k] # 0 \/ k = r
<1>1. CASE s.dirty[r] # 0
  BY <1>1 DEF PushFirst
<1>2. CASE s.dirty[r] = 0
  <2> DEFINE q == Append(s.queue, {r})
             d == [s.dirty EXCEPT ![r] = Len(s.queue) + 1]
  <2>1. PushFirst(s, r) = Sq(q, d) /\ Sq(q, d).queue = q /\ Sq(q, d).dirty = d
    BY <1>2 DEF PushFirst, Sq
  <2>2. q \in Seq(SUBSET Ranks) /\ Len(q) = Len(s.queue) + 1 /\ d \in [Ranks -> Nat]
    BY DEF Knows
  <2>3. ASSUME NEW k \in Ranks PROVE d[k] <= Len(q) /\ (d[k] # 0 <=> s.dirty[k] # 0 \/ k = r)
    BY <2>2, <2>3 DEF Knows
  <2>4. ASSUME NEW k \in Ranks, NEW p \in 1 .. Len(q) PROVE k \in q[p] <=> d[k] = p
    <3>1. CASE p = Len(s.queue) + 1
      <4>1. q[p] = {r} /\ s.dirty[k] # p
        BY <3>1 DEF Knows
      <4> QED
        BY <3>1, <4>1 DEF Knows
    <3>2. CASE p \in 1 .. Len(s.queue)
      <4>1. q[p] = s.queue[p] /\ (k \in s.queue[p] <=> s.dirty[k] = p)
        BY <3>2 DEF Knows
      <4> QED
        BY <1>2, <3>2, <4>1 DEF Knows
    <3> QED
      BY <2>2, <3>1, <3>2 DEF Knows
  <2> HIDE DEF q, d
  <2> QED
    BY <2>1, <2>2, <2>3, <2>4 DEF Knows
<1> QED
  BY <1>1, <1>2 DEF Knows

LEMMA PushPairedKnows ==
  ASSUME NEW s, Knows(s), s = Sq(s.queue, s.dirty), NEW p \in Ranks, s.dirty[p] # 0,
         NEW r \in Ranks
  PROVE  LET t == PushPaired(s, p, r)
         IN  /\ Knows(t) /\ t = Sq(t.queue, t.dirty)
             /\ \A k \in Ranks : t.dirty[k] # 0 <=> s.dirty[k] # 0 \/ k = r
<1> DEFINE to == s.dirty[p]
           from == s.dirty[r]
<1>0. to \in 1 .. Len(s.queue) /\ from \in 0 .. Len(s.queue)
  BY DEF Knows
<1>1. CASE from = to
  BY <1>1 DEF PushPaired
<1>2. CASE from # to /\ from = 0
  <2> DEFINE q == [s.queue EXCEPT ![to] = @ \cup {r}]
             d == [s.dirty EXCEPT ![r] = to]
  <2>1. PushPaired(s, p, r) = Sq(q, d) /\ Sq(q, d).queue = q /\ Sq(q, d).dirty = d
    BY <1>2 DEF PushPaired, Sq
  <2>2. q \in Seq(SUBSET Ranks) /\ Len(q) = Len(s.queue) /\ d \in [Ranks -> Nat]
    BY <1>0 DEF Knows
  <2>3. ASSUME NEW k \in Ranks PROVE d[k] <= Len(q) /\ (d[k] # 0 <=> s.dirty[k] # 0 \/ k = r)
    BY <1>0, <2>2, <2>3 DEF Knows
  <2>4. ASSUME NEW k \in Ranks, NEW i \in 1 .. Len(q) PROVE k \in q[i] <=> d[k] = i
    BY <1>0, <1>2, <2>2, <2>4 DEF Knows
  <2> HIDE DEF q, d
  <2> QED
    BY <2>1, <2>2, <2>3, <2>4 DEF Knows
<1>3. CASE from # to /\ from # 0
  <2> DEFINE q == [s.queue EXCEPT ![to] = @ \cup s.queue[from], ![from] = {}]
             d == [k \in Ranks |-> IF k \in s.queue[from] THEN to ELSE s.dirty[k]]
  <2>1. PushPaired(s, p, r) = Sq(q, d) /\ Sq(q, d).queue = q /\ Sq(q, d).dirty = d
    BY <1>3 DEF PushPaired, Sq
  <2>2. q \in Seq(SUBSET Ranks) /\ Len(q) = Len(s.queue) /\ d \in [Ranks -> Nat]
    BY <1>0, <1>3 DEF Knows
  <2>3. ASSUME NEW k \in Ranks PROVE d[k] <= Len(q) /\ (d[k] # 0 <=> s.dirty[k] # 0 \/ k = r)
    BY <1>0, <1>3, <2>2, <2>3 DEF Knows
  <2>4. ASSUME NEW k \in Ranks, NEW i \in 1 .. Len(q) PROVE k \in q[i] <=> d[k] = i
    BY <1>0, <1>3, <2>2, <2>4 DEF Knows
  <2> HIDE DEF q, d
  <2> QED
    BY <2>1, <2>2, <2>3, <2>4 DEF Knows
<1> QED
  BY <1>1, <1>2, <1>3 DEF Knows

LEMMA PopKnows ==
  ASSUME Knows(Sq(queue, dirty)), queue # << >>, Pop
  PROVE  /\ Knows(Sq(queue, dirty))' /\ Head(queue) \in SUBSET Ranks
         /\ \A k \in Ranks : dirty'[k] # 0 <=> dirty[k] # 0 /\ k \notin Head(queue)
         /\ \A k \in Head(queue) : dirty[k] # 0
<1>0. /\ queue \in Seq(SUBSET Ranks) /\ dirty \in [Ranks -> Nat]
      /\ \A r \in Ranks : dirty[r] <= Len(queue)
      /\ \A r \in Ranks, p \in 1 .. Len(queue) : r \in queue[p] <=> dirty[r] = p
  BY DEF Knows, Sq
<1>1. Head(queue) = queue[1] /\ Head(queue) \in SUBSET Ranks /\ Len(queue) >= 1
  BY <1>0
<1>2. /\ queue' \in Seq(SUBSET Ranks) /\ Len(queue') = Len(queue) - 1
      /\ \A p \in 1 .. Len(queue') : queue'[p] = queue[p + 1]
  BY <1>0 DEF Pop
<1>3. ASSUME NEW k \in Ranks
      PROVE  /\ k \in Head(queue) <=> dirty[k] = 1
             /\ dirty'[k] \in Nat /\ dirty'[k] <= Len(queue')
             /\ dirty[k] <= 1 => dirty'[k] = 0
             /\ dirty[k] > 1 => dirty'[k] = dirty[k] - 1
  <2>1. k \in Head(queue) <=> dirty[k] = 1
    BY <1>0, <1>1
  <2>2. dirty'[k] = IF k \in Head(queue) \/ dirty[k] = 0 THEN 0 ELSE dirty[k] - 1
    BY DEF Pop
  <2>3. dirty[k] \in Nat /\ dirty[k] <= Len(queue)
    BY <1>0
  <2> QED
    BY <1>0, <1>1, <1>2, <2>1, <2>2, <2>3
<1>4. dirty' \in [Ranks -> Nat]
  <2>1. dirty' = [k \in Ranks |-> dirty'[k]]
    BY DEF Pop
  <2> QED
    BY <1>3, <2>1
<1>5. ASSUME NEW k \in Ranks, NEW p \in 1 .. Len(queue')
      PROVE  k \in queue'[p] <=> dirty'[k] = p
  <2>1. p + 1 \in 1 .. Len(queue) /\ queue'[p] = queue[p + 1]
    BY <1>0, <1>2
  <2>2. k \in queue[p + 1] <=> dirty[k] = p + 1
    BY <1>0, <2>1
  <2> QED
    BY <1>0, <1>3, <2>1, <2>2
<1>6. \A k \in Ranks : dirty'[k] # 0 <=> dirty[k] # 0 /\ k \notin Head(queue)
  BY <1>0, <1>3
<1> QED
  BY <1>1, <1>2, <1>3, <1>4, <1>5, <1>6 DEF Knows, Sq
-----------------------------------------------------------------------------
(* The ranks.                                                              *)

LEMMA RanksCount ==
  /\ Cardinality(Fighters) \in Nat /\ Cardinality({}) = 0
  /\ Idle \in Int /\ Idle = -SaveCount - Cardinality(Fighters) /\ SaveCount \in Nat \ {0}
  /\ \A S \in SUBSET Ranks :
       IsFiniteSet(S) /\ Cardinality(S) \in Nat /\ Cardinality(S) <= Cardinality(Fighters)
<1>1. Cardinality(Fighters) \in Nat
  BY ArenaAssumption, FS_CardinalityType
<1>2. IsFiniteSet(Ranks) /\ Cardinality(Ranks) = Cardinality(Fighters)
  BY <1>1, FS_Interval DEF Ranks
<1>3. ASSUME NEW S \in SUBSET Ranks
      PROVE  IsFiniteSet(S) /\ Cardinality(S) \in Nat /\ Cardinality(S) <= Cardinality(Fighters)
  BY <1>2, FS_Subset, FS_CardinalityType
<1> QED
  BY <1>1, <1>3, ArenaAssumption, FS_EmptySet DEF Idle

LEMMA EntryFields ==
  /\ \A e \in Entry : /\ e.account \in Fighters /\ e.val \in 0 .. MaxFight
                      /\ e.rank \in Ranks /\ e.rank \in Nat /\ e.rank # 0 /\ e # NoEntry
  /\ NoEntry.rank = 0
  /\ \A d \in Entry \cup {NoEntry} : d.rank \in Nat /\ (d.rank = 0 <=> d = NoEntry)
<1>1. NoEntry.rank = 0
  BY DEF NoEntry
<1>2. ASSUME NEW e \in Entry
      PROVE  /\ e.account \in Fighters /\ e.val \in 0 .. MaxFight
             /\ e.rank \in Ranks /\ e.rank \in Nat /\ e.rank # 0
  BY <1>2 DEF Entry, Ranks
<1> QED
  BY <1>1, <1>2

LEMMA AddRankKeeps ==
  ASSUME ArenaInv, NEW a \in Fighters, AddRank(a)
  PROVE  ArenaInv'
<1> DEFINE n == Len(rankList) + 1
           e == [account |-> a, val |-> 0, rank |-> n]
<1>0. /\ RanksTyped /\ Listed /\ Fits /\ Signed /\ Counting /\ Knows(Sq(queue, dirty))
      /\ RankInverse /\ RankSavedOrDirty
  BY DEF ArenaInv, ArenaShape
<1>1. /\ n \in Ranks /\ e \in Entry /\ e # NoEntry /\ Len(rankList) \in Nat
      /\ e.account = a /\ e.rank = n
  <2>1. Len(rankList) \in Nat /\ Len(rankList) < Cardinality(Fighters)
    BY <1>0 DEF AddRank, RanksTyped
  <2>2. n \in Ranks /\ 0 \in 0 .. MaxFight
    BY <2>1, RanksCount, ArenaAssumption DEF Ranks
  <2>3. e \in Entry
    BY <2>2 DEF Entry
  <2>4. e.rank # NoEntry.rank
    BY <2>2 DEF Ranks, NoEntry
  <2> QED
    BY <2>1, <2>2, <2>3, <2>4
<1>2. /\ rankList' = Append(rankList, e) /\ account2Rank' = [account2Rank EXCEPT ![a] = n]
      /\ arenaDoc' = [arenaDoc EXCEPT ![a] = e] /\ account2Rank[a] = 0
      /\ n <= Cardinality(Fighters)
      /\ UNCHANGED <<queue, dirty, saveCnt, rankArr, arenaPhase, nStarts, torn>>
  BY <1>0, RanksCount DEF AddRank, sq, saver, RanksTyped
<1>3. /\ rankList' \in Seq(Entry) /\ Len(rankList') = n /\ rankList'[n] = e
      /\ \A i \in 1 .. Len(rankList) : rankList'[i] = rankList[i] /\ rankList[i] \in Entry
      /\ \A i \in 1 .. n : i = n \/ i \in 1 .. Len(rankList)
  BY <1>0, <1>1, <1>2 DEF RanksTyped
<1>4. \A i \in 1 .. Len(rankList) : rankList[i].account \in Fighters /\ rankList[i].account # a
  BY <1>0, <1>2, <1>3 DEF Listed, Entry
<1>5. \A b \in Fighters : /\ account2Rank'[b] = (IF b = a THEN n ELSE account2Rank[b])
                          /\ arenaDoc'[b] = (IF b = a THEN e ELSE arenaDoc[b])
                          /\ account2Rank[b] \in Nat /\ arenaDoc[b].rank \in Nat
  <2> SUFFICES ASSUME NEW b \in Fighters
               PROVE  /\ account2Rank'[b] = (IF b = a THEN n ELSE account2Rank[b])
                      /\ arenaDoc'[b] = (IF b = a THEN e ELSE arenaDoc[b])
                      /\ account2Rank[b] \in Nat /\ arenaDoc[b].rank \in Nat
    OBVIOUS
  <2>1. arenaDoc[b] \in Entry \cup {NoEntry} /\ account2Rank[b] \in Nat
    BY <1>0 DEF RanksTyped, Ranks
  <2>2. arenaDoc[b].rank \in Nat
    BY <2>1, EntryFields
  <2> QED
    BY <1>0, <1>2, <2>1, <2>2 DEF RanksTyped
<1>6. RanksTyped'
  BY <1>0, <1>1, <1>2, <1>3 DEF RanksTyped
<1>7. Knows(Sq(queue, dirty))' /\ Counting'
  BY <1>0, <1>2 DEF Knows, Sq, Counting
<1> HIDE DEF n, e
<1>8. Listed'
  <2>1. ASSUME NEW i \in 1 .. n, NEW j \in 1 .. n, rankList'[i].account = rankList'[j].account
        PROVE  i = j
    BY <1>0, <1>1, <1>3, <1>4, <2>1 DEF Listed
  <2>2. ASSUME NEW i \in 1 .. n
        PROVE  /\ account2Rank'[rankList'[i].account] # 0
               /\ arenaDoc'[rankList'[i].account] # NoEntry /\ rankList'[i].rank <= n
    <3>1. CASE i = n
      BY <1>1, <1>3, <1>5, <3>1 DEF Ranks
    <3>2. CASE i \in 1 .. Len(rankList)
      <4>1. rankList[i].rank \in Nat /\ rankList[i].rank <= Len(rankList)
        BY <1>0, <1>3, <3>2 DEF Listed, Entry, Ranks
      <4> QED
        BY <1>0, <1>1, <1>3, <1>4, <1>5, <3>2, <4>1 DEF Listed, n
    <3> QED
      BY <1>3, <3>1, <3>2
  <2> QED
    BY <1>3, <2>1, <2>2 DEF Listed
<1>9. Fits'
  <2>1. n = Len(rankList) + 1 /\ \A r \in Ranks : r \in Nat
    BY DEF n, Ranks
  <2> QED
    BY <1>0, <1>1, <1>2, <1>3, <1>5, <2>1 DEF Fits
<1>10. Signed'
  BY <1>0, <1>1, <1>5 DEF Signed
<1>11. RankInverse'
  <2> SUFFICES ASSUME ~torn
               PROVE  /\ \A r \in 1 .. n : /\ rankList'[r].rank = r
                                           /\ account2Rank'[rankList'[r].account] = r
                      /\ \A b \in Fighters : account2Rank'[b] # 0 =>
                           account2Rank'[b] <= n /\ rankList'[account2Rank'[b]].account = b
    BY <1>2, <1>3 DEF RankInverse
  <2>1. ASSUME NEW r \in 1 .. n
        PROVE  rankList'[r].rank = r /\ account2Rank'[rankList'[r].account] = r
    BY <1>0, <1>1, <1>3, <1>4, <1>5 DEF RankInverse
  <2>2. ASSUME NEW b \in Fighters, account2Rank'[b] # 0
        PROVE  account2Rank'[b] <= n /\ rankList'[account2Rank'[b]].account = b
    <3>1. CASE b = a
      BY <1>1, <1>3, <1>5, <3>1 DEF Ranks
    <3>2. CASE b # a
      <4>1. account2Rank[b] \in 1 .. Len(rankList) /\ rankList[account2Rank[b]].account = b
        BY <1>0, <1>1, <1>5, <2>2, <3>2 DEF RankInverse
      <4> QED
        BY <1>1, <1>3, <1>5, <3>2, <4>1 DEF n
    <3> QED
      BY <3>1, <3>2
  <2> QED
    BY <2>1, <2>2
<1>12. RankSavedOrDirty'
  BY <1>0, <1>1, <1>2, <1>3, <1>4, <1>5 DEF RankSavedOrDirty
<1> QED
  BY <1>6, <1>7, <1>8, <1>9, <1>10, <1>11, <1>12 DEF ArenaInv, ArenaShape

LEMMA RiseRankKeeps ==
  ASSUME ArenaInv, NEW a \in Fighters, NEW b \in Fighters, RiseRank(a, b)
  PROVE  ArenaInv'
<1> DEFINE x == account2Rank[a]
           y == account2Rank[b]
           n == Len(rankList)
           c == rankList[x].account
           d == rankList[y].account
<1>0. /\ RanksTyped /\ Listed /\ Fits /\ Signed /\ Counting /\ Knows(Sq(queue, dirty))
      /\ RankInverse /\ RankSavedOrDirty
  BY DEF ArenaInv, ArenaShape
<1>1. /\ n \in Nat /\ x \in 1 .. n /\ y \in 1 .. n /\ x # y /\ x \in Ranks /\ y \in Ranks
      /\ \A i \in 1 .. n : rankList[i] \in Entry
      /\ \A i \in 1 .. n : i \in Ranks
  BY <1>0, RanksCount DEF RiseRank, RanksTyped, Fits, Ranks
<1>2. c \in Fighters /\ d \in Fighters /\ c # d
  BY <1>0, <1>1, EntryFields DEF Listed
<1>3. /\ rankList' = Swapped(x, y)
      /\ account2Rank' = [account2Rank EXCEPT ![c] = account2Rank[d], ![d] = account2Rank[c]]
      /\ SetSq(PushPaired(PushFirst(Sq(queue, dirty), x), x, y))
      /\ UNCHANGED <<saveCnt, rankArr, arenaDoc, arenaPhase, nStarts, torn>>
  BY DEF RiseRank, saver
<1>4. /\ Knows(Sq(queue, dirty))'
      /\ \A k \in Ranks : dirty'[k] # 0 <=> dirty[k] # 0 \/ k = x \/ k = y
  <2> DEFINE s == Sq(queue, dirty)
             t == PushFirst(s, x)
             u == PushPaired(t, x, y)
  <2>1. s = Sq(s.queue, s.dirty) /\ s.dirty = dirty
    BY DEF Sq
  <2>2. /\ Knows(t) /\ t = Sq(t.queue, t.dirty)
        /\ \A k \in Ranks : t.dirty[k] # 0 <=> s.dirty[k] # 0 \/ k = x
    <3> HIDE DEF s
    <3> QED
      BY <1>0, <1>1, <2>1, PushFirstKnows DEF s
  <2>3. /\ Knows(u) /\ u = Sq(u.queue, u.dirty)
        /\ \A k \in Ranks : u.dirty[k] # 0 <=> t.dirty[k] # 0 \/ k = y
    <3> HIDE DEF t
    <3> QED
      BY <1>1, <2>2, PushPairedKnows
  <2>4. queue' = u.queue /\ dirty' = u.dirty
    BY <1>3 DEF SetSq
  <2> HIDE DEF s, t, u
  <2>5. Sq(queue, dirty)' = u
    BY <2>3, <2>4 DEF Sq
  <2> QED
    BY <2>1, <2>2, <2>3, <2>4, <2>5 DEF Knows
<1>5. /\ rankList' \in Seq(Entry) /\ Len(rankList') = n
      /\ \A i \in 1 .. n : i # x /\ i # y => rankList'[i] = rankList[i]
      /\ rankList'[x].account = d /\ rankList'[x].rank = x
      /\ rankList'[y].account = c /\ rankList'[y].rank = y
  <2> DEFINE ex == [rankList[y] EXCEPT !.rank = x]
             ey == [rankList[x] EXCEPT !.rank = y]
  <2>1. ex \in Entry /\ ex.account = d /\ ex.rank = x
    BY <1>1 DEF Entry
  <2>2. ey \in Entry /\ ey.account = c /\ ey.rank = y
    BY <1>1 DEF Entry
  <2>3. rankList' = [rankList EXCEPT ![x] = ex, ![y] = ey] /\ rankList \in Seq(Entry)
    BY <1>0, <1>3 DEF Swapped, RanksTyped
  <2> HIDE DEF ex, ey
  <2> QED
    BY <1>1, <2>1, <2>2, <2>3
<1>6. /\ account2Rank' \in [Fighters -> Ranks \cup {0}]
      /\ \A e \in Fighters : account2Rank'[e] = IF e = d THEN account2Rank[c]
                                                ELSE IF e = c THEN account2Rank[d]
                                                ELSE account2Rank[e]
  BY <1>0, <1>2, <1>3 DEF RanksTyped
<1> HIDE DEF x, y, n, c, d
<1>7. RanksTyped'
  BY <1>0, <1>3, <1>5, <1>6 DEF RanksTyped, n
<1>8. Listed'
  <2>1. \A i \in 1 .. n : rankList'[i].account =
                            (IF i = x THEN d ELSE IF i = y THEN c ELSE rankList[i].account)
    BY <1>1, <1>5
  <2>2. ASSUME NEW i \in 1 .. n, NEW j \in 1 .. n, rankList'[i].account = rankList'[j].account
        PROVE  i = j
    BY <1>0, <1>1, <1>2, <2>1, <2>2 DEF Listed, c, d, n
  <2>3. ASSUME NEW i \in 1 .. n
        PROVE  /\ account2Rank'[rankList'[i].account] # 0
               /\ arenaDoc'[rankList'[i].account] # NoEntry
    <3>1. \A k \in 1 .. n : /\ account2Rank[rankList[k].account] # 0
                            /\ arenaDoc[rankList[k].account] # NoEntry
                            /\ rankList[k].account \in Fighters
      BY <1>0, <1>1, EntryFields DEF Listed, n
    <3>2. /\ account2Rank[c] # 0 /\ account2Rank[d] # 0
          /\ arenaDoc[c] # NoEntry /\ arenaDoc[d] # NoEntry
      BY <1>1, <3>1 DEF c, d
    <3> QED
      BY <1>2, <1>3, <1>6, <2>1, <3>1, <3>2
  <2>4. ASSUME NEW i \in 1 .. n PROVE rankList'[i].rank <= n
    BY <1>0, <1>1, <1>5 DEF Listed, n
  <2> QED
    BY <1>5, <2>2, <2>3, <2>4 DEF Listed
<1>9. Fits' /\ Signed' /\ Counting'
  BY <1>0, <1>1, <1>2, <1>3, <1>4, <1>5, <1>6 DEF Fits, Signed, Counting, n
<1>10. RankInverse'
  <2> SUFFICES ASSUME ~torn PROVE RankInverse'
    BY <1>3 DEF RankInverse
  <2>1. c = a /\ d = b /\ account2Rank[c] = x /\ account2Rank[d] = y
    BY <1>0, <1>1 DEF RankInverse, c, d, x, y
  <2>2. ASSUME NEW i \in 1 .. n
        PROVE  rankList'[i].rank = i /\ account2Rank'[rankList'[i].account] = i
    <3>1. CASE i = x \/ i = y
      BY <1>2, <1>5, <1>6, <2>1, <3>1
    <3>2. CASE i # x /\ i # y
      <4>1. rankList'[i] = rankList[i] /\ rankList[i].rank = i /\ rankList[i].account \in Fighters
            /\ account2Rank[rankList[i].account] = i
        BY <1>0, <1>1, <1>5, <3>2, EntryFields DEF RankInverse, n
      <4> QED
        BY <1>6, <2>1, <3>2, <4>1
    <3> QED
      BY <3>1, <3>2
  <2>3. ASSUME NEW e \in Fighters, account2Rank'[e] # 0
        PROVE  account2Rank'[e] <= n /\ rankList'[account2Rank'[e]].account = e
    <3>1. CASE e = c \/ e = d
      BY <1>1, <1>2, <1>5, <1>6, <2>1, <3>1
    <3>2. CASE e # c /\ e # d
      <4>1. /\ account2Rank'[e] = account2Rank[e] /\ account2Rank[e] \in Nat
            /\ account2Rank[e] <= n /\ rankList[account2Rank[e]].account = e
        BY <1>0, <1>6, <2>3, <3>2 DEF RankInverse, RanksTyped, Ranks, n
      <4>2. account2Rank[e] \in 1 .. n /\ account2Rank[e] # x /\ account2Rank[e] # y
        BY <1>1, <2>3, <3>2, <4>1 DEF c, d
      <4> QED
        BY <1>5, <4>1, <4>2
    <3> QED
      BY <3>1, <3>2
  <2> QED
    BY <1>5, <2>2, <2>3 DEF RankInverse
<1>11. RankSavedOrDirty'
  BY <1>0, <1>1, <1>3, <1>4, <1>5 DEF RankSavedOrDirty, n
<1> QED
  BY <1>4, <1>7, <1>8, <1>9, <1>10, <1>11 DEF ArenaInv, ArenaShape

LEMMA ChangeFightListKeeps ==
  ASSUME ArenaInv, NEW a \in Fighters, ChangeFightList(a)
  PROVE  ArenaInv'
<1> DEFINE r == account2Rank[a]
           n == Len(rankList)
           q == rankList[r].rank
<1>0. /\ RanksTyped /\ Listed /\ Fits /\ Signed /\ Counting /\ Knows(Sq(queue, dirty))
      /\ RankInverse /\ RankSavedOrDirty
  BY DEF ArenaInv, ArenaShape
<1>1. /\ n \in Nat /\ r \in 1 .. n /\ rankList \in Seq(Entry)
      /\ \A i \in 1 .. n : rankList[i] \in Entry /\ i \in Ranks
  BY <1>0, RanksCount DEF ChangeFightList, RanksTyped, Fits, Ranks
<1>2. q \in Ranks /\ q <= n
  BY <1>0, <1>1, EntryFields DEF Listed
<1>3. /\ Knows(Sq(queue, dirty))'
      /\ \A k \in Ranks : dirty'[k] # 0 <=> dirty[k] # 0 \/ k = q
  <2> DEFINE s == Sq(queue, dirty)
             t == PushFirst(s, q)
  <2>1. s = Sq(s.queue, s.dirty) /\ s.dirty = dirty
    BY DEF Sq
  <2>2. queue' = t.queue /\ dirty' = t.dirty
    BY DEF SetSq, ChangeFightList
  <2>3. /\ Knows(t) /\ t = Sq(t.queue, t.dirty)
        /\ \A k \in Ranks : t.dirty[k] # 0 <=> s.dirty[k] # 0 \/ k = q
    <3> HIDE DEF s, q
    <3> QED
      BY <1>0, <1>2, <2>1, PushFirstKnows DEF s
  <2> HIDE DEF s, t
  <2>4. Sq(queue, dirty)' = t
    BY <2>2, <2>3 DEF Sq
  <2> QED
    BY <2>1, <2>2, <2>3, <2>4
<1>4. /\ rankList' \in Seq(Entry) /\ Len(rankList') = n
      /\ \A i \in 1 .. n : i # r => rankList'[i] = rankList[i]
      /\ rankList'[r].account = rankList[r].account /\ rankList'[r].rank = q
  <2> DEFINE e == [rankList[r] EXCEPT !.val = @ + 1]
  <2>1. e \in Entry /\ e.account = rankList[r].account /\ e.rank = q
    <3>1. rankList[r] \in Entry /\ rankList[r].val + 1 \in 0 .. MaxFight
      BY <1>1, EntryFields, ArenaAssumption DEF ChangeFightList
    <3> QED
      BY <3>1 DEF Entry
  <2>2. rankList' = [rankList EXCEPT ![r] = e]
    BY DEF ChangeFightList
  <2> HIDE DEF e, r, q
  <2> QED
    BY <1>1, <2>1, <2>2
<1>5. UNCHANGED <<account2Rank, saveCnt, rankArr, arenaDoc, arenaPhase, nStarts, torn>>
  BY DEF ChangeFightList, saver
<1>6. ~torn => q = r
  BY <1>0, <1>1 DEF RankInverse
<1> HIDE DEF r, q
<1>7. \A i \in 1 .. n : /\ rankList'[i].account = rankList[i].account
                        /\ rankList'[i].rank = rankList[i].rank
  BY <1>1, <1>4 DEF q
<1>8. RanksTyped'
  BY <1>0, <1>4, <1>5 DEF RanksTyped
<1>9. Listed' /\ Fits' /\ Signed' /\ Counting'
  BY <1>0, <1>2, <1>3, <1>4, <1>5, <1>7 DEF Listed, Fits, Signed, Counting
<1>10. RankInverse'
  <2> SUFFICES ASSUME ~torn PROVE RankInverse'
    BY <1>5 DEF RankInverse
  <2>1. \A e \in Fighters : account2Rank[e] # 0 => account2Rank[e] \in 1 .. n
    BY <1>0 DEF RankInverse, RanksTyped, Ranks
  <2> QED
    BY <1>0, <1>4, <1>5, <1>7, <2>1 DEF RankInverse
<1>11. RankSavedOrDirty'
  BY <1>0, <1>1, <1>2, <1>3, <1>4, <1>5, <1>6 DEF RankSavedOrDirty
<1> QED
  BY <1>3, <1>8, <1>9, <1>10, <1>11 DEF ArenaInv, ArenaShape
-----------------------------------------------------------------------------
(* Saving.                                                                 *)

LEMMA SavePopsKeeps == ASSUME ArenaInv, SavePops PROVE ArenaInv'
<1>0. /\ RanksTyped /\ Listed /\ Fits /\ Signed /\ Counting /\ Knows(Sq(queue, dirty))
      /\ RankInverse /\ RankSavedOrDirty
  BY DEF ArenaInv, ArenaShape
<1>1. UNCHANGED <<rankList, account2Rank, arenaDoc, arenaPhase, nStarts, torn>>
  BY DEF SavePops, ranks
<1>2. /\ Knows(Sq(queue, dirty))' /\ rankArr' = Head(queue) /\ rankArr' \in SUBSET Ranks
      /\ \A k \in Ranks : dirty'[k] # 0 <=> dirty[k] # 0 /\ k \notin rankArr'
      /\ \A k \in rankArr' : dirty[k] # 0
  BY <1>0, PopKnows DEF SavePops
<1>3. /\ rankArr = {} /\ saveCnt' > 0 /\ saveCnt' <= SaveCount /\ saveCnt' \in Int
  BY <1>0, RanksCount DEF SavePops, Counting, RanksTyped
<1>4. RanksTyped'
  BY <1>0, <1>1, <1>2, <1>3 DEF RanksTyped
<1>5. saveCnt' # Idle /\ Counting'
  BY <1>2, <1>3, RanksCount DEF Counting
<1>6. Listed' /\ Signed' /\ RankInverse'
  BY <1>0, <1>1 DEF Listed, Signed, RankInverse
<1>7. Fits'
  BY <1>0, <1>1, <1>2 DEF Fits
<1>8. RankSavedOrDirty'
  BY <1>0, <1>1, <1>2, <1>3, <1>5, RanksCount DEF RankSavedOrDirty, RanksTyped, Ranks
<1> QED
  BY <1>2, <1>4, <1>5, <1>6, <1>7, <1>8 DEF ArenaInv, ArenaShape

LEMMA SaveRankKeeps == ASSUME ArenaInv, NEW r \in Ranks, SaveRank(r) PROVE ArenaInv'
<1> DEFINE n == Len(rankList)
           c == rankList[r].account
<1>0. /\ RanksTyped /\ Listed /\ Fits /\ Signed /\ Counting /\ Knows(Sq(queue, dirty))
      /\ RankInverse /\ RankSavedOrDirty
  BY DEF ArenaInv, ArenaShape
<1>1. /\ UNCHANGED <<rankList, account2Rank, queue, dirty, arenaPhase, nStarts, torn>>
      /\ rankArr' = rankArr \ {r} /\ saveCnt' = saveCnt - 1 /\ r \in rankArr
      /\ arenaDoc' = [arenaDoc EXCEPT ![c] = rankList[r]] /\ saveCnt # Idle
  BY DEF SaveRank, ranks, sq, Stored
<1>2. /\ r \in 1 .. n /\ n \in Nat /\ rankList[r] \in Entry /\ c \in Fighters
      /\ rankList[r] # NoEntry /\ rankList[r].rank <= n
      /\ \A i \in 1 .. n : rankList[i].account = c => i = r
  BY <1>0, <1>1, EntryFields DEF RanksTyped, Fits, Listed, Ranks
<1>3. \A a \in Fighters : arenaDoc'[a] = IF a = c THEN rankList[r] ELSE arenaDoc[a]
  BY <1>0, <1>1 DEF RanksTyped
<1>4. RanksTyped'
  BY <1>0, <1>1, <1>2 DEF RanksTyped
<1>5. saveCnt' # Idle /\ Counting'
  <2>1. Cardinality(rankArr') = Cardinality(rankArr) - 1
    BY <1>0, <1>1, RanksCount, FS_RemoveElement DEF RanksTyped
  <2>2. Cardinality(rankArr) \in Nat /\ Cardinality(rankArr') \in Nat /\ saveCnt \in Int
    BY <1>0, <1>4, RanksCount DEF RanksTyped
  <2> QED
    BY <1>0, <1>1, <2>1, <2>2, RanksCount DEF Counting
<1> HIDE DEF n, c
<1>6. Listed' /\ Signed' /\ RankInverse' /\ Knows(Sq(queue, dirty))'
  <2>1. Listed'
    BY <1>0, <1>1, <1>2, <1>3, EntryFields DEF Listed, RanksTyped
  <2>2. Signed'
    BY <1>0, <1>2, <1>3 DEF Signed, c
  <2>3. RankInverse' /\ Knows(Sq(queue, dirty))'
    BY <1>0, <1>1 DEF RankInverse, Knows, Sq
  <2> QED
    BY <2>1, <2>2, <2>3
<1>7. Fits'
  BY <1>0, <1>1, <1>2, <1>3 DEF Fits, n
<1>8. RankSavedOrDirty'
  <2> SUFFICES ASSUME arenaPhase = "runs", ~torn, NEW i \in 1 .. n,
                      arenaDoc'[rankList[i].account] # rankList[i]
               PROVE  dirty[i] # 0 \/ i \in rankArr'
    BY <1>1, <1>5 DEF RankSavedOrDirty, n
  <2>1. i # r
    BY <1>2, <1>3 DEF c
  <2>2. rankList[i].account \in Fighters /\ rankList[i].account # c
    BY <1>0, <1>2, <2>1, EntryFields DEF RanksTyped, n
  <2> QED
    BY <1>0, <1>1, <1>3, <2>1, <2>2 DEF RankSavedOrDirty, n
<1> QED
  BY <1>4, <1>5, <1>6, <1>7, <1>8 DEF ArenaInv, ArenaShape

LEMMA SaveEndsKeeps == ASSUME ArenaInv, SaveEnds PROVE ArenaInv'
<1>1. /\ UNCHANGED <<rankList, account2Rank, queue, dirty, rankArr, arenaDoc, arenaPhase>>
      /\ UNCHANGED <<nStarts, torn>> /\ saveCnt' = Idle /\ rankArr = {} /\ Idle \in Int
  BY RanksCount DEF SaveEnds, ranks, sq
<1>2. RanksTyped' /\ Knows(Sq(queue, dirty))' /\ Listed' /\ Fits' /\ Signed' /\ Counting'
  BY <1>1 DEF ArenaInv, ArenaShape, RanksTyped, Knows, Sq, Listed, Fits, Signed, Counting, Idle
<1>3. RankInverse' /\ RankSavedOrDirty'
  BY <1>1 DEF ArenaInv, RankInverse, RankSavedOrDirty
<1> QED
  BY <1>2, <1>3 DEF ArenaInv, ArenaShape

LEMMA ArenaExitKeeps == ASSUME ArenaInv, ArenaExit PROVE ArenaInv'
<1>0. /\ RanksTyped /\ Listed /\ Fits /\ Signed /\ Counting /\ Knows(Sq(queue, dirty))
      /\ RankInverse /\ RankSavedOrDirty
  BY DEF ArenaInv, ArenaShape
<1>1. /\ UNCHANGED <<rankList, account2Rank, saveCnt, rankArr, nStarts, torn>>
      /\ arenaPhase' = "exits"
  BY DEF ArenaExit, ranks, saver
<1>2. /\ Knows(Sq(queue, dirty))'
      /\ \A k \in Ranks : dirty'[k] # 0 => dirty[k] # 0
      /\ queue # << >> => Head(queue) \in SUBSET Ranks /\ \A k \in Head(queue) : dirty[k] # 0
  <2>1. CASE queue = << >>
    BY <1>0, <2>1 DEF ArenaExit, sq, Knows, Sq
  <2>2. CASE queue # << >>
    BY <1>0, <2>2, PopKnows DEF ArenaExit
  <2> QED
    BY <2>1, <2>2
<1>3. /\ arenaDoc' = [a \in Fighters |-> arenaDoc'[a]]
      /\ \A a \in Fighters :
           \/ arenaDoc'[a] = arenaDoc[a]
           \/ \E r \in 1 .. Len(rankList) : rankList[r].account = a /\ arenaDoc'[a] = rankList[r]
  <2>1. CASE queue = << >>
    BY <1>0, <2>1 DEF ArenaExit, RanksTyped
  <2>2. CASE queue # << >>
    <3>1. arenaDoc' = [a \in Fighters |->
               IF \E r \in Head(queue) : rankList[r].account = a
                 THEN rankList[CHOOSE r \in Head(queue) : rankList[r].account = a]
                 ELSE arenaDoc[a]]
      BY <2>2 DEF ArenaExit
    <3>2. \A r \in Head(queue) : r \in 1 .. Len(rankList)
      BY <1>0, <1>2, <2>2 DEF Fits, RanksTyped, Ranks
    <3> QED
      BY <3>1, <3>2
  <2> QED
    BY <2>1, <2>2
<1>4. \A r \in 1 .. Len(rankList) :
        /\ rankList[r] \in Entry /\ rankList[r] # NoEntry /\ rankList[r].rank <= Len(rankList)
        /\ rankList[r].account \in Fighters
  BY <1>0, EntryFields DEF RanksTyped, Listed
<1>5. RanksTyped'
  BY <1>0, <1>1, <1>3, <1>4 DEF RanksTyped
<1>6. Listed' /\ Signed' /\ Fits' /\ Counting'
  BY <1>0, <1>1, <1>2, <1>3, <1>4 DEF Listed, Signed, Fits, Counting
<1>7. RankInverse' /\ RankSavedOrDirty'
  BY <1>0, <1>1 DEF RankInverse, RankSavedOrDirty
<1> QED
  BY <1>2, <1>5, <1>6, <1>7 DEF ArenaInv, ArenaShape

LEMMA IntervalCount == ASSUME NEW k \in Nat PROVE Cardinality(1 .. k) = k
  BY FS_Interval

LEMMA ArenaRestartKeeps == ASSUME ArenaInv, ArenaRestart PROVE ArenaInv'
<1> DEFINE known == {a \in Fighters : arenaDoc[a] # NoEntry}
           m == Cardinality(known)
           n == Len(rankList)
<1>0. RanksTyped /\ Listed /\ Fits /\ Signed
  BY DEF ArenaInv, ArenaShape
<1>1. /\ IsFiniteSet(known) /\ m \in Nat /\ m <= Cardinality(Fighters) /\ n \in Nat
  BY <1>0, ArenaAssumption, FS_Subset, FS_CardinalityType DEF RanksTyped
<1>2. PICK l \in [1 .. m -> known] :
        /\ \A i, j \in DOMAIN l : i < j => l[i] # l[j] /\ arenaDoc[l[i]].rank <= arenaDoc[l[j]].rank
        /\ rankList' = [i \in DOMAIN l |-> arenaDoc[l[i]]]
  BY DEF ArenaRestart
<1>3. /\ account2Rank' = [a \in Fighters |-> arenaDoc[a].rank]
      /\ torn' = (\E r \in 1 .. Len(rankList') : rankList'[r].rank # r)
      /\ queue' = << >> /\ dirty' = [r \in Ranks |-> 0]
      /\ saveCnt' = Idle /\ rankArr' = {}
      /\ arenaPhase' = "runs" /\ nStarts' \in 0 .. MaxStarts /\ arenaDoc' = arenaDoc
  BY <1>0, ArenaAssumption DEF ArenaRestart, RanksTyped
<1>4. n <= m
  <2> DEFINE f == [i \in 1 .. n |-> rankList[i].account]
  <2>1. f \in Injection(1 .. n, known)
    <3>1. \A i \in 1 .. n : rankList[i].account \in known
      BY <1>0, EntryFields DEF RanksTyped, Listed
    <3> QED
      BY <1>0, <3>1 DEF Listed, Injection, IsInjective
  <2>2. Cardinality(1 .. n) <= m
    <3> HIDE DEF f, n, known
    <3> QED
      BY <1>1, <2>1, FS_Injection
  <2>3. Cardinality(1 .. n) = n
    BY <1>1, IntervalCount
  <2> QED
    BY <2>2, <2>3
<1>5. \A a \in known : \E i \in 1 .. m : l[i] = a
  <2>1. l \in Injection(1 .. m, known)
    BY <1>1, <1>2 DEF Injection, IsInjective
  <2>2. Cardinality(1 .. m) = m
    BY <1>1, IntervalCount
  <2>3. l \in Surjection(1 .. m, known)
    BY <1>1, <2>1, <2>2, FS_Injection
  <2> QED
    BY <2>3 DEF Surjection
<1>6. /\ rankList' \in Seq(Entry) /\ Len(rankList') = m
      /\ \A i \in 1 .. m : rankList'[i] = arenaDoc[l[i]] /\ l[i] \in known /\ rankList'[i] \in Entry
  <2>1. \A i \in 1 .. m : l[i] \in known /\ arenaDoc[l[i]] \in Entry
    BY <1>0, <1>2 DEF RanksTyped
  <2>2. rankList' = [i \in 1 .. m |-> arenaDoc[l[i]]]
    BY <1>2
  <2> HIDE DEF m, known
  <2> QED
    BY <1>1, <2>1, <2>2
<1>7. \A i \in 1 .. m : /\ rankList'[i].account = l[i] /\ rankList'[i].rank \in Nat \ {0}
                        /\ rankList'[i].rank <= m
                        /\ arenaDoc[l[i]].rank = rankList'[i].rank
                        /\ account2Rank'[l[i]] = rankList'[i].rank
  <2> SUFFICES ASSUME NEW i \in 1 .. m
               PROVE  /\ rankList'[i].account = l[i] /\ rankList'[i].rank \in Nat \ {0}
                      /\ rankList'[i].rank <= m
                      /\ arenaDoc[l[i]].rank = rankList'[i].rank
                      /\ account2Rank'[l[i]] = rankList'[i].rank
    OBVIOUS
  <2>1. l[i] \in Fighters /\ arenaDoc[l[i]] # NoEntry /\ rankList'[i] = arenaDoc[l[i]]
    BY <1>6
  <2>2. arenaDoc[l[i]].rank \in Nat \ {0} /\ arenaDoc[l[i]].rank <= n
    BY <1>0, <1>6, <2>1, EntryFields DEF Fits
  <2> QED
    BY <1>0, <1>1, <1>3, <1>4, <2>1, <2>2 DEF Signed
<1>8. \A a \in Fighters : /\ account2Rank'[a] = arenaDoc[a].rank
                          /\ arenaDoc[a].rank \in Nat /\ arenaDoc[a].rank <= m
                          /\ arenaDoc[a].rank # 0 => a \in known
  <2>1. \A a \in Fighters : arenaDoc[a].rank \in Nat /\ (arenaDoc[a].rank # 0 => a \in known)
    BY <1>0, EntryFields DEF RanksTyped
  <2> QED
    BY <1>0, <1>1, <1>3, <1>4, <2>1 DEF Fits
<1> HIDE DEF m, n, known
<1>9. RanksTyped'
  <2>1. \A a \in Fighters : arenaDoc[a].rank \in Ranks \cup {0}
    BY <1>1, <1>8, RanksCount DEF Ranks
  <2>2. account2Rank' \in [Fighters -> Ranks \cup {0}]
    BY <1>3, <2>1
  <2> QED
    BY <1>0, <1>1, <1>3, <1>6, <2>2, RanksCount DEF RanksTyped
<1>10. Knows(Sq(queue, dirty))'
  BY <1>3 DEF Knows, Sq, Ranks
<1>11. Listed'
  <2>1. \A i, j \in 1 .. m : l[i] = l[j] => i = j
    BY <1>1, <1>2
  <2>2. \A i \in 1 .. m : arenaDoc[l[i]] # NoEntry /\ account2Rank'[l[i]] # 0
    BY <1>6, <1>7 DEF known
  <2>3. \A i \in 1 .. m : /\ account2Rank'[rankList'[i].account] # 0
                          /\ arenaDoc'[rankList'[i].account] # NoEntry
                          /\ rankList'[i].rank <= m
    BY <1>3, <1>7, <2>2
  <2>4. \A i, j \in 1 .. m : rankList'[i].account = rankList'[j].account => i = j
    BY <1>7, <2>1
  <2> QED
    BY <1>6, <2>3, <2>4 DEF Listed
<1>12. Fits' /\ Signed' /\ Counting'
  BY <1>0, <1>3, <1>6, <1>8 DEF Fits, Signed, Counting
<1>13. RankInverse'
  <2> SUFFICES ASSUME ~torn' PROVE RankInverse'
    BY DEF RankInverse
  <2>1. \A i \in 1 .. m : rankList'[i].rank = i
    BY <1>3, <1>6
  <2>2. ASSUME NEW a \in Fighters, account2Rank'[a] # 0
        PROVE  account2Rank'[a] <= m /\ rankList'[account2Rank'[a]].account = a
    <3>1. PICK i \in 1 .. m : l[i] = a
      BY <1>5, <1>8, <2>2
    <3>2. account2Rank'[a] = i
      BY <1>7, <2>1, <3>1
    <3> QED
      BY <1>1, <1>7, <3>1, <3>2
  <2> QED
    BY <1>6, <1>7, <2>1, <2>2 DEF RankInverse
<1>14. RankSavedOrDirty'
  <2>1. \A i \in 1 .. m : arenaDoc'[rankList'[i].account] = rankList'[i]
    <3> SUFFICES ASSUME NEW i \in 1 .. m PROVE arenaDoc'[rankList'[i].account] = rankList'[i]
      OBVIOUS
    <3>1. rankList'[i].account = l[i] /\ rankList'[i] = arenaDoc[l[i]]
      BY <1>6, <1>7
    <3> QED
      BY <1>3, <3>1
  <2> QED
    BY <1>6, <2>1 DEF RankSavedOrDirty
<1> QED
  BY <1>9, <1>10, <1>11, <1>12, <1>13, <1>14 DEF ArenaInv, ArenaShape
-----------------------------------------------------------------------------
LEMMA ArenaInvariant == ArenaSpec => []ArenaInv
<1>1. ArenaInit => ArenaInv
  <2> SUFFICES ASSUME ArenaInit PROVE ArenaInv
    OBVIOUS
  <2>1. \A r \in Ranks : r \in Nat
    BY DEF Ranks
  <2>2. RanksTyped /\ Knows(Sq(queue, dirty))
    <3>1. rankList \in Seq(Entry) /\ Len(rankList) = 0 /\ queue \in Seq(SUBSET Ranks)
      BY DEF ArenaInit
    <3>2. account2Rank \in [Fighters -> Ranks \cup {0}]
      BY DEF ArenaInit
    <3>3. arenaDoc \in [Fighters -> Entry \cup {NoEntry}]
      BY DEF ArenaInit
    <3>4. saveCnt \in Int /\ rankArr \in SUBSET Ranks /\ nStarts \in 0 .. MaxStarts
      BY RanksCount, ArenaAssumption DEF ArenaInit
    <3>5. RanksTyped
      BY <3>1, <3>2, <3>3, <3>4, RanksCount DEF ArenaInit, RanksTyped
    <3>6. Knows(Sq(queue, dirty))
      BY <3>1 DEF ArenaInit, Knows, Sq, Ranks
    <3> QED
      BY <3>5, <3>6
  <2>3. Listed /\ Fits /\ Signed /\ Counting
    BY <2>1, EntryFields DEF ArenaInit, Listed, Fits, Signed, Counting
  <2>4. RankInverse /\ RankSavedOrDirty
    BY DEF ArenaInit, RankInverse, RankSavedOrDirty
  <2> QED
    BY <2>2, <2>3, <2>4 DEF ArenaInv, ArenaShape
<1>2. ArenaInv /\ [ArenaNext]_arenaVars => ArenaInv'
  <2> SUFFICES ASSUME ArenaInv, [ArenaNext]_arenaVars PROVE ArenaInv'
    OBVIOUS
  <2>1. CASE UNCHANGED arenaVars
    <3>1. /\ rankList' = rankList /\ account2Rank' = account2Rank /\ queue' = queue
          /\ dirty' = dirty /\ saveCnt' = saveCnt /\ rankArr' = rankArr
          /\ arenaDoc' = arenaDoc /\ arenaPhase' = arenaPhase /\ nStarts' = nStarts
          /\ torn' = torn
      BY <2>1 DEF arenaVars, ranks, sq, saver
    <3>2. RanksTyped' /\ Knows(Sq(queue, dirty))'
      BY <3>1 DEF ArenaInv, ArenaShape, RanksTyped, Knows, Sq
    <3>3. Listed' /\ Fits' /\ Signed' /\ Counting'
      BY <3>1 DEF ArenaInv, ArenaShape, Listed, Fits, Signed, Counting
    <3>4. RankInverse' /\ RankSavedOrDirty'
      BY <3>1 DEF ArenaInv, RankInverse, RankSavedOrDirty
    <3> QED
      BY <3>2, <3>3, <3>4 DEF ArenaInv, ArenaShape
  <2> QED
    BY <2>1, AddRankKeeps, ChangeFightListKeeps, RiseRankKeeps, SavePopsKeeps, SaveRankKeeps,
       SaveEndsKeeps, ArenaExitKeeps, ArenaRestartKeeps DEF ArenaNext
<1> QED
  BY <1>1, <1>2, PTL DEF ArenaSpec

(* The type invariant, for every number of accounts.                       *)
THEOREM ArenaTypeCorrect == ArenaSpec => []ArenaTypeOK
<1>1. ArenaInv => ArenaTypeOK
  <2> SUFFICES ASSUME ArenaInv PROVE ArenaTypeOK
    OBVIOUS
  <2>1. RanksTyped /\ Knows(Sq(queue, dirty)) /\ Counting
    BY DEF ArenaInv, ArenaShape
  <2>2. dirty \in [Ranks -> 0 .. Len(queue)]
    BY <2>1 DEF Knows, Sq
  <2>3. saveCnt \in Idle .. SaveCount
    <3>1. Cardinality(rankArr) \in Nat /\ saveCnt \in Int
      BY <2>1, RanksCount DEF RanksTyped
    <3> QED
      BY <2>1, <3>1, RanksCount DEF Counting
  <2> QED
    BY <2>1, <2>2, <2>3 DEF ArenaTypeOK, RanksTyped, Knows, Sq
<1> QED
  BY <1>1, ArenaInvariant, PTL

(* RankList and Account2Rank stay inverse to each other through every      *)
(* swap (Arena.lua swapRank), unless a start found torn documents.         *)
THEOREM RanksInverse == ArenaSpec => []RankInverse
<1>1. ArenaInv => RankInverse
  BY DEF ArenaInv
<1> QED
  BY <1>1, ArenaInvariant, PTL

(* SQ.dirty knows the list of each rank, however many lists were merged    *)
(* (ArenaSave.lua push).                                                   *)
THEOREM DirtyAlwaysKnows == ArenaSpec => []DirtyKnowsList
<1>1. ArenaInv => DirtyKnowsList
  BY DEF ArenaInv, ArenaShape, Knows, Sq, DirtyKnowsList
<1> QED
  BY <1>1, ArenaInvariant, PTL

(* An entry that differs from its document is on its way to the database,  *)
(* for every list of accounts and every count of a save.                   *)
THEOREM RanksSavedOrDirty == ArenaSpec => []RankSavedOrDirty
<1>1. ArenaInv => RankSavedOrDirty
  BY DEF ArenaInv
<1> QED
  BY <1>1, ArenaInvariant, PTL
-----------------------------------------------------------------------------
(* Treasure: the types.                                                    *)
Mine == [account : Miners \cup {Nobody}, status : {"idle", "occupying"}, stay : Stays \cup {0},
         earns : BOOLEAN, over : BOOLEAN, reward : BOOLEAN]
Call == [at : {"idle", "win", "load", "mail"}, mine : Mines \cup {Nobody},
         for : {"", "update", "abandon", "occupy"}, who : Miners \cup {Nobody}]

MinesTyped ==
  /\ mine \in [Mines -> Mine] /\ prepared \in [Miners -> Miners \cup {Nobody}]
  /\ call \in [Calls -> Call]
  /\ \A c \in Calls : /\ call[c].at # "idle" => call[c].mine \in Mines
                      /\ call[c].for = "occupy" => call[c].who \in Miners
                      /\ call[c].at = "win" => call[c].for = "occupy"
  /\ stayOf \in [Stays -> Miners \cup {Nobody}] /\ paid \in [Stays -> Nat]
  /\ cleared \in SUBSET Stays /\ mixed \in SUBSET Stays

(* A mine is held by the player of its stay, and a stay is on one mine.    *)
Held ==
  \A m \in Mines :
    /\ mine[m].stay = 0 <=> mine[m].account = Nobody
    /\ mine[m].stay # 0 => mine[m].account = stayOf[mine[m].stay]
    /\ \A k \in Mines : mine[m].stay # 0 /\ mine[m].stay = mine[k].stay => m = k

Fresh == \A s \in Stays : stayOf[s] = Nobody => paid[s] = 0

(* A handler that is alone at a mine knows what happens to it: nobody      *)
(* gives more time to what it ends, and it clears what it has paid.        *)
At(c, m) == call[c].at # "idle" /\ call[c].mine = m

Alone(m) ==
  /\ \A c, d \in Calls : At(c, m) /\ At(d, m) => c = d
  /\ paid[mine[m].stay] = 0 \/ \E c \in Calls : At(c, m) /\ call[c].at = "mail"
  /\ \A c \in Calls : At(c, m) =>
       /\ call[c].at = "mail" => mine[m].over /\ paid[mine[m].stay] # 0
       /\ call[c].at = "load" /\ call[c].for = "abandon" => mine[m].over

Watched(m) == mine[m].stay # 0 /\ mine[m].stay \notin mixed

TreasureInv ==
  /\ MinesTyped /\ Held /\ Fresh
  /\ \A m \in Mines : Watched(m) => Alone(m)
  /\ PaidExactly
-----------------------------------------------------------------------------
(* Nobody is no player.                                                    *)
LEMMA NobodyIsNone == \A p \in Miners : p # Nobody
  BY TreasureAssumption DEF Nobody

(* The fields of a mine and of a handler.                                  *)
LEMMA Fields ==
  ASSUME MinesTyped
  PROVE  /\ \A m \in Mines : /\ mine[m] \in Mine /\ mine[m].account \in Miners \cup {Nobody}
                             /\ mine[m].stay \in Stays \cup {0} /\ mine[m].over \in BOOLEAN
                             /\ mine[m].earns \in BOOLEAN /\ mine[m].reward \in BOOLEAN
                             /\ mine[m].status \in {"idle", "occupying"}
         /\ \A c \in Calls : /\ call[c].at \in {"idle", "win", "load", "mail"}
                             /\ call[c].at # "idle" => call[c].mine \in Mines
                             /\ call[c].for = "occupy" => call[c].who \in Miners
         /\ EmptyMine \in Mine /\ NoCall \in Call /\ 0 \notin Stays
<1>1. ASSUME NEW x \in Mine
      PROVE  /\ x.account \in Miners \cup {Nobody} /\ x.stay \in Stays \cup {0}
             /\ x.over \in BOOLEAN /\ x.earns \in BOOLEAN /\ x.reward \in BOOLEAN
             /\ x.status \in {"idle", "occupying"}
  BY <1>1 DEF Mine
<1>2. ASSUME NEW c \in Calls PROVE call[c].at \in {"idle", "win", "load", "mail"}
  BY <1>2 DEF MinesTyped, Call
<1>3. EmptyMine \in Mine
  BY DEF EmptyMine, Mine
<1>4. NoCall \in Call
  BY DEF NoCall, Call
<1> QED
  BY <1>1, <1>2, <1>3, <1>4 DEF MinesTyped, Stays

LEMMA NoCallFields == NoCall.at = "idle" /\ NoCall.for = ""
  BY DEF NoCall

(* What happens elsewhere does not concern a mine.                         *)
LEMMA OthersKept ==
  ASSUME MinesTyped, NEW k \in Mines, Watched(k) => Alone(k), Watched(k)',
         mine'[k].stay = mine[k].stay, mine'[k].over = mine[k].over, mixed \subseteq mixed',
         paid'[mine[k].stay] = paid[mine[k].stay],
         \A d \in Calls : call'[d] = call[d] \/ ~(At(d, k) \/ At(d, k)')
  PROVE  Alone(k)'
<1>1. Watched(k) /\ Alone(k)
  BY DEF Watched
<1>2. \A d \in Calls : At(d, k)' <=> At(d, k)
  BY DEF At
<1>3. \A d \in Calls : At(d, k) => call'[d] = call[d]
  OBVIOUS
<1> QED
  BY <1>1, <1>2, <1>3 DEF Alone

(* Nothing but the status of a mine changes, or its time passes.           *)
LEMMA EditKeeps ==
  ASSUME TreasureInv, NEW m \in Mines, NEW x \in Mine, x.account = mine[m].account,
         x.stay = mine[m].stay, mine[m].over => x.over,
         mine' = [mine EXCEPT ![m] = x], UNCHANGED <<call, history>>, MinesTyped'
  PROVE  TreasureInv'
<1>1. /\ MinesTyped /\ Held /\ Fresh /\ PaidExactly
      /\ \A k \in Mines : Watched(k) => Alone(k)
  BY DEF TreasureInv
<1>2. \A k \in Mines : /\ mine'[k].account = mine[k].account /\ mine'[k].stay = mine[k].stay
                       /\ mine[k].over => mine'[k].over
  BY <1>1 DEF MinesTyped
<1>3. UNCHANGED <<call, stayOf, paid, cleared, mixed>>
  BY DEF history
<1>4. Held' /\ Fresh' /\ PaidExactly'
  BY <1>1, <1>2, <1>3 DEF Held, Fresh, PaidExactly, PaidOnce, ClearedIsPaid
<1>5. ASSUME NEW k \in Mines, Watched(k)' PROVE Alone(k)'
  <2>1. Watched(k) /\ Alone(k)
    BY <1>1, <1>2, <1>3, <1>5 DEF Watched
  <2> QED
    BY <1>2, <1>3, <2>1 DEF Alone, At
<1> QED
  BY <1>4, <1>5 DEF TreasureInv

LEMMA EditsKeep ==
  ASSUME TreasureInv, NEW m \in Mines,
         \/ GiveUp(m) \/ Cycle(m) \/ TimeIsOver(m)
         \/ \E s \in {"idle", "occupying"} : SetStatus(m, s)
         \/ \E p \in Miners : StartOccupy(p, m)
  PROVE  TreasureInv'
<1>1. MinesTyped
  BY DEF TreasureInv
<1>2. PICK x \in Mine :
        /\ x.account = mine[m].account /\ x.stay = mine[m].stay /\ (mine[m].over => x.over)
        /\ mine' = [mine EXCEPT ![m] = x] /\ UNCHANGED <<prepared, call, history>>
  <2>1. mine[m] \in Mine /\ mine \in [Mines -> Mine]
    BY <1>1 DEF MinesTyped
  <2> DEFINE y(st) == [mine[m] EXCEPT !.status = st]
             e == [mine[m] EXCEPT !.earns = TRUE]
             o == [mine[m] EXCEPT !.over = TRUE]
  <2>2. /\ y("idle") \in Mine /\ y("occupying") \in Mine /\ e \in Mine /\ o \in Mine
        /\ \A x \in {y("idle"), y("occupying"), e, o} :
             x.account = mine[m].account /\ x.stay = mine[m].stay /\ (mine[m].over => x.over)
    BY <2>1 DEF Mine
  <2>3. \E x \in {y("idle"), y("occupying"), e, o} :
          mine' = [mine EXCEPT ![m] = x] /\ UNCHANGED <<prepared, call, history>>
    BY <2>1 DEF GiveUp, Cycle, TimeIsOver, SetStatus, StartOccupy
  <2> HIDE DEF y, e, o
  <2> QED
    BY <2>2, <2>3
<1>3. MinesTyped'
  BY <1>1, <1>2 DEF MinesTyped, history
<1> QED
  BY <1>2, <1>3, EditKeeps

LEMMA PrepareKeeps ==
  ASSUME TreasureInv, NEW p \in Miners, NEW m \in Mines, PrepareOccupy(p, m)
  PROVE  TreasureInv'
<1>1. /\ UNCHANGED <<mine, call, stayOf, paid, cleared, mixed>>
      /\ prepared' \in [Miners -> Miners \cup {Nobody}]
  BY Fields DEF PrepareOccupy, history, TreasureInv, MinesTyped
<1> QED
  BY <1>1 DEF TreasureInv, MinesTyped, Held, Fresh, PaidExactly, PaidOnce, ClearedIsPaid, Watched, Alone,
     At

\* More time: a handler that waits at the mine is no longer watched.
LEMMA ExtendKeeps == ASSUME TreasureInv, NEW m \in Mines, Extend(m) PROVE TreasureInv'
<1>1. /\ MinesTyped /\ Held /\ Fresh /\ PaidExactly
      /\ \A k \in Mines : Watched(k) => Alone(k)
  BY DEF TreasureInv
<1>2. /\ UNCHANGED <<prepared, call, stayOf, paid, cleared>>
      /\ mine' = [mine EXCEPT ![m] = [mine[m] EXCEPT !.over = FALSE]]
      /\ mixed' = IF InCall(m) /\ mine[m].stay # 0 THEN mixed \cup {mine[m].stay} ELSE mixed
  BY DEF Extend, Mixes
<1>3. mixed \subseteq mixed' /\ mixed' \in SUBSET Stays
  BY <1>1, <1>2, Fields DEF MinesTyped
<1>4. [mine[m] EXCEPT !.over = FALSE] \in Mine
  BY <1>1, Fields DEF Mine
<1>5. \A k \in Mines : /\ mine'[k].account = mine[k].account /\ mine'[k].stay = mine[k].stay
                       /\ k # m => mine'[k] = mine[k]
  BY <1>1, <1>2, Fields DEF MinesTyped, Mine
<1>6. MinesTyped'
  BY <1>1, <1>2, <1>3, <1>4 DEF MinesTyped
<1>7. Held' /\ Fresh' /\ PaidExactly'
  BY <1>1, <1>2, <1>3, <1>5 DEF Held, Fresh, PaidExactly, PaidOnce, ClearedIsPaid
<1>8. ASSUME NEW k \in Mines, Watched(k)' PROVE Alone(k)'
  <2>1. Watched(k) /\ Alone(k)
    BY <1>1, <1>3, <1>5, <1>8 DEF Watched
  <2>2. CASE k # m
    BY <1>1, <1>2, <1>3, <1>5, <1>8, <2>1, <2>2, OthersKept
  <2>3. CASE k = m
    <3>1. ~InCall(m) /\ mine'[m].stay = mine[m].stay
      BY <1>2, <1>5, <1>8, <2>1, <2>3 DEF Watched
    <3>2. \A c \in Calls : ~At(c, m)
      BY <3>1 DEF InCall, At
    <3> QED
      BY <1>2, <2>1, <2>3, <3>1, <3>2 DEF Alone, At
  <2> QED
    BY <2>2, <2>3
<1> QED
  BY <1>6, <1>7, <1>8 DEF TreasureInv

\* A handler begins, at a mine it may give up.
LEMMA BeginKeeps ==
  ASSUME TreasureInv, NEW c \in Calls, NEW m \in Mines,
         \/ UpdateMine(c, m) \/ Abandon(c, m) \/ \E p \in Miners : WinFrom(c, p, m)
  PROVE  TreasureInv'
<1>1. /\ MinesTyped /\ Held /\ Fresh /\ PaidExactly
      /\ \A k \in Mines : Watched(k) => Alone(k)
  BY DEF TreasureInv
<1>2. /\ UNCHANGED <<prepared, stayOf, paid, cleared>>
      /\ mixed' = IF InCall(m) /\ mine[m].stay # 0 THEN mixed \cup {mine[m].stay} ELSE mixed
      /\ mixed \subseteq mixed' /\ mixed' \in SUBSET Stays
  <2>1. /\ UNCHANGED <<prepared, stayOf, paid, cleared>>
        /\ mixed' = IF InCall(m) /\ mine[m].stay # 0 THEN mixed \cup {mine[m].stay} ELSE mixed
    BY DEF UpdateMine, Abandon, WinFrom, Mixes
  <2> QED
    BY <1>1, <2>1, Fields DEF MinesTyped
<1> DEFINE Begun(g) ==
             /\ call' = [call EXCEPT ![c] = g] /\ g.at \in {"win", "load"} /\ g.mine = m
             /\ g.for = "occupy" => g.who \in Miners
             /\ g.at = "win" => g.for = "occupy"
             /\ g.for = "abandon" => mine'[m].over
<1>3. \E g \in Call : Begun(g)
  <2>1. CASE UpdateMine(c, m)
    <3> DEFINE g == [at |-> "load", mine |-> m, for |-> "update", who |-> Nobody]
    <3>1. g \in Call /\ call' = [call EXCEPT ![c] = g]
      BY <2>1 DEF UpdateMine, WaitsAt, Call
    <3> QED
      BY <3>1
  <2>2. CASE Abandon(c, m)
    <3> DEFINE g == [at |-> "load", mine |-> m, for |-> "abandon", who |-> Nobody]
    <3>1. g \in Call /\ call' = [call EXCEPT ![c] = g]
      BY <2>2 DEF Abandon, WaitsAt, Call
    <3>2. mine'[m].over
      <4>1. mine' = [mine EXCEPT ![m] = [mine[m] EXCEPT !.over = TRUE]] /\ mine[m] \in Mine
        BY <1>1, <2>2, Fields DEF Abandon
      <4> QED
        BY <1>1, <4>1 DEF MinesTyped, Mine
    <3> QED
      BY <3>1, <3>2
  <2>3. ASSUME NEW p \in Miners, WinFrom(c, p, m) PROVE \E g \in Call : Begun(g)
    <3> DEFINE g == [at |-> "win", mine |-> m, for |-> "occupy", who |-> p]
    <3>1. g \in Call /\ call' = [call EXCEPT ![c] = g]
      BY <2>3 DEF WinFrom, WaitsAt, Call
    <3> QED
      BY <3>1
  <2> QED
    BY <2>1, <2>2, <2>3
<1>4. PICK g \in Call : Begun(g)
  BY <1>3
<1>5. /\ \A k \in Mines : /\ mine'[k].account = mine[k].account /\ mine'[k].stay = mine[k].stay
                          /\ k # m => mine'[k] = mine[k]
      /\ mine' \in [Mines -> Mine]
  <2>1. \/ mine' = mine
        \/ mine' = [mine EXCEPT ![m] = [mine[m] EXCEPT !.over = TRUE]]
    <3>1. UpdateMine(c, m) \/ (\E p \in Miners : WinFrom(c, p, m)) => mine' = mine
      BY DEF UpdateMine, WinFrom
    <3>2. Abandon(c, m) => mine' = [mine EXCEPT ![m] = [mine[m] EXCEPT !.over = TRUE]]
      BY DEF Abandon
    <3> QED
      BY <3>1, <3>2
  <2>2. LET x == [mine[m] EXCEPT !.over = TRUE]
        IN  x \in Mine /\ x.account = mine[m].account /\ x.stay = mine[m].stay
    BY <1>1, Fields DEF Mine
  <2> QED
    BY <1>1, <2>1, <2>2 DEF MinesTyped
<1>6. /\ call[c].at = "idle" /\ call'[c] = g
      /\ \A d \in Calls : d # c => call'[d] = call[d]
  <2>1. call[c].at = "idle"
    BY NoCallFields DEF UpdateMine, Abandon, WinFrom
  <2> QED
    BY <1>1, <1>4, <2>1 DEF MinesTyped
<1>7. MinesTyped'
  BY <1>1, <1>2, <1>4, <1>5 DEF MinesTyped
<1>8. Held' /\ Fresh' /\ PaidExactly'
  BY <1>1, <1>2, <1>5 DEF Held, Fresh, PaidExactly, PaidOnce, ClearedIsPaid
<1>9. ASSUME NEW k \in Mines, Watched(k)' PROVE Alone(k)'
  <2>1. Watched(k) /\ Alone(k)
    BY <1>1, <1>2, <1>5, <1>9 DEF Watched
  <2>2. CASE k # m
    <3>1. \A d \in Calls : call'[d] = call[d] \/ ~(At(d, k) \/ At(d, k)')
      BY <1>4, <1>6, <2>2 DEF At
    <3> QED
      BY <1>1, <1>2, <1>5, <1>9, <2>1, <2>2, <3>1, OthersKept
  <2>3. CASE k = m
    <3>1. ~InCall(m)
      BY <1>2, <1>5, <1>9, <2>1, <2>3 DEF Watched
    <3>2. \A d \in Calls : ~At(d, m)
      BY <3>1 DEF InCall, At
    <3>3. \A d \in Calls : At(d, m)' => d = c
      BY <1>6, <3>2 DEF At
    <3>4. paid'[mine'[m].stay] = 0
      BY <1>2, <1>5, <2>1, <2>3, <3>2 DEF Alone
    <3> QED
      BY <1>4, <1>6, <2>3, <3>3, <3>4 DEF Alone
  <2> QED
    BY <2>2, <2>3
<1> QED
  BY <1>7, <1>8, <1>9 DEF TreasureInv
-----------------------------------------------------------------------------
(* The end of a stay, and the beginning of the next.                       *)

\* A mine that was cleared of what is paid is given to somebody, or to nobody.
LEMMA NextStayKeeps ==
  ASSUME TreasureInv, NEW m \in Mines, NEW x \in Mine, x.stay = mine[m].stay,
         \/ mine' = [mine EXCEPT ![m] = ClearedMine(x)] /\ UNCHANGED <<stayOf, mixed>>
         \/ \E p \in Miners : Occupies(m, ClearedMine(x), p),
         cleared' = cleared \/ cleared' = (IF Unpaid(x) THEN cleared \cup {x.stay} ELSE cleared),
         Unpaid(x) => x.stay \in mixed,
         call' \in [Calls -> Call],
         \A d \in Calls : call'[d] = call[d] \/ (At(d, m) /\ call'[d] = NoCall),
         UNCHANGED <<prepared, paid>>
  PROVE  TreasureInv'
<1>1. /\ MinesTyped /\ Held /\ Fresh /\ PaidExactly
      /\ \A k \in Mines : Watched(k) => Alone(k)
  BY DEF TreasureInv
<1>2. /\ ClearedMine(x) \in Mine /\ ClearedMine(x).stay = 0 /\ ClearedMine(x).account = Nobody
  BY Fields, <1>1 DEF ClearedMine, EmptyMine, Mine
<1>3. ASSUME NEW p \in Miners, Occupies(m, ClearedMine(x), p)
      PROVE  \E s \in Stays, y \in Mine :
               /\ stayOf[s] = Nobody /\ stayOf' = [stayOf EXCEPT ![s] = p]
               /\ y.stay = s /\ y.account = p /\ mine' = [mine EXCEPT ![m] = y]
               /\ mixed \subseteq mixed' /\ mixed' \in SUBSET Stays
               /\ s \notin mixed' => \A d \in Calls : call'[d].mine # m
  <2>1. PICK s \in Stays :
          /\ NextStay(s)
          /\ stayOf' = [stayOf EXCEPT ![s] = p]
          /\ mine' = [mine EXCEPT ![m] =
               [ClearedMine(x) EXCEPT !.account = p, !.stay = s, !.status = "idle"]]
          /\ mixed' = IF \E d \in Calls : call'[d].mine = m THEN mixed \cup {s} ELSE mixed
    BY <1>3 DEF Occupies
  <2> DEFINE y == [ClearedMine(x) EXCEPT !.account = p, !.stay = s, !.status = "idle"]
  <2>2. y \in Mine /\ y.stay = s /\ y.account = p
    BY <1>2 DEF Mine
  <2> HIDE DEF y
  <2>3. mixed \subseteq mixed' /\ mixed' \in SUBSET Stays
        /\ (s \notin mixed' => \A d \in Calls : call'[d].mine # m)
    BY <1>1, <2>1 DEF MinesTyped
  <2> QED
    BY <2>1, <2>2, <2>3 DEF NextStay, y
<1>4. \E y \in Mine :
        /\ mine' = [mine EXCEPT ![m] = y] /\ mixed \subseteq mixed' /\ mixed' \in SUBSET Stays
        /\ \/ y.stay = 0 /\ y.account = Nobody /\ stayOf' = stayOf
           \/ /\ y.stay \in Stays /\ y.account \in Miners /\ stayOf[y.stay] = Nobody
              /\ stayOf' = [stayOf EXCEPT ![y.stay] = y.account]
              /\ y.stay \notin mixed' => \A d \in Calls : call'[d].mine # m
  BY <1>1, <1>2, <1>3 DEF MinesTyped
<1>5. PICK y \in Mine :
        /\ mine' = [mine EXCEPT ![m] = y] /\ mixed \subseteq mixed' /\ mixed' \in SUBSET Stays
        /\ \/ y.stay = 0 /\ y.account = Nobody /\ stayOf' = stayOf
           \/ /\ y.stay \in Stays /\ y.account \in Miners /\ stayOf[y.stay] = Nobody
              /\ stayOf' = [stayOf EXCEPT ![y.stay] = y.account]
              /\ y.stay \notin mixed' => \A d \in Calls : call'[d].mine # m
  BY <1>4
<1>6. /\ mine'[m] = y /\ mine' \in [Mines -> Mine]
      /\ \A k \in Mines : k # m => mine'[k] = mine[k]
      /\ stayOf' \in [Stays -> Miners \cup {Nobody}]
      /\ \A s \in Stays : stayOf[s] # Nobody => stayOf'[s] = stayOf[s]
      /\ \A s \in Stays : stayOf'[s] = Nobody => stayOf[s] = Nobody
      /\ y.stay # 0 => stayOf'[y.stay] = y.account
  BY <1>1, <1>5, NobodyIsNone, Fields DEF MinesTyped
<1>7. MinesTyped'
  <2>1. \A d \in Calls : /\ call'[d].at # "idle" => call'[d].mine \in Mines
                         /\ call'[d].for = "occupy" => call'[d].who \in Miners
                         /\ call'[d].at = "win" => call'[d].for = "occupy"
    BY <1>1, NoCallFields DEF MinesTyped
  <2>2. cleared' \in SUBSET Stays
    BY <1>1, Fields DEF MinesTyped, Unpaid, Mine
  <2> QED
    BY <1>1, <1>5, <1>6, <2>1, <2>2 DEF MinesTyped
<1>8. Held'
  <2>1. \A k \in Mines : mine[k].stay # 0 => mine[k].stay \in Stays /\ stayOf[mine[k].stay] # Nobody
    BY <1>1, Fields DEF Held
  <2>2. \A k \in Mines : k # m /\ y.stay # 0 => mine[k].stay # y.stay
    BY <1>5, <2>1, Fields
  <2>3. y.stay = 0 <=> y.account = Nobody
    BY <1>1, <1>5, NobodyIsNone, Fields
  <2> QED
    BY <1>1, <1>6, <2>1, <2>2, <2>3 DEF Held
<1>9. Fresh' /\ PaidExactly'
  <2>1. Fresh' /\ PaidOnce'
    BY <1>1, <1>5, <1>6 DEF Fresh, PaidExactly, PaidOnce
  <2>2. ClearedIsPaid'
    BY <1>1, <1>5 DEF PaidExactly, ClearedIsPaid
  <2> QED
    BY <2>1, <2>2 DEF PaidExactly
<1>10. ASSUME NEW k \in Mines, Watched(k)' PROVE Alone(k)'
  <2>1. CASE k # m
    <3>1. \A d \in Calls : call'[d] = call[d] \/ ~(At(d, k) \/ At(d, k)')
      BY <2>1, NoCallFields DEF At
    <3> QED
      BY <1>1, <1>5, <1>6, <1>10, <2>1, <3>1, OthersKept DEF Watched
  <2>2. CASE k = m
    <3>1. /\ y.stay \in Stays /\ stayOf[y.stay] = Nobody
          /\ \A d \in Calls : call'[d].mine # m
      BY <1>5, <1>6, <1>10, <2>2 DEF Watched
    <3>2. \A d \in Calls : ~At(d, m)'
      BY <3>1 DEF At
    <3>3. paid'[y.stay] = 0
      BY <1>1, <3>1 DEF Fresh
    <3> QED
      BY <1>6, <2>2, <3>2, <3>3 DEF Alone
  <2> QED
    BY <2>1, <2>2
<1> QED
  BY <1>7, <1>8, <1>9, <1>10 DEF TreasureInv

LEMMA WinEmptyKeeps ==
  ASSUME TreasureInv, NEW p \in Miners, NEW m \in Mines, WinEmpty(p, m)
  PROVE  TreasureInv'
<1>1. /\ MinesTyped /\ mine[m] \in Mine /\ mine[m].stay = 0
      /\ UNCHANGED <<prepared, call, paid, cleared>> /\ Occupies(m, ClearedMine(mine[m]), p)
  BY Fields DEF WinEmpty, TreasureInv, Held, Occupied
<1>2. ~Unpaid(mine[m]) /\ call' \in [Calls -> Call]
  BY <1>1 DEF Unpaid, MinesTyped
<1> QED
  BY <1>1, <1>2, NextStayKeeps

\* Finish ends the handler as well.
LEMMA FinishKeeps ==
  ASSUME TreasureInv, NEW c \in Calls, call[c].at \in {"load", "mail"},
         NEW x \in Mine, x.stay = mine[call[c].mine].stay, Unpaid(x) => x.stay \in mixed,
         Finish(c, x), UNCHANGED <<prepared, paid>>
  PROVE  TreasureInv'
<1> DEFINE m == call[c].mine
<1>1. /\ MinesTyped /\ m \in Mines /\ At(c, m)
      /\ call' = [call EXCEPT ![c] = NoCall]
      /\ cleared' = (IF Unpaid(x) THEN cleared \cup {x.stay} ELSE cleared)
  BY Fields DEF TreasureInv, At, Finish, Ends
<1>2. /\ call' \in [Calls -> Call]
      /\ \A d \in Calls : call'[d] = call[d] \/ (At(d, m) /\ call'[d] = NoCall)
  BY <1>1, Fields DEF MinesTyped
<1>3. \/ mine' = [mine EXCEPT ![m] = ClearedMine(x)] /\ UNCHANGED <<stayOf, mixed>>
      \/ \E p \in Miners : Occupies(m, ClearedMine(x), p)
  BY <1>1, Fields DEF Finish
<1> QED
  BY <1>1, <1>2, <1>3, NextStayKeeps

\* The handler at a watched mine is the only one there.
LEMMA OnlyOne ==
  ASSUME TreasureInv, NEW c \in Calls, call[c].at # "idle", Watched(call[c].mine)
  PROVE  \A d \in Calls : At(d, call[c].mine) => d = c
  BY Fields DEF TreasureInv, Alone, At

LEMMA MailedKeeps == ASSUME TreasureInv, NEW c \in Calls, Mailed(c) PROVE TreasureInv'
<1> DEFINE m == call[c].mine
<1>1. MinesTyped /\ m \in Mines /\ mine[m] \in Mine /\ call[c].at = "mail" /\ At(c, m)
  BY Fields DEF TreasureInv, Mailed, At
<1>2. Unpaid(mine[m]) => mine[m].stay \in mixed
  BY <1>1 DEF Unpaid, TreasureInv, Watched, Alone
<1> QED
  BY <1>1, <1>2, FinishKeeps DEF Mailed

\* The sum of a mine that is not unpaid for nothing.
LEMMA SumFields ==
  ASSUME NEW x \in Mine
  PROVE  /\ Sum(x) \in Mine /\ Sum(x).stay = x.stay /\ Sum(x).account = x.account
         /\ Sum(x).over = x.over /\ Sum(x).earns = FALSE
<1>1. x.reward \/ x.earns \in BOOLEAN
  BY DEF Mine
<1> QED
  BY <1>1 DEF Sum, Mine

LEMMA LoadedOverKeeps == ASSUME TreasureInv, NEW c \in Calls, LoadedOver(c) PROVE TreasureInv'
<1> DEFINE m == call[c].mine
           x == Sum(mine[m])
           g == [at |-> "mail", mine |-> m, for |-> call[c].for, who |-> call[c].who]
<1>1. /\ MinesTyped /\ Held /\ Fresh /\ PaidExactly
      /\ \A k \in Mines : Watched(k) => Alone(k)
  BY DEF TreasureInv
<1>2. /\ m \in Mines /\ mine[m] \in Mine /\ call[c].at = "load" /\ At(c, m) /\ mine[m].over
      /\ mine[m].stay \in Stays /\ call[c] \in Call
  BY <1>1, Fields DEF LoadedOver, At, Occupied, Held, MinesTyped
<1>3. /\ x \in Mine /\ x.stay = mine[m].stay /\ x.account = mine[m].account
      /\ x.over = mine[m].over /\ x.earns = FALSE
  BY <1>2, SumFields
<1>4. CASE ~RewardList(x)
  <2>1. ~Unpaid(x)
    BY <1>3, <1>4 DEF Unpaid, RewardList
  <2> QED
    BY <1>2, <1>3, <1>4, <2>1, FinishKeeps DEF LoadedOver
<1>5. CASE RewardList(x)
  <2>1. /\ paid' = [paid EXCEPT ![x.stay] = @ + 1] /\ mine' = [mine EXCEPT ![m] = x]
        /\ call' = [call EXCEPT ![c] = g] /\ UNCHANGED <<prepared, stayOf, cleared, mixed>>
    BY <1>5 DEF LoadedOver, WaitsAt
  <2>2. /\ g \in Call /\ g.at = "mail" /\ g.mine = m
        /\ g.for = "occupy" => g.who \in Miners
    BY <1>1, <1>2, Fields DEF Call
  <2> HIDE DEF m, x, g
  <2>3. /\ call'[c] = g /\ \A d \in Calls : d # c => call'[d] = call[d]
        /\ mine'[m] = x /\ \A k \in Mines : k # m => mine'[k] = mine[k]
        /\ paid'[mine[m].stay] = paid[mine[m].stay] + 1
        /\ \A s \in Stays : s # mine[m].stay => paid'[s] = paid[s]
        /\ paid[mine[m].stay] \in Nat
    BY <1>1, <1>2, <1>3, <2>1 DEF MinesTyped
  <2>4. Watched(m) => paid[mine[m].stay] = 0
    <3>1. ASSUME Watched(m) PROVE \A d \in Calls : At(d, m) => d = c
      BY <1>2, <3>1, OnlyOne DEF At
    <3> QED
      BY <1>1, <1>2, <3>1 DEF Alone
  <2>5. MinesTyped'
    BY <1>1, <1>2, <1>3, <2>1, <2>2, <2>3 DEF MinesTyped
  <2>6. Held'
    BY <1>1, <1>3, <2>1, <2>3 DEF Held
  <2>7. Fresh'
    <3>1. stayOf[mine[m].stay] # Nobody
      BY <1>1, <1>2, Fields DEF Held, Stays
    <3> QED
      BY <1>1, <2>1, <2>3, <3>1 DEF Fresh
  <2>8. PaidExactly'
    <3>1. PaidOnce'
      BY <1>1, <1>2, <2>1, <2>3, <2>4 DEF PaidExactly, PaidOnce, Watched, Stays
    <3> QED
      BY <1>1, <2>1, <3>1 DEF PaidExactly, ClearedIsPaid
  <2>9. ASSUME NEW k \in Mines, Watched(k)' PROVE Alone(k)'
    <3>1. CASE k # m
      <4>1. Watched(k) /\ mine[k].stay # mine[m].stay
        BY <1>1, <1>2, <2>1, <2>3, <2>9, <3>1 DEF Watched, Held
      <4>2. \A d \in Calls : call'[d] = call[d] \/ ~(At(d, k) \/ At(d, k)')
        BY <1>2, <2>2, <2>3, <3>1 DEF At
      <4>3. mine[k].stay \in Stays
        BY <1>1, <4>1, Fields DEF Watched
      <4> QED
        BY <1>1, <2>1, <2>3, <2>9, <3>1, <4>1, <4>2, <4>3, OthersKept
    <3>2. CASE k = m
      <4>1. Watched(m)
        BY <1>3, <2>1, <2>3, <2>9, <3>2 DEF Watched
      <4>2. \A d \in Calls : At(d, k) => d = c
        BY <1>2, <3>2, <4>1, OnlyOne DEF At, m
      <4>3. \A d \in Calls : At(d, k)' => d = c
        BY <2>3, <4>2 DEF At
      <4>4. At(c, k)' /\ call'[c].at = "mail"
        BY <2>2, <2>3, <3>2 DEF At
      <4>5. mine'[k].over /\ paid'[mine'[k].stay] # 0
        <5>1. mine'[k] = x /\ x.over = mine[m].over /\ x.stay = mine[m].stay
          BY <1>3, <2>3, <3>2
        <5>2. paid'[mine[m].stay] # 0
          BY <2>3
        <5>3. mine[m].over
          BY <1>2
        <5> QED
          BY <5>1, <5>2, <5>3
      <4> QED
        BY <4>3, <4>4, <4>5 DEF Alone
    <3> QED
      BY <3>1, <3>2
  <2> QED
    BY <2>5, <2>6, <2>7, <2>8, <2>9 DEF TreasureInv
<1> QED
  BY <1>4, <1>5

LEMMA LoadedRunsKeeps == ASSUME TreasureInv, NEW c \in Calls, LoadedRuns(c) PROVE TreasureInv'
<1> DEFINE m == call[c].mine
           x == Sum(mine[m])
<1>1. /\ MinesTyped /\ Held /\ Fresh /\ PaidExactly
      /\ \A k \in Mines : Watched(k) => Alone(k)
  BY DEF TreasureInv
<1>2. /\ m \in Mines /\ mine[m] \in Mine /\ call[c].at = "load" /\ At(c, m) /\ ~mine[m].over
      /\ mine[m].stay # 0
  BY <1>1, Fields DEF LoadedRuns, At, Occupied, Held
<1>3. /\ x \in Mine /\ x.stay = mine[m].stay /\ x.account = mine[m].account
      /\ x.over = mine[m].over
  BY <1>2, SumFields
<1>4. CASE call[c].for = "abandon"
  <2>1. ~Watched(m)
    BY <1>1, <1>2, <1>4 DEF Alone
  <2> QED
    BY <1>2, <1>3, <1>4, <2>1, FinishKeeps DEF LoadedRuns, Watched
<1>5. CASE call[c].for # "abandon"
  <2>1. /\ mine' = [mine EXCEPT ![m] = x] /\ call' = [call EXCEPT ![c] = NoCall]
        /\ UNCHANGED <<prepared, stayOf, paid, cleared, mixed>>
    BY <1>5 DEF LoadedRuns, Ends
  <2> HIDE DEF m, x
  <2>2. /\ call'[c] = NoCall /\ \A d \in Calls : d # c => call'[d] = call[d]
        /\ mine'[m] = x /\ \A k \in Mines : k # m => mine'[k] = mine[k]
    BY <1>1, <1>2, <2>1 DEF MinesTyped
  <2>3. MinesTyped'
    BY <1>1, <1>3, <2>1, <2>2, NoCallFields, Fields DEF MinesTyped
  <2>4. Held' /\ Fresh' /\ PaidExactly'
    BY <1>1, <1>3, <2>1, <2>2 DEF Held, Fresh, PaidExactly, PaidOnce, ClearedIsPaid
  <2>5. ASSUME NEW k \in Mines, Watched(k)' PROVE Alone(k)'
    <3>0. Watched(k) /\ Alone(k) /\ mine'[k].stay = mine[k].stay /\ mine'[k].over = mine[k].over
      BY <1>1, <1>3, <2>1, <2>2, <2>5 DEF Watched
    <3>1. \A d \in Calls : At(d, k)' => At(d, k) /\ call'[d] = call[d]
      BY <2>2, NoCallFields DEF At
    <3>2. \A d \in Calls : At(d, k) /\ call[d].at = "mail" => At(d, k)' /\ call'[d] = call[d]
      BY <1>2, <2>2 DEF At
    <3> QED
      BY <2>1, <3>0, <3>1, <3>2 DEF Alone
  <2> QED
    BY <2>3, <2>4, <2>5 DEF TreasureInv
<1> QED
  BY <1>4, <1>5

LEMMA LoadedEmptyKeeps == ASSUME TreasureInv, NEW c \in Calls, LoadedEmpty(c) PROVE TreasureInv'
<1> DEFINE m == call[c].mine
           x == [mine[m] EXCEPT !.reward = TRUE]
<1>1. /\ MinesTyped /\ Held /\ Fresh /\ PaidExactly
      /\ \A k \in Mines : Watched(k) => Alone(k)
  BY DEF TreasureInv
<1>2. /\ m \in Mines /\ mine[m] \in Mine /\ mine[m].stay = 0
  BY <1>1, Fields DEF LoadedEmpty, Occupied, Held
<1>3. x \in Mine /\ x.stay = mine[m].stay /\ x.account = mine[m].account /\ x.over = mine[m].over
  BY <1>2 DEF Mine
<1>4. /\ mine' = [mine EXCEPT ![m] = x] /\ call' = [call EXCEPT ![c] = NoCall]
      /\ UNCHANGED <<prepared, stayOf, paid, cleared, mixed>>
  BY DEF LoadedEmpty, Ends, history
<1> HIDE DEF x
<1>5. /\ call'[c] = NoCall /\ \A d \in Calls : d # c => call'[d] = call[d]
      /\ mine'[m] = x /\ \A k \in Mines : k # m => mine'[k] = mine[k]
  BY <1>1, <1>2, <1>4 DEF MinesTyped
<1>6. MinesTyped'
  BY <1>1, <1>3, <1>4, <1>5, NoCallFields, Fields DEF MinesTyped
<1>7. Held' /\ Fresh' /\ PaidExactly'
  BY <1>1, <1>3, <1>4, <1>5 DEF Held, Fresh, PaidExactly, PaidOnce, ClearedIsPaid
<1>8. ASSUME NEW k \in Mines, Watched(k)' PROVE Alone(k)'
  <2>1. k # m
    BY <1>2, <1>3, <1>5, <1>8 DEF Watched
  <2>2. \A d \in Calls : call'[d] = call[d] \/ ~(At(d, k) \/ At(d, k)')
    BY <1>5, <2>1, NoCallFields DEF At
  <2> QED
    BY <1>1, <1>4, <1>5, <1>8, <2>1, <2>2, OthersKept DEF Watched
<1> QED
  BY <1>6, <1>7, <1>8 DEF TreasureInv

LEMMA WonKeeps == ASSUME TreasureInv, NEW c \in Calls, Won(c) PROVE TreasureInv'
<1> DEFINE m == call[c].mine
           x == [mine[m] EXCEPT !.over = TRUE]
           g == [call[c] EXCEPT !.at = "load"]
<1>1. /\ MinesTyped /\ Held /\ Fresh /\ PaidExactly
      /\ \A k \in Mines : Watched(k) => Alone(k)
  BY DEF TreasureInv
<1>2. /\ m \in Mines /\ mine[m] \in Mine /\ call[c].at = "win" /\ At(c, m)
      /\ call[c].for = "occupy" /\ call[c].who \in Miners /\ call[c] \in Call
  BY <1>1, Fields DEF Won, At, MinesTyped
<1>3. CASE ~Occupied(m)
  <2>1. mine[m].stay = 0 /\ ~Unpaid(mine[m])
    BY <1>1, <1>2, <1>3 DEF Held, Occupied, Unpaid
  <2>2. /\ call' = [call EXCEPT ![c] = NoCall] /\ UNCHANGED <<prepared, paid, cleared>>
        /\ \E p \in Miners : Occupies(m, ClearedMine(mine[m]), p)
    BY <1>2, <1>3 DEF Won, Ends
  <2>3. /\ call' \in [Calls -> Call]
        /\ \A d \in Calls : call'[d] = call[d] \/ (At(d, m) /\ call'[d] = NoCall)
    BY <1>1, <1>2, <2>2, Fields DEF MinesTyped
  <2> QED
    BY <1>2, <2>1, <2>2, <2>3, NextStayKeeps
<1>4. CASE Occupied(m)
  <2>1. /\ mine' = [mine EXCEPT ![m] = x] /\ call' = [call EXCEPT ![c] = g]
        /\ UNCHANGED <<prepared, stayOf, paid, cleared, mixed>>
    BY <1>4 DEF Won
  <2>2. x \in Mine /\ x.stay = mine[m].stay /\ x.account = mine[m].account /\ x.over
    BY <1>2 DEF Mine
  <2>3. /\ g \in Call /\ g.at = "load" /\ g.mine = m /\ g.for = "occupy"
        /\ g.who \in Miners
    BY <1>2 DEF Call
  <2> HIDE DEF m, x, g
  <2>4. /\ call'[c] = g /\ \A d \in Calls : d # c => call'[d] = call[d]
        /\ mine'[m] = x /\ \A k \in Mines : k # m => mine'[k] = mine[k]
    BY <1>1, <1>2, <2>1 DEF MinesTyped
  <2>5. MinesTyped'
    BY <1>1, <1>2, <2>1, <2>2, <2>3, <2>4 DEF MinesTyped
  <2>6. Held' /\ Fresh' /\ PaidExactly'
    BY <1>1, <2>1, <2>2, <2>4 DEF Held, Fresh, PaidExactly, PaidOnce, ClearedIsPaid
  <2>7. ASSUME NEW k \in Mines, Watched(k)' PROVE Alone(k)'
    <3>0. /\ Watched(k) /\ Alone(k) /\ mine'[k].stay = mine[k].stay
          /\ mine[k].over => mine'[k].over
      BY <1>1, <2>1, <2>2, <2>4, <2>7 DEF Watched
    <3>1. \A d \in Calls : At(d, k)' <=> At(d, k)
      BY <1>2, <2>3, <2>4 DEF At
    <3>2. \A d \in Calls : \/ call'[d] = call[d]
                           \/ call[d].at = "win" /\ call'[d].at = "load" /\ call'[d].for = "occupy"
      BY <1>2, <2>3, <2>4
    <3> QED
      BY <2>1, <3>0, <3>1, <3>2 DEF Alone
  <2> QED
    BY <2>5, <2>6, <2>7 DEF TreasureInv
<1> QED
  BY <1>3, <1>4
-----------------------------------------------------------------------------
LEMMA TreasureStep == ASSUME TreasureInv, [TreasureNext]_treasureVars PROVE TreasureInv'
<1>1. CASE UNCHANGED treasureVars
  BY <1>1 DEF treasureVars, history, TreasureInv, MinesTyped, Held, Fresh, PaidExactly, PaidOnce,
     ClearedIsPaid, Watched, Alone, At
<1> QED
  BY <1>1, EditsKeep, ExtendKeeps, PrepareKeeps, WinEmptyKeeps, LoadedEmptyKeeps, LoadedRunsKeeps,
     LoadedOverKeeps, MailedKeeps, WonKeeps, BeginKeeps DEF TreasureNext

LEMMA TreasureInvariant == TreasureSpec => []TreasureInv
<1>1. TreasureInit => TreasureInv
  <2> SUFFICES ASSUME TreasureInit PROVE TreasureInv
    OBVIOUS
  <2>1. /\ EmptyMine \in Mine /\ NoCall \in Call
        /\ EmptyMine.stay = 0 /\ EmptyMine.account = Nobody
    BY DEF EmptyMine, NoCall, Mine, Call
  <2>2. MinesTyped
    BY <2>1, NoCallFields DEF TreasureInit, MinesTyped
  <2>3. Held /\ Fresh /\ PaidExactly
    BY <2>1 DEF TreasureInit, Held, Fresh, PaidExactly, PaidOnce, ClearedIsPaid
  <2>4. \A m \in Mines : ~Watched(m)
    BY <2>1 DEF TreasureInit, Watched
  <2> QED
    BY <2>2, <2>3, <2>4 DEF TreasureInv
<1> QED
  BY <1>1, TreasureStep, PTL DEF TreasureSpec

(* What a player earned in a stay is paid exactly once, unless two         *)
(* handlers were at the mine at once (Treasure.lua updateReward).          *)
THEOREM StaysPaidExactly == TreasureSpec => []PaidExactly
<1>1. TreasureInv => PaidExactly
  BY DEF TreasureInv
<1> QED
  BY <1>1, TreasureInvariant, PTL

(* Mines, handlers and the record of the stays keep their types, and the   *)
(* holder of a mine is the player its stay is of.                          *)
THEOREM TreasureTypeCorrect == TreasureSpec => []TreasureTypeOK
<1>1. TreasureInv => TreasureTypeOK
  BY Zenon DEF TreasureInv, MinesTyped, Held, TreasureTypeOK, Mine, Call
<1> QED
  BY <1>1, TreasureInvariant, PTL

LEMMA OnlyThere ==
  ASSUME MinesTyped, NEW k \in Mines, NEW c \in Calls, call[c].at # "idle",
         \E x \in Mine : Finish(c, x), k # call[c].mine
  PROVE  mine'[k] = mine[k]
<1>1. call[c].mine \in Mines
  BY Fields
<1>2. \E y : mine' = [mine EXCEPT ![call[c].mine] = y]
  BY DEF Finish, Occupies
<1> QED
  BY <1>1, <1>2 DEF MinesTyped

LEMMA StayEnds ==
  ASSUME TreasureInv, TreasureNext, NEW k \in Mines, Watched(k), mine'[k].stay # mine[k].stay
  PROVE  mine[k].over
<1>1. MinesTyped /\ Held /\ Alone(k) /\ Occupied(k)
  BY DEF TreasureInv, Held, Watched, Occupied
<1>2. ASSUME NEW m \in Mines,
             \/ GiveUp(m) \/ Extend(m) \/ Cycle(m) \/ TimeIsOver(m)
             \/ \E s \in {"idle", "occupying"} : SetStatus(m, s)
             \/ \E p \in Miners : PrepareOccupy(p, m) \/ StartOccupy(p, m)
             \/ \E c \in Calls :
                  UpdateMine(c, m) \/ Abandon(c, m) \/ \E p \in Miners : WinFrom(c, p, m)
      PROVE  FALSE
  <2>1. mine'[k] = mine[k] \/ (k = m /\ mine'[k].stay = mine[k].stay)
    BY <1>1, <1>2, Fields DEF GiveUp, Extend, Cycle, TimeIsOver, SetStatus, PrepareOccupy,
       StartOccupy, UpdateMine, Abandon, WinFrom, MinesTyped, Mine
  <2> QED
    BY <2>1
<1>3. ASSUME NEW m \in Mines, NEW p \in Miners, WinEmpty(p, m) PROVE FALSE
  <2>1. k # m
    BY <1>1, <1>3 DEF WinEmpty
  <2> QED
    BY <1>1, <1>3, <2>1 DEF WinEmpty, Occupies, MinesTyped
<1>4. ASSUME NEW c \in Calls, LoadedEmpty(c) PROVE FALSE
  <2>1. call[c].mine \in Mines /\ k # call[c].mine
    BY <1>1, <1>4, Fields DEF LoadedEmpty
  <2> QED
    BY <1>1, <1>4, <2>1 DEF LoadedEmpty, MinesTyped
<1>5. ASSUME NEW c \in Calls, Won(c) PROVE FALSE
  <2>1. call[c].mine \in Mines
    BY <1>1, <1>5, Fields DEF Won
  <2>2. CASE ~Occupied(call[c].mine)
    BY <1>1, <1>5, <2>1, <2>2 DEF Won, Occupies, MinesTyped
  <2>3. CASE Occupied(call[c].mine)
    <3>1. mine' = [mine EXCEPT ![call[c].mine] = [mine[call[c].mine] EXCEPT !.over = TRUE]]
      BY <1>5, <2>3 DEF Won
    <3> QED
      BY <1>1, <2>1, <3>1, Fields DEF MinesTyped, Mine
  <2> QED
    BY <2>2, <2>3
<1>6. ASSUME NEW c \in Calls, LoadedRuns(c) \/ LoadedOver(c) \/ Mailed(c) PROVE mine[k].over
  <2> DEFINE m == call[c].mine
  <2>1. m \in Mines /\ mine[m] \in Mine /\ call[c].at \in {"load", "mail"}
    BY <1>1, <1>6, Fields DEF LoadedRuns, LoadedOver, Mailed
  <2>2. Sum(mine[m]) \in Mine /\ Sum(mine[m]).stay = mine[m].stay
    BY <2>1, SumFields
  <2>3. \/ \E x \in Mine : Finish(c, x)
        \/ mine' = [mine EXCEPT ![m] = Sum(mine[m])]
    BY <1>6, <2>1, <2>2 DEF LoadedRuns, LoadedOver, Mailed
  <2>4. k = m
    BY <1>1, <2>1, <2>3, OnlyThere DEF MinesTyped
  <2>5. CASE LoadedRuns(c)
    <3>1. call[c].at = "load" /\ call[c].for = "abandon"
      BY <1>1, <2>1, <2>2, <2>4, <2>5 DEF LoadedRuns, MinesTyped
    <3> QED
      BY <1>1, <2>4, <3>1 DEF Alone, At
  <2>6. CASE LoadedOver(c)
    BY <2>4, <2>6 DEF LoadedOver
  <2>7. CASE Mailed(c)
    BY <1>1, <2>4, <2>7 DEF Mailed, Alone, At
  <2> QED
    BY <1>6, <2>5, <2>6, <2>7
<1> QED
  BY <1>2, <1>3, <1>4, <1>5, <1>6 DEF TreasureNext

(* A player keeps a mine until the time is over (EventHandler.lua          *)
(* onCGTreasureEndOccupy, onCGTreasureAbandon), with the same exception.   *)
THEOREM HoldersStay == TreasureSpec => HolderStays
<1> DEFINE Stays1 == \A m \in Mines :
             mine[m].stay # 0 /\ mine'[m].stay # mine[m].stay =>
               mine[m].over \/ mine[m].stay \in mixed
<1>1. ASSUME TreasureInv, [TreasureNext]_treasureVars PROVE [Stays1]_treasureVars
  BY <1>1, StayEnds DEF Watched
<1> QED
  BY <1>1, TreasureInvariant, PTL DEF TreasureSpec, HolderStays
=============================================================================
