------------------------------ MODULE Treasure ------------------------------
(***************************************************************************)
(* Treasure mines: modules/treasure (Treasure.lua, EventHandler.lua).      *)
(*                                                                         *)
(* A player holds a mine for some hours.  updateReward adds up what it     *)
(* earned and, when the hours are over, mails the sum to the holder and    *)
(* clears the mine.  It is called for every mine by the save timer and by  *)
(* whoever looks at the map, and for one mine by its holder who gives it   *)
(* up and by the player who takes it.  It yields to load the holder, if    *)
(* that is offline, and to get the mail box of the holder.                 *)
(*                                                                         *)
(* The times of a mine are two flags: a reward cycle has passed since      *)
(* rewardTime (earns), extendEndTime is reached (over).  The time of a     *)
(* handler is that of the answer to its load.  A stay is one holder's time *)
(* on one mine, from setMineOccupier to clearMine.                         *)
(***************************************************************************)
EXTENDS Integers, FiniteSets

CONSTANTS
  Miners,         \* accounts
  Mines,
  MaxMines,       \* MAX_MINE_PER_PLAYER
  Calls,          \* bound: handlers that wait at once
  MaxStays        \* bound: stays of a run

ASSUME TreasureAssumption == "nobody" \notin Miners /\ MaxMines \in Nat /\ MaxStays \in Nat

VARIABLES
  mine,      \* Treasures
  prepared,  \* db.Treasure.prepareAccount of each player
  call,      \* handlers that wait
  stayOf,    \* history: the holder of each stay
  paid,      \* history: mails that paid each stay
  cleared,   \* history: stays ended by clearMine while something was unpaid
  mixed      \* history: stays whose mine was in two handlers at once

history == <<stayOf, paid, cleared, mixed>>
treasureVars == <<mine, prepared, call, history>>

Stays  == 1 .. MaxStays
Nobody == "nobody"
EmptyMine == [account |-> Nobody, status |-> "idle", stay |-> 0,
              earns |-> FALSE, over |-> FALSE, reward |-> FALSE]
NoCall == [at |-> "idle", mine |-> Nobody, for |-> "", who |-> Nobody]

TreasureInit ==
  /\ mine = [m \in Mines |-> EmptyMine]
  /\ prepared = [p \in Miners |-> Nobody]
  /\ call = [c \in Calls |-> NoCall]
  /\ stayOf = [s \in Stays |-> Nobody] /\ paid = [s \in Stays |-> 0]
  /\ cleared = {} /\ mixed = {}
-----------------------------------------------------------------------------
MineNum(p) == Cardinality({m \in Mines : mine[m].account = p})
Occupied(m) == mine[m].account # Nobody
InCall(m) == \E c \in Calls : call[c].at # "idle" /\ call[c].mine = m

\* Mutant: nothing is cleared.
ClearedNothing(x) == x

\* clearMine leaves the status.
ClearedMine(x) == [EmptyMine EXCEPT !.status = x.status]
Unpaid(x) == x.stay # 0 /\ paid[x.stay] = 0 /\ (x.reward \/ x.earns)

Ends(c) == call' = [call EXCEPT ![c] = NoCall]
WaitsAt(c, at, m, for, who) ==
  call' = [call EXCEPT ![c] = [at |-> at, mine |-> m, for |-> for, who |-> who]]

\* A handler begins while another waits at the mine, ...
Mixes(m) == mixed' = IF InCall(m) /\ mine[m].stay # 0 THEN mixed \cup {mine[m].stay} ELSE mixed

NextStay(s) == s \in Stays /\ stayOf[s] = Nobody /\ \A r \in Stays : stayOf[r] = Nobody => s <= r

\* setMineOccupier: ... or waits when the stay begins.
Occupies(m, x, p) ==
  \E s \in Stays :
    /\ NextStay(s)
    /\ stayOf' = [stayOf EXCEPT ![s] = p]
    /\ mine' = [mine EXCEPT ![m] = [x EXCEPT !.account = p, !.stay = s, !.status = "idle"]]
    /\ mixed' = IF \E c \in Calls : call'[c].mine = m THEN mixed \cup {s} ELSE mixed
-----------------------------------------------------------------------------
(* updateReward.                                                           *)

\* A cycle has passed or the stay is over.
IsDue(x) == x.account # Nobody /\ (x.earns \/ x.over)

\* The cycles that have passed are added up.
Sum(x) == [x EXCEPT !.reward = @ \/ x.earns, !.earns = FALSE]

\* rewardList: there is something to mail.
RewardList(x) == x.reward

(* The end of the stay: the mine is cleared, whoever holds it by now, and  *)
(* taken by the one who won it.                                            *)
Finish(c, x) ==
  /\ cleared' = IF Unpaid(x) THEN cleared \cup {x.stay} ELSE cleared
  /\ Ends(c)
  /\ IF call[c].for = "occupy"
       THEN Occupies(call[c].mine, ClearedMine(x), call[c].who)
       ELSE mine' = [mine EXCEPT ![call[c].mine] = ClearedMine(x)] /\ UNCHANGED <<stayOf, mixed>>

(* With the holder loaded: a mine that was cleared meanwhile earns from    *)
(* the year 1970 on, and the mail to nobody raises an error.               *)
LoadedEmpty(c) ==
  /\ call[c].at = "load" /\ ~Occupied(call[c].mine)
  /\ mine' = [mine EXCEPT ![call[c].mine].reward = TRUE]
  /\ Ends(c)
  /\ UNCHANGED <<prepared, history>>

\* The stay goes on.  The one who won the mine gets an error, the one who gave it up is rid of it.
LoadedRuns(c) ==
  LET m == call[c].mine
  IN  /\ call[c].at = "load" /\ Occupied(m) /\ ~mine[m].over
      /\ IF call[c].for = "abandon" THEN Finish(c, Sum(mine[m]))
         ELSE Ends(c) /\ mine' = [mine EXCEPT ![m] = Sum(@)] /\ UNCHANGED <<stayOf, cleared, mixed>>
      /\ UNCHANGED <<prepared, paid>>

\* Mutant: the mine is paid and cleared before the stay is over.
LoadedEarly(c) ==
  LET m == call[c].mine
      x == Sum(mine[m])
  IN  /\ call[c].at = "load" /\ Occupied(m)
      /\ IF RewardList(x)
           THEN /\ paid' = [paid EXCEPT ![x.stay] = @ + 1]
                /\ mine' = [mine EXCEPT ![m] = x]
                /\ WaitsAt(c, "mail", m, call[c].for, call[c].who)
                /\ UNCHANGED <<stayOf, cleared, mixed>>
           ELSE Finish(c, x) /\ UNCHANGED paid
      /\ UNCHANGED prepared

\* The stay is over: the mail waits for the box of the holder, if there is anything to mail.
LoadedOver(c) ==
  LET m == call[c].mine
      x == Sum(mine[m])
  IN  /\ call[c].at = "load" /\ Occupied(m) /\ mine[m].over
      /\ IF RewardList(x)
           THEN /\ paid' = [paid EXCEPT ![x.stay] = @ + 1]
                /\ mine' = [mine EXCEPT ![m] = x]
                /\ WaitsAt(c, "mail", m, call[c].for, call[c].who)
                /\ UNCHANGED <<stayOf, cleared, mixed>>
           ELSE Finish(c, x) /\ UNCHANGED paid
      /\ UNCHANGED prepared

Mailed(c) ==
  /\ call[c].at = "mail"
  /\ Finish(c, mine[call[c].mine])
  /\ UNCHANGED <<prepared, paid>>
-----------------------------------------------------------------------------
(* EventHandler.lua.                                                       *)

\* updateAllMines: the save timer, or a look at the map; a look at one mine.
UpdateMine(c, m) ==
  /\ call[c] = NoCall /\ IsDue(mine[m])
  /\ WaitsAt(c, "load", m, "update", Nobody) /\ Mixes(m)
  /\ UNCHANGED <<mine, prepared, stayOf, paid, cleared>>

\* onCGTreasureAbandon ends the stay.
Abandon(c, m) ==
  /\ call[c] = NoCall /\ Occupied(m)
  /\ mine' = [mine EXCEPT ![m].over = TRUE]
  /\ WaitsAt(c, "load", m, "abandon", Nobody) /\ Mixes(m)
  /\ UNCHANGED <<prepared, stayOf, paid, cleared>>

\* onCGTreasurePrepareOccupy; what it updates first is UpdateMine.
PrepareOccupy(p, m) ==
  /\ MineNum(p) < MaxMines /\ mine[m].status # "occupying"
  /\ prepared' = [prepared EXCEPT ![p] = mine[m].account]
  /\ UNCHANGED <<mine, call, history>>

StartOccupy(p, m) ==
  /\ MineNum(p) < MaxMines /\ mine[m].status # "occupying"
  /\ prepared[p] = mine[m].account
  /\ mine' = [mine EXCEPT ![m].status = "occupying"]
  /\ UNCHANGED <<prepared, call, history>>

(* onCGTreasureEndOccupy: whoever sends it while the mine is being         *)
(* occupied has won, and the number of mines is not looked at again.       *)
WinEmpty(p, m) ==
  /\ mine[m].status = "occupying" /\ ~Occupied(m)
  /\ UNCHANGED <<prepared, call, paid, cleared>>
  /\ Occupies(m, ClearedMine(mine[m]), p)

\* A mine somebody holds: its holder is loaded first.
WinFrom(c, p, m) ==
  /\ call[c] = NoCall /\ mine[m].status = "occupying" /\ Occupied(m)
  /\ WaitsAt(c, "win", m, "occupy", p) /\ Mixes(m)
  /\ UNCHANGED <<mine, prepared, stayOf, paid, cleared>>

\* The stay is ended and paid, unless the mine is empty by now.
Won(c) ==
  LET m == call[c].mine
  IN  /\ call[c].at = "win" /\ \E s \in Stays : NextStay(s)
      /\ IF Occupied(m)
           THEN /\ mine' = [mine EXCEPT ![m].over = TRUE]
                /\ call' = [call EXCEPT ![c].at = "load"]
                /\ UNCHANGED <<stayOf, mixed>>
           ELSE Ends(c) /\ Occupies(m, ClearedMine(mine[m]), call[c].who)
      /\ UNCHANGED <<prepared, paid, cleared>>

\* A lost fight, or three minutes without an end.
GiveUp(m) ==
  /\ mine[m].status = "occupying"
  /\ mine' = [mine EXCEPT ![m].status = "idle"]
  /\ UNCHANGED <<prepared, call, history>>

\* onCGTreasureStatus sets what it is told.
SetStatus(m, status) ==
  /\ ~(status = "occupying" /\ mine[m].status = "occupying")
  /\ mine' = [mine EXCEPT ![m].status = status]
  /\ UNCHANGED <<prepared, call, history>>

\* onCGTreasureConsume: more time, bought by anybody.
Extend(m) ==
  /\ Occupied(m) /\ mine[m].status # "occupying" /\ mine[m].over
  /\ mine' = [mine EXCEPT ![m].over = FALSE]
  /\ Mixes(m)
  /\ UNCHANGED <<prepared, call, stayOf, paid, cleared>>

\* Time passes.
Cycle(m) ==
  /\ Occupied(m) /\ ~mine[m].earns /\ ~mine[m].over
  /\ mine' = [mine EXCEPT ![m].earns = TRUE]
  /\ UNCHANGED <<prepared, call, history>>

TimeIsOver(m) ==
  /\ Occupied(m) /\ ~mine[m].over
  /\ mine' = [mine EXCEPT ![m].over = TRUE]
  /\ UNCHANGED <<prepared, call, history>>

TreasureNext ==
  \/ \E m \in Mines :
       \/ GiveUp(m) \/ Extend(m) \/ Cycle(m) \/ TimeIsOver(m)
       \/ \E s \in {"idle", "occupying"} : SetStatus(m, s)
  \/ \E p \in Miners, m \in Mines : PrepareOccupy(p, m) \/ StartOccupy(p, m) \/ WinEmpty(p, m)
  \/ \E c \in Calls :
       \/ LoadedEmpty(c) \/ LoadedRuns(c) \/ LoadedOver(c) \/ Mailed(c) \/ Won(c)
       \/ \E m \in Mines : UpdateMine(c, m) \/ Abandon(c, m) \/ \E p \in Miners : WinFrom(c, p, m)

TreasureSpec == TreasureInit /\ [][TreasureNext]_treasureVars
-----------------------------------------------------------------------------
(* The type invariant.                                                     *)
TreasureTypeOK ==
  /\ mine \in [Mines -> [account : Miners \cup {Nobody}, status : {"idle", "occupying"},
                         stay : Stays \cup {0}, earns : BOOLEAN, over : BOOLEAN,
                         reward : BOOLEAN]]
  /\ \A m \in Mines : mine[m].stay # 0 => mine[m].account = stayOf[mine[m].stay]
  /\ prepared \in [Miners -> Miners \cup {Nobody}]
  /\ call \in [Calls -> [at : {"idle", "win", "load", "mail"}, mine : Mines \cup {Nobody},
                         for : {"", "update", "abandon", "occupy"}, who : Miners \cup {Nobody}]]
  /\ stayOf \in [Stays -> Miners \cup {Nobody}] /\ paid \in [Stays -> Nat]
  /\ cleared \in SUBSET Stays /\ mixed \in SUBSET Stays

(* A stay is paid at most once, although the reward is still there while   *)
(* its mail waits (Treasure.lua:622): twice only if two handlers are at    *)
(* the mine at once.                                                       *)
PaidOnce == \A s \in Stays : paid[s] <= 1 \/ s \in mixed

(* No mine is cleared of what its holder earned and was not paid, with the *)
(* same exception.                                                         *)
ClearedIsPaid == cleared \subseteq mixed

(* What a player earned in a stay is paid exactly once.                    *)
PaidExactly == PaidOnce /\ ClearedIsPaid

(* A player keeps a mine until the time is over, which a fight that was    *)
(* lost and giving it up bring about.                                      *)
HolderStays ==
  [][\A m \in Mines :
       mine[m].stay # 0 /\ mine'[m].stay # mine[m].stay =>
         mine[m].over \/ mine[m].stay \in mixed]_treasureVars
=============================================================================
