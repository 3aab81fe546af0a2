------------------------------ MODULE Session ------------------------------
(***************************************************************************)
(* How an account becomes a character in memory and leaves it again:       *)
(* modules/character (EventHandler, ObjHuman), HumanManager, ObjectManager *)
(* and OfflineHuman.  All of it runs on the logic thread, in coroutines    *)
(* that yield at every database call, so that other packets and timers run *)
(* between any two calls of a login.                                       *)
(*                                                                         *)
(* The login handler is given step by step.  turn is the login the logic   *)
(* thread is running; a yield sets it to None and a step taken when it is  *)
(* None resumes the login.  All other handlers are one action each: what   *)
(* they do after their own database call only logs.  A database call takes *)
(* effect when it is made, since DBPipe executes the calls in that order.  *)
(* A character's data is a counter of the changes made to it, 0 for no     *)
(* document in the database.                                               *)
(***************************************************************************)
EXTENDS Integers, FiniteSets

CONSTANTS
  Fds,           \* descriptors of the listening server's connections
  Accounts,      \* svrName[channelId]pAccount
  FirstAccount,  \* the account of the first document of the collection "char"
  Logins,        \* onCGAskLogin coroutines that can overlap
  None,
  MaxHumans,     \* bound: ObjHuman objects made in a run
  MaxVer,        \* bound: changes of a character
  OfflineLoads   \* whether handlers load offline characters (loadOffline)

ASSUME FirstAssumption   == FirstAccount \in Accounts
ASSUME BoundsAssumption  == MaxHumans \in Nat /\ MaxVer \in Nat \ {0} /\ OfflineLoads \in BOOLEAN
ASSUME NoneAssumption    == None \notin Fds \cup Accounts \cup Logins \cup Nat

VARIABLES
  open,      \* the connections the IO thread holds
  closing,   \* descriptors a GC_DISCONNECT is on its way to
  fd_list,   \* ObjectManager.fd_list
  online,    \* HumanManager.online
  offline,   \* HumanManager.offline: the copy's data, None without a copy
  human,     \* the ObjHuman objects
  nHumans,   \* ObjectManager.index
  account,   \* the global variable onCGAskLogin keeps the account in
  login,     \* the login coroutines
  turn,      \* the login the logic thread is running
  job,       \* the coroutine loading or sweeping an offline copy
  db,        \* the documents of the collection "char"
  asserted   \* an assertion of ObjectManager failed

netVars == <<open, closing>>
vars == <<netVars, fd_list, online, offline, human, nHumans, account, login, turn, job, db,
          asserted>>

HumanIds == 1 .. MaxHumans
Pcs == {"idle", "offline", "delOffline", "old", "again", "switch", "new", "loaded", "named",
        "enter", "end"}

Human == [fd : Fds \cup {None}, acct : Accounts \cup {None}, ver : 0 .. MaxVer,
          relog : BOOLEAN, saves : BOOLEAN, token : BOOLEAN]
Login == [pc : Pcs, fd : Fds \cup {None}, want : Accounts \cup {None},
          h : HumanIds \cup {None}, old : HumanIds \cup {None}, found : 0 .. MaxVer]
NoJob == [kind |-> "none", acct |-> None, ver |-> 0]
Job   == [kind : {"none", "load", "sweep"}, acct : Accounts \cup {None}, ver : 0 .. MaxVer]

NewHuman == [fd |-> None, acct |-> None, ver |-> 0, relog |-> FALSE, saves |-> FALSE,
             token |-> FALSE]
NoLogin  == [pc |-> "idle", fd |-> None, want |-> None, h |-> None, old |-> None, found |-> 0]

Init ==
  /\ open = {} /\ closing = {}
  /\ fd_list = [f \in Fds |-> None]
  /\ online = [a \in Accounts |-> None]
  /\ offline = [a \in Accounts |-> None]
  /\ human = [h \in HumanIds |-> NewHuman] /\ nHumans = 0
  /\ account = None
  /\ login = [l \in Logins |-> NoLogin] /\ turn = None
  /\ job = NoJob
  /\ db \in [Accounts -> {0, 1}]
  /\ asserted = FALSE
-----------------------------------------------------------------------------
(* ObjHuman:release of h: its timers stop, ObjectManager.remove takes it   *)
(* off the list of its descriptor, which it keeps, HumanManager.delOnline  *)
(* forgets whoever is online under its account, and it is saved.           *)

\* Mutant: the periodic save goes on.
TimersStoppedNoSave(h) == [human EXCEPT ![h].relog = FALSE]

TimersStopped(h) == [human EXCEPT ![h].relog = FALSE, ![h].saves = FALSE]

FdListWithout(h) ==
  IF human[h].fd = None THEN fd_list ELSE [fd_list EXCEPT ![human[h].fd] = None]

OnlineWithout(h) ==
  IF human[h].acct = None THEN online ELSE [online EXCEPT ![human[h].acct] = None]

(* CharDB.save updates by _id.  An object that was never loaded has none,  *)
(* and the empty selector replaces the first document of the collection.   *)
SavedDb(h) ==
  IF human[h].acct = None THEN [db EXCEPT ![FirstAccount] = 0]
                          ELSE [db EXCEPT ![human[h].acct] = human[h].ver]

Release(h) ==
  /\ human' = TimersStopped(h)
  /\ fd_list' = FdListWithout(h)
  /\ online' = OnlineWithout(h)
  /\ db' = SavedDb(h)
-----------------------------------------------------------------------------
(* onCGAskLogin.                                                           *)

Runs(l, p)     == login[l].pc = p /\ turn \in {l, None}
Goes(l, p)     == login' = [login EXCEPT ![l].pc = p] /\ turn' = l
Yields(l, p)   == login' = [login EXCEPT ![l].pc = p] /\ turn' = None
Ends(l)        == login' = [login EXCEPT ![l] = NoLogin] /\ turn' = None

\* Bound: every login under way can make its object.
SpareHuman ==
  nHumans + Cardinality({m \in Logins : login[m].pc # "idle" /\ login[m].h = None}) < MaxHumans

(* PkLimit lets one CG_ASK_LOGIN a second through per descriptor, and the  *)
(* database is taken to answer a login's calls within that second.         *)
AskLogin(l, f, a) ==
  /\ turn = None /\ login[l].pc = "idle" /\ f \in open
  /\ \A m \in Logins : login[m].fd # f
  /\ SpareHuman
  /\ account' = a
  /\ login' = [login EXCEPT ![l] = [NoLogin EXCEPT !.pc = "offline", !.fd = f, !.want = a]]
  /\ turn' = l
  /\ UNCHANGED <<netVars, fd_list, online, offline, human, nHumans, job, db, asserted>>

\* Mutant: the account is noted before it is checked.
RejectLoginNotes(f) ==
  /\ turn = None /\ f \in open
  /\ closing' = closing \cup {f}
  /\ account' \in Accounts
  /\ UNCHANGED <<open, fd_list, online, offline, human, nHumans, login, turn, job, db, asserted>>

\* checkAuth fails, or the server is full.
RejectLogin(f) ==
  /\ turn = None /\ f \in open
  /\ closing' = closing \cup {f}
  /\ UNCHANGED <<open, fd_list, online, offline, human, nHumans, account, login, turn, job, db,
                 asserted>>

NoOffline(l) ==
  /\ Runs(l, "offline") /\ offline[account] = None
  /\ Goes(l, "old")
  /\ UNCHANGED <<netVars, fd_list, online, offline, human, nHumans, account, job, db, asserted>>

SaveOffline(l) ==
  /\ Runs(l, "offline") /\ offline[account] # None
  /\ db' = [db EXCEPT ![account] = offline[account]]
  /\ Yields(l, "delOffline")
  /\ UNCHANGED <<netVars, fd_list, online, offline, human, nHumans, account, job, asserted>>

DelOffline(l) ==
  /\ Runs(l, "delOffline")
  /\ offline' = [offline EXCEPT ![login[l].want] = None]
  /\ Goes(l, "old")
  /\ UNCHANGED <<netVars, fd_list, online, human, nHumans, account, job, db, asserted>>

NoOld(l) ==
  /\ Runs(l, "old") /\ online[account] = None
  /\ Goes(l, "switch")
  /\ UNCHANGED <<netVars, fd_list, online, offline, human, nHumans, account, job, db, asserted>>

\* The account is online without a connection or on this one.
ReleaseOld(l) ==
  /\ Runs(l, "old") /\ online[account] # None
  /\ LET h == online[account]
     IN  /\ human[h].fd \in {None, login[l].fd}
         /\ human' = TimersStopped(h)
         /\ fd_list' = FdListWithout(h)
         /\ online' = [OnlineWithout(h) EXCEPT ![account] = None]
         /\ db' = SavedDb(h)
  /\ Yields(l, "switch")
  /\ UNCHANGED <<netVars, offline, nHumans, account, job, asserted>>

\* Mutant: the old character is sent away without being released.
KickOldOnly(l) ==
  /\ Runs(l, "old") /\ online[account] # None
  /\ LET h == online[account]
     IN  /\ human[h].fd \notin {None, login[l].fd}
         /\ online' = [online EXCEPT ![account] = None]
         /\ login' = [login EXCEPT ![l].pc = "switch"]
  /\ turn' = l
  /\ UNCHANGED <<netVars, fd_list, human, db, offline, nHumans, account, job, asserted>>

\* The account is online on another connection: disconnect, which releases, ...
KickOld(l) ==
  /\ Runs(l, "old") /\ online[account] # None
  /\ LET h == online[account]
     IN  /\ human[h].fd \notin {None, login[l].fd}
         /\ human' = TimersStopped(h)
         /\ fd_list' = FdListWithout(h)
         /\ online' = [OnlineWithout(h) EXCEPT ![account] = None]
         /\ db' = SavedDb(h)
         /\ login' = [login EXCEPT ![l].pc = "again", ![l].old = h]
  /\ turn' = None
  /\ UNCHANGED <<netVars, offline, nHumans, account, job, asserted>>

\* ... and release once more.
ReleaseAgain(l) ==
  /\ Runs(l, "again")
  /\ Release(login[l].old)
  /\ login' = [login EXCEPT ![l].pc = "switch", ![l].old = None]
  /\ turn' = None
  /\ UNCHANGED <<netVars, offline, nHumans, account, job, asserted>>

NoSwitch(l) ==
  /\ Runs(l, "switch") /\ fd_list[login[l].fd] = None
  /\ Goes(l, "new")
  /\ UNCHANGED <<netVars, fd_list, online, offline, human, nHumans, account, job, db, asserted>>

\* The connection changes its account.
Switch(l) ==
  /\ Runs(l, "switch") /\ fd_list[login[l].fd] # None
  /\ Release(fd_list[login[l].fd])
  /\ Yields(l, "new")
  /\ UNCHANGED <<netVars, offline, nHumans, account, job, asserted>>

(* ObjHuman.new and human:load.  ObjectManager.add has already listed the  *)
(* object by id when it asserts that its descriptor is free.               *)
MakeHuman(l) ==
  /\ Runs(l, "new") /\ fd_list[login[l].fd] = None
  /\ LET h == nHumans + 1
     IN  /\ h \in HumanIds
         /\ nHumans' = h
         /\ human' = [human EXCEPT ![h].fd = login[l].fd]
         /\ fd_list' = [fd_list EXCEPT ![login[l].fd] = h]
         /\ login' = [login EXCEPT ![l].pc = "loaded", ![l].h = h,
                                   ![l].want = account, ![l].found = db[account]]
  /\ turn' = None
  /\ UNCHANGED <<netVars, online, offline, account, job, db, asserted>>

MakeHumanAsserts(l) ==
  /\ Runs(l, "new") /\ fd_list[login[l].fd] # None
  /\ asserted' = TRUE
  /\ Ends(l)
  /\ UNCHANGED <<netVars, fd_list, online, offline, human, nHumans, account, job, db>>

\* Somebody came online under the account meanwhile: the handler just ends.
LoadedLate(l) ==
  /\ Runs(l, "loaded") /\ online[account] # None
  /\ human' = IF login[l].found = 0 THEN human
              ELSE [human EXCEPT ![login[l].h].acct = login[l].want,
                                 ![login[l].h].ver = login[l].found]
  /\ Ends(l)
  /\ UNCHANGED <<netVars, fd_list, online, offline, nHumans, account, job, db, asserted>>

\* HumanManager.addOnline.
AddOnline(a, h) ==
  /\ offline' = [offline EXCEPT ![a] = None]
  /\ online' = [online EXCEPT ![a] = h]

Loaded(l) ==
  /\ Runs(l, "loaded") /\ online[account] = None
  /\ login[l].found # 0
  /\ human' = [human EXCEPT ![login[l].h].acct = login[l].want,
                            ![login[l].h].ver = login[l].found]
  /\ AddOnline(account, login[l].h)
  /\ Goes(l, "enter")
  /\ UNCHANGED <<netVars, fd_list, nHumans, account, job, db, asserted>>

\* A new player: getNewName asks the database whether the name is taken, ...
LoadedNew(l) ==
  /\ Runs(l, "loaded") /\ online[account] = None
  /\ login[l].found = 0
  /\ human' = [human EXCEPT ![login[l].h].acct = account, ![login[l].h].ver = 1]
  /\ Yields(l, "named")
  /\ UNCHANGED <<netVars, fd_list, online, offline, nHumans, account, job, db, asserted>>

\* ... and addUser inserts the document.
Named(l) ==
  /\ Runs(l, "named")
  /\ AddOnline(account, login[l].h)
  /\ db' = [db EXCEPT ![human[login[l].h].acct] = human[login[l].h].ver]
  /\ Yields(l, "enter")
  /\ UNCHANGED <<netVars, fd_list, human, nHumans, account, job, asserted>>

(* loginForbid disconnects a forbidden account, which releases it; others  *)
(* get a token and the periodic save.  For a character that lost its       *)
(* connection meanwhile _GetIP raises an error before either.              *)
EnterWithoutFd(l) ==
  /\ Runs(l, "enter") /\ human[login[l].h].fd = None
  /\ Ends(l)
  /\ UNCHANGED <<netVars, fd_list, online, offline, human, nHumans, account, job, db, asserted>>

Forbidden(l) ==
  /\ Runs(l, "enter") /\ human[login[l].h].fd # None
  /\ Release(login[l].h)
  /\ Ends(l)
  /\ UNCHANGED <<netVars, offline, nHumans, account, job, asserted>>

DoHumanLogin(l) ==
  /\ Runs(l, "enter") /\ human[login[l].h].fd # None
  /\ human' = [human EXCEPT ![login[l].h].token = TRUE, ![login[l].h].saves = TRUE]
  /\ Ends(l)
  /\ UNCHANGED <<netVars, fd_list, online, offline, nHumans, account, job, db, asserted>>

LoginStep(l) ==
  \/ NoOffline(l) \/ SaveOffline(l) \/ DelOffline(l)
  \/ NoOld(l) \/ ReleaseOld(l) \/ KickOld(l) \/ ReleaseAgain(l)
  \/ NoSwitch(l) \/ Switch(l)
  \/ MakeHuman(l) \/ MakeHumanAsserts(l)
  \/ LoadedLate(l) \/ Loaded(l) \/ LoadedNew(l) \/ Named(l)
  \/ EnterWithoutFd(l) \/ Forbidden(l) \/ DoHumanLogin(l)
-----------------------------------------------------------------------------
(* The other handlers.                                                     *)

\* A packet of a character that changes its data.
Play(f) ==
  /\ turn = None /\ f \in open
  /\ LET h == fd_list[f]
     IN  /\ h # None
         /\ human[h].acct # None /\ human[h].ver < MaxVer
         /\ human' = [human EXCEPT ![h].ver = @ + 1]
  /\ UNCHANGED <<netVars, fd_list, online, offline, nHumans, account, login, turn, job, db,
                 asserted>>

\* onSaveCharDB, every five minutes.
SaveTimer(h) ==
  /\ turn = None /\ human[h].saves
  /\ db' = SavedDb(h)
  /\ UNCHANGED <<netVars, fd_list, online, offline, human, nHumans, account, login, turn, job,
                 asserted>>

\* Mutant: the character that lost its connection is not given a deadline.
DisconnectNoTimer(f, gone) ==
  /\ turn = None /\ f \in open
  /\ open' = IF gone THEN open \ {f} ELSE open
  /\ fd_list' = [fd_list EXCEPT ![f] = None]
  /\ human' = IF fd_list[f] = None THEN human ELSE [human EXCEPT ![fd_list[f]].fd = None]
  /\ UNCHANGED <<closing, online, offline, nHumans, account, login, turn, job, db, asserted>>

(* ObjHuman.onDisconnect, on the IO thread's notice that the connection is *)
(* gone or on a CG_DISCONNECT the client sends itself.                     *)
Disconnect(f, gone) ==
  /\ turn = None /\ f \in open
  /\ open' = IF gone THEN open \ {f} ELSE open
  /\ fd_list' = [fd_list EXCEPT ![f] = None]
  /\ human' = IF fd_list[f] = None THEN human
              ELSE [human EXCEPT ![fd_list[f]].fd = None, ![fd_list[f]].relog = TRUE]
  /\ UNCHANGED <<closing, online, offline, nHumans, account, login, turn, job, db, asserted>>

(* onCheckReLogin, ten minutes after a disconnect: no login's database     *)
(* call takes that long.                                                   *)
RelogTimeout(h) ==
  /\ turn = None /\ human[h].relog
  /\ \A l \in Logins : login[l].h # h
  /\ IF human[h].fd = None
       THEN Release(h)
       ELSE /\ human' = [human EXCEPT ![h].relog = FALSE]
            /\ UNCHANGED <<fd_list, online, db>>
  /\ UNCHANGED <<netVars, offline, nHumans, account, login, turn, job, asserted>>

\* Mutant: the old connection stays in fd_list.
ReLoginKeepsOldFd(f, a) ==
  /\ turn = None /\ f \in open /\ online[a] # None
  /\ human[online[a]].token /\ human[online[a]].fd # f
  /\ LET h   == online[a]
         old == human[h].fd
     IN  /\ closing' = IF old = None THEN closing ELSE closing \cup {old}
         /\ human' = [human EXCEPT ![h].fd = f, ![h].relog = FALSE]
         /\ IF fd_list[f] = None
              THEN fd_list' = [fd_list EXCEPT ![f] = h] /\ UNCHANGED asserted
              ELSE asserted' = TRUE /\ UNCHANGED fd_list
  /\ UNCHANGED <<open, online, offline, nHumans, account, login, turn, job, db>>

(* onCGReLogin with the token of the character that is online moves it to  *)
(* this connection.  addByFd has given it the descriptor when it asserts   *)
(* that the descriptor is free.                                            *)
ReLogin(f, a) ==
  /\ turn = None /\ f \in open /\ online[a] # None
  /\ human[online[a]].token /\ human[online[a]].fd # f
  /\ LET h    == online[a]
         old  == human[h].fd
         list == FdListWithout(h)
     IN  /\ closing' = IF old = None THEN closing ELSE closing \cup {old}
         /\ human' = [human EXCEPT ![h].fd = f, ![h].relog = FALSE]
         /\ IF list[f] = None
              THEN fd_list' = [list EXCEPT ![f] = h] /\ UNCHANGED asserted
              ELSE fd_list' = list /\ asserted' = TRUE
  /\ UNCHANGED <<open, online, offline, nHumans, account, login, turn, job, db>>

\* onCGReLogin for an account that is offline, or without its token.
ReLoginFails(f) ==
  /\ turn = None /\ f \in open
  /\ closing' = closing \cup {f}
  /\ UNCHANGED <<open, fd_list, online, offline, human, nHumans, account, login, turn, job, db,
                 asserted>>
-----------------------------------------------------------------------------
(* Offline characters.                                                     *)

\* HumanManager.loadOffline without a copy: OfflineHuman.new asks the database.
LoadOffline(a) ==
  /\ OfflineLoads /\ turn = None /\ job = NoJob
  /\ online[a] = None /\ offline[a] = None
  /\ job' = [kind |-> "load", acct |-> a, ver |-> db[a]]
  /\ UNCHANGED <<netVars, fd_list, online, offline, human, nHumans, account, login, turn, db,
                 asserted>>

\* Mutant: an account without a document gets a copy.
OfflineLoadedBlind ==
  /\ turn = None /\ job.kind = "load"
  /\ offline' = [offline EXCEPT ![job.acct] = job.ver]
  /\ job' = NoJob
  /\ UNCHANGED <<netVars, fd_list, online, human, nHumans, account, login, turn, db, asserted>>

OfflineLoaded ==
  /\ turn = None /\ job.kind = "load"
  /\ offline' = IF job.ver = 0 THEN offline ELSE [offline EXCEPT ![job.acct] = job.ver]
  /\ job' = NoJob
  /\ UNCHANGED <<netVars, fd_list, online, human, nHumans, account, login, turn, db, asserted>>

\* A handler that found the copy (a payment, a reward) changes it.
EditOffline(a) ==
  /\ turn = None /\ online[a] = None
  /\ offline[a] # None /\ offline[a] < MaxVer
  /\ offline' = [offline EXCEPT ![a] = @ + 1]
  /\ UNCHANGED <<netVars, fd_list, online, human, nHumans, account, login, turn, job, db,
                 asserted>>

\* onSaveOfflineDB: a copy nobody used for ten minutes is saved, ...
SweepOffline(a) ==
  /\ turn = None /\ job = NoJob /\ offline[a] # None
  /\ db' = [db EXCEPT ![a] = offline[a]]
  /\ job' = [kind |-> "sweep", acct |-> a, ver |-> 0]
  /\ UNCHANGED <<netVars, fd_list, online, offline, human, nHumans, account, login, turn,
                 asserted>>

\* ... and dropped.
SweptOffline ==
  /\ turn = None /\ job.kind = "sweep"
  /\ offline' = [offline EXCEPT ![job.acct] = None]
  /\ job' = NoJob
  /\ UNCHANGED <<netVars, fd_list, online, human, nHumans, account, login, turn, db, asserted>>
-----------------------------------------------------------------------------
(* The IO thread.                                                          *)

Connect(f) ==
  /\ turn = None /\ f \notin open
  /\ open' = open \cup {f}
  /\ UNCHANGED <<closing, fd_list, online, offline, human, nHumans, account, login, turn, job,
                 db, asserted>>

\* A GC_DISCONNECT closes whatever the descriptor stands for by now, without notice.
ServerClose(f) ==
  /\ turn = None /\ f \in closing
  /\ closing' = closing \ {f}
  /\ open' = open \ {f}
  /\ UNCHANGED <<fd_list, online, offline, human, nHumans, account, login, turn, job, db,
                 asserted>>
-----------------------------------------------------------------------------
Packet(f) ==
  \/ \E l \in Logins, a \in Accounts : AskLogin(l, f, a)
  \/ \E a \in Accounts : ReLogin(f, a)
  \/ \E gone \in BOOLEAN : Disconnect(f, gone)
  \/ RejectLogin(f) \/ ReLoginFails(f) \/ Play(f)

OfflineStep ==
  \/ \E a \in Accounts : LoadOffline(a) \/ EditOffline(a) \/ SweepOffline(a)
  \/ OfflineLoaded \/ SweptOffline

Next ==
  \/ \E l \in Logins : LoginStep(l)
  \/ \E f \in Fds : Connect(f) \/ ServerClose(f) \/ Packet(f)
  \/ \E h \in HumanIds : SaveTimer(h) \/ RelogTimeout(h)
  \/ OfflineStep

Spec == Init /\ [][Next]_vars

(* The logic thread goes on with a login it is running, DBPipe answers     *)
(* every call (its EveryCallAnswered), and a timer that is started fires.  *)
FairSpec ==
  /\ Spec
  /\ \A l \in Logins : WF_vars(LoginStep(l))
  /\ \A h \in HumanIds : WF_vars(RelogTimeout(h))
-----------------------------------------------------------------------------
(* The type invariant.                                                     *)
TypeOK ==
  /\ open \in SUBSET Fds /\ closing \in SUBSET Fds
  /\ fd_list \in [Fds -> HumanIds \cup {None}]
  /\ online \in [Accounts -> HumanIds \cup {None}]
  /\ offline \in [Accounts -> (1 .. MaxVer) \cup {None}]
  /\ human \in [HumanIds -> Human]
  /\ nHumans \in 0 .. MaxHumans
  /\ account \in Accounts \cup {None}
  /\ login \in [Logins -> Login]
  /\ turn \in Logins \cup {None}
  /\ job \in Job
  /\ db \in [Accounts -> 0 .. MaxVer]
  /\ asserted \in BOOLEAN

(* Whoever is listed under a descriptor answers through that descriptor:   *)
(* however logins, kicks, re-logins and disconnects overlap, no two        *)
(* descriptors lead to one character (ObjectManager fd_list and obj.fd).   *)
FdAgrees == \A f \in Fds : fd_list[f] # None => human[fd_list[f]].fd = f

(* A character is online under its own account (HumanManager.online).      *)
OnlineKeyed == \A a \in Accounts : online[a] # None => human[online[a]].acct = a

(* An account plays through one connection at most once its logins are     *)
(* over: a second login takes the first connection's character away        *)
(* (EventHandler.lua:66).                                                  *)
Plays(f, a) ==
  /\ fd_list[f] # None /\ human[fd_list[f]].acct = a
  /\ \A l \in Logins : login[l].h # fd_list[f]

OnePlayer ==
  \A a \in Accounts, f, g \in Fds : Plays(f, a) /\ Plays(g, a) => f = g

(* A character that is online without a connection has a deadline, however *)
(* the disconnect fell between the steps of its login: none stays online   *)
(* for ever (ObjHuman.onDisconnect, onCheckReLogin).                       *)
DisconnectedHasDeadline ==
  \A a \in Accounts :
    online[a] # None /\ human[online[a]].fd = None => human[online[a]].relog

(* What the database holds of an account never goes back: kicks, releases, *)
(* timers and loads of its successive characters leave no stale object     *)
(* behind that would save over newer data.                                 *)
NothingLost == [][\A a \in Accounts : db'[a] >= db[a]]_vars

(* A character that lost its connection comes back or leaves.              *)
DisconnectedEnds ==
  \A a \in Accounts, h \in HumanIds :
    online[a] = h /\ human[h].fd = None ~> online[a] # h \/ human[h].fd # None

(* ObjectManager.lua:34 asserts that the descriptor a character gets by a  *)
(* re-login is free, and line 27 that the descriptor of a new one is.      *)
FdFree == ~asserted
=============================================================================
