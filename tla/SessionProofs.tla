--------------------------- MODULE SessionProofs ---------------------------
(* Proofs about Session, for every set of descriptors, accounts and        *)
(* logins, and all bounds.                                                 *)
EXTENDS Session, TLAPS

(* What a login under way knows: its connection and account, the object it *)
(* has made, the one it has kicked.                                        *)
LoginKnows(l) ==
  /\ login[l].pc # "idle" =>
       login[l].fd \in Fds /\ login[l].want \in Accounts /\ account \in Accounts
  /\ login[l].pc \in {"loaded", "named", "enter"} => login[l].h \in HumanIds
  /\ login[l].pc = "again" => login[l].old \in HumanIds

LoginsKnow == \A l \in Logins : LoginKnows(l)

Shape ==
  /\ TypeOK /\ LoginsKnow
  /\ job.kind # "none" => job.acct \in Accounts
-----------------------------------------------------------------------------
(* Objects and logins with fields replaced.                                *)
LEMMA HumanStops ==
  ASSUME TypeOK, NEW h \in HumanIds
  PROVE  [human EXCEPT ![h].relog = FALSE, ![h].saves = FALSE] \in [HumanIds -> Human]
<1> DEFINE r == human[h]
<1>1. r \in Human /\ human \in [HumanIds -> Human]
  BY DEF TypeOK
<1> HIDE DEF r
<1>2. [r EXCEPT !.relog = FALSE, !.saves = FALSE] \in Human
  BY <1>1 DEF Human
<1>3. [human EXCEPT ![h].relog = FALSE, ![h].saves = FALSE] = [human EXCEPT ![h]
        = [r EXCEPT !.relog = FALSE, !.saves = FALSE]]
  BY <1>1 DEF r
<1> QED BY <1>1, <1>2, <1>3

LEMMA HumanLoads ==
  ASSUME TypeOK, NEW h \in HumanIds, NEW a \in Accounts, NEW v \in 0 .. MaxVer
  PROVE  [human EXCEPT ![h].acct = a, ![h].ver = v] \in [HumanIds -> Human]
<1> DEFINE r == human[h]
<1>1. r \in Human /\ human \in [HumanIds -> Human]
  BY DEF TypeOK
<1> HIDE DEF r
<1>2. [r EXCEPT !.acct = a, !.ver = v] \in Human
  BY <1>1 DEF Human
<1>3. [human EXCEPT ![h].acct = a, ![h].ver = v] = [human EXCEPT ![h]
        = [r EXCEPT !.acct = a, !.ver = v]]
  BY <1>1 DEF r
<1> QED BY <1>1, <1>2, <1>3

LEMMA HumanEnters ==
  ASSUME TypeOK, NEW h \in HumanIds
  PROVE  [human EXCEPT ![h].token = TRUE, ![h].saves = TRUE] \in [HumanIds -> Human]
<1> DEFINE r == human[h]
<1>1. r \in Human /\ human \in [HumanIds -> Human]
  BY DEF TypeOK
<1> HIDE DEF r
<1>2. [r EXCEPT !.token = TRUE, !.saves = TRUE] \in Human
  BY <1>1 DEF Human
<1>3. [human EXCEPT ![h].token = TRUE, ![h].saves = TRUE] = [human EXCEPT ![h]
        = [r EXCEPT !.token = TRUE, !.saves = TRUE]]
  BY <1>1 DEF r
<1> QED BY <1>1, <1>2, <1>3

LEMMA HumanMoves ==
  ASSUME TypeOK, NEW h \in HumanIds, NEW f \in Fds \cup {None}, NEW b \in BOOLEAN
  PROVE  [human EXCEPT ![h].fd = f, ![h].relog = b] \in [HumanIds -> Human]
<1> DEFINE r == human[h]
<1>1. r \in Human /\ human \in [HumanIds -> Human]
  BY DEF TypeOK
<1> HIDE DEF r
<1>2. [r EXCEPT !.fd = f, !.relog = b] \in Human
  BY <1>1 DEF Human
<1>3. [human EXCEPT ![h].fd = f, ![h].relog = b] = [human EXCEPT ![h]
        = [r EXCEPT !.fd = f, !.relog = b]]
  BY <1>1 DEF r
<1> QED BY <1>1, <1>2, <1>3

LEMMA LoginKicks ==
  ASSUME TypeOK, NEW l \in Logins, NEW p \in Pcs, NEW h \in HumanIds \cup {None}
  PROVE  [login EXCEPT ![l].pc = p, ![l].old = h] \in [Logins -> Login]
<1> DEFINE r == login[l]
<1>1. r \in Login /\ login \in [Logins -> Login]
  BY DEF TypeOK
<1> HIDE DEF r
<1>2. [r EXCEPT !.pc = p, !.old = h] \in Login
  BY <1>1 DEF Login
<1>3. [login EXCEPT ![l].pc = p, ![l].old = h]
        = [login EXCEPT ![l] = [r EXCEPT !.pc = p, !.old = h]]
  BY <1>1 DEF r
<1> QED BY <1>1, <1>2, <1>3

LEMMA LoginLoads ==
  ASSUME TypeOK, NEW l \in Logins, NEW p \in Pcs,
         NEW h \in HumanIds, NEW a \in Accounts, NEW v \in 0 .. MaxVer
  PROVE  [login EXCEPT ![l].pc = p, ![l].h = h,
                       ![l].want = a, ![l].found = v] \in [Logins -> Login]
<1> DEFINE r == login[l]
<1>1. r \in Login /\ login \in [Logins -> Login]
  BY DEF TypeOK
<1> HIDE DEF r
<1>2. [r EXCEPT !.pc = p, !.h = h, !.want = a, !.found = v] \in Login
  BY <1>1 DEF Login
<1>3. [login EXCEPT ![l].pc = p, ![l].h = h,
                       ![l].want = a, ![l].found = v]
        = [login EXCEPT ![l] = [r EXCEPT !.pc = p, !.h = h, !.want = a, !.found = v]]
  BY <1>1 DEF r
<1> QED BY <1>1, <1>2, <1>3

LEMMA LoginBegins ==
  ASSUME NEW f \in Fds, NEW a \in Accounts
  PROVE  [NoLogin EXCEPT !.pc = "offline", !.fd = f, !.want = a] \in Login
<1>1. ASSUME NEW r \in Login
      PROVE  [r EXCEPT !.pc = "offline", !.fd = f, !.want = a] \in Login
  BY DEF Login, Pcs
<1>2. NoLogin \in Login
  BY BoundsAssumption DEF NoLogin, Login, Pcs
<1> QED BY <1>1, <1>2

(* What the parts of a release return.                                     *)

LEMMA ReleaseTypes ==
  ASSUME Shape, NEW h \in HumanIds
  PROVE  /\ TimersStopped(h) \in [HumanIds -> Human]
         /\ FdListWithout(h) \in [Fds -> HumanIds \cup {None}]
         /\ OnlineWithout(h) \in [Accounts -> HumanIds \cup {None}]
         /\ SavedDb(h) \in [Accounts -> 0 .. MaxVer]
<1>1. TimersStopped(h) \in [HumanIds -> Human]
  BY HumanStops DEF Shape, TimersStopped
<1>2. FdListWithout(h) \in [Fds -> HumanIds \cup {None}]
  BY DEF Shape, TypeOK, FdListWithout
<1>3. OnlineWithout(h) \in [Accounts -> HumanIds \cup {None}]
  BY DEF Shape, TypeOK, OnlineWithout
<1>4. SavedDb(h) \in [Accounts -> 0 .. MaxVer]
  <2>1. human[h].ver \in 0 .. MaxVer /\ human[h].acct \in Accounts \cup {None}
    BY DEF Shape, TypeOK, Human
  <2> QED BY <2>1, BoundsAssumption, FirstAssumption DEF Shape, TypeOK, SavedDb
<1> QED BY <1>1, <1>2, <1>3, <1>4

(* A login that goes on keeps what it knows, and disturbs no other.        *)
LEMMA PcKept ==
  ASSUME Shape, NEW l \in Logins, NEW p \in Pcs, login[l].pc # "idle",
         login' = [login EXCEPT ![l].pc = p], UNCHANGED account,
         p \in {"loaded", "named", "enter"} => login[l].h \in HumanIds,
         p # "again"
  PROVE  login' \in [Logins -> Login] /\ LoginsKnow'
<1>1. login' \in [Logins -> Login]
  <2>1. login[l] \in Login /\ login \in [Logins -> Login]
    BY DEF Shape, TypeOK
  <2>2. [login[l] EXCEPT !.pc = p] \in Login
    BY <2>1 DEF Login
  <2> QED BY <2>1, <2>2
<1>2. ASSUME NEW m \in Logins PROVE LoginKnows(m)'
  <2>1. CASE m = l
    BY <2>1 DEF Shape, TypeOK, LoginsKnow, LoginKnows, Login
  <2>2. CASE m # l
    <3>1. login'[m] = login[m]
      BY <2>2 DEF Shape, TypeOK
    <3> QED BY <3>1 DEF Shape, LoginsKnow, LoginKnows
  <2> QED BY <2>1, <2>2
<1> QED BY <1>1, <1>2 DEF LoginsKnow

(* A login that ends.                                                      *)
LEMMA EndKept ==
  ASSUME Shape, NEW l \in Logins, Ends(l), UNCHANGED account
  PROVE  login' \in [Logins -> Login] /\ LoginsKnow' /\ turn' = None
<1>1. login' = [login EXCEPT ![l] = NoLogin] /\ turn' = None
  BY DEF Ends
<1>2. NoLogin \in Login
  BY BoundsAssumption DEF NoLogin, Login, Pcs
<1>3. login' \in [Logins -> Login]
  BY <1>1, <1>2 DEF Shape, TypeOK
<1>4. ASSUME NEW m \in Logins PROVE LoginKnows(m)'
  <2>1. CASE m = l
    BY <1>1, <2>1 DEF Shape, TypeOK, LoginKnows, NoLogin
  <2>2. CASE m # l
    <3>1. login'[m] = login[m]
      BY <1>1, <2>2 DEF Shape, TypeOK
    <3> QED BY <3>1 DEF Shape, LoginsKnow, LoginKnows
  <2> QED BY <2>1, <2>2
<1> QED BY <1>1, <1>3, <1>4 DEF LoginsKnow

(* A step that leaves logins and accounts alone.                           *)
LEMMA LoginsKept ==
  ASSUME Shape, UNCHANGED <<login, account>>
  PROVE  login' \in [Logins -> Login] /\ LoginsKnow' /\ account' \in Accounts \cup {None}
BY DEF Shape, TypeOK, LoginsKnow, LoginKnows
-----------------------------------------------------------------------------
(* Every step keeps the types.                                             *)
LEMMA ShapeKept == ASSUME Shape, [Next]_vars PROVE Shape'
<1>1. ASSUME NEW l \in Logins, NEW f \in Fds, NEW a \in Accounts, AskLogin(l, f, a) PROVE Shape'
  <2>1. [NoLogin EXCEPT !.pc = "offline", !.fd = f, !.want = a] \in Login
    BY LoginBegins
  <2>2. login' \in [Logins -> Login] /\ account' = a
    BY <1>1, <2>1 DEF AskLogin, Shape, TypeOK
  <2>3. ASSUME NEW m \in Logins PROVE LoginKnows(m)'
    <3>1. CASE m = l
      BY <1>1, <2>2, <3>1 DEF AskLogin, Shape, TypeOK, LoginKnows, NoLogin
    <3>2. CASE m # l
      <4>1. login'[m] = login[m]
        BY <1>1, <3>2 DEF AskLogin, Shape, TypeOK
      <4> QED BY <2>2, <4>1 DEF Shape, LoginsKnow, LoginKnows
    <3> QED BY <3>1, <3>2
  <2>4. LoginsKnow'
    BY <2>3 DEF LoginsKnow
  <2> QED BY <1>1, <2>2, <2>4 DEF AskLogin, Shape, TypeOK, netVars
<1>2. ASSUME NEW l \in Logins, NoOffline(l) PROVE Shape'
  <2>1. login[l].pc # "idle" /\ turn' \in {l, None}
    BY <1>2 DEF NoOffline, Runs, Goes, Yields
  <2>2. login' = [login EXCEPT ![l].pc = "old"] /\ UNCHANGED account
    BY <1>2 DEF NoOffline, Goes, Yields
  <2>3. login' \in [Logins -> Login] /\ LoginsKnow'
    BY <2>1, <2>2, PcKept DEF Pcs
  <2> QED BY <1>2, <2>1, <2>3 DEF NoOffline, Shape, TypeOK, netVars
<1>3. ASSUME NEW l \in Logins, SaveOffline(l) PROVE Shape'
  <2>1. login[l].pc # "idle" /\ turn' \in {l, None}
    BY <1>3 DEF SaveOffline, Runs, Goes, Yields
  <2>2. login' = [login EXCEPT ![l].pc = "delOffline"] /\ UNCHANGED account
    BY <1>3 DEF SaveOffline, Goes, Yields
  <2>4. db' \in [Accounts -> 0 .. MaxVer]
    BY <1>3, NoneAssumption, BoundsAssumption
    DEF SaveOffline, Shape, TypeOK, LoginsKnow, LoginKnows, Runs
  <2>3. login' \in [Logins -> Login] /\ LoginsKnow'
    BY <2>1, <2>2, PcKept DEF Pcs
  <2> QED BY <1>3, <2>1, <2>3, <2>4 DEF SaveOffline, Shape, TypeOK, netVars
<1>4. ASSUME NEW l \in Logins, DelOffline(l) PROVE Shape'
  <2>1. login[l].pc # "idle" /\ turn' \in {l, None}
    BY <1>4 DEF DelOffline, Runs, Goes, Yields
  <2>2. login' = [login EXCEPT ![l].pc = "old"] /\ UNCHANGED account
    BY <1>4 DEF DelOffline, Goes, Yields
  <2>3. login' \in [Logins -> Login] /\ LoginsKnow'
    BY <2>1, <2>2, PcKept DEF Pcs
  <2> QED BY <1>4, <2>1, <2>3 DEF DelOffline, Shape, TypeOK, netVars
<1>5. ASSUME NEW l \in Logins, NoOld(l) PROVE Shape'
  <2>1. login[l].pc # "idle" /\ turn' \in {l, None}
    BY <1>5 DEF NoOld, Runs, Goes, Yields
  <2>2. login' = [login EXCEPT ![l].pc = "switch"] /\ UNCHANGED account
    BY <1>5 DEF NoOld, Goes, Yields
  <2>3. login' \in [Logins -> Login] /\ LoginsKnow'
    BY <2>1, <2>2, PcKept DEF Pcs
  <2> QED BY <1>5, <2>1, <2>3 DEF NoOld, Shape, TypeOK, netVars
<1>6. ASSUME NEW l \in Logins, ReleaseOld(l) PROVE Shape'
  <2>1. login[l].pc # "idle" /\ turn' \in {l, None}
    BY <1>6 DEF ReleaseOld, Runs, Goes, Yields
  <2>2. login' = [login EXCEPT ![l].pc = "switch"] /\ UNCHANGED account
    BY <1>6 DEF ReleaseOld, Goes, Yields
  <2>4. online[account] \in HumanIds
    BY <1>6, <2>1 DEF ReleaseOld, Shape, TypeOK, LoginsKnow, LoginKnows
  <2>5. online' \in [Accounts -> HumanIds \cup {None}]
    BY <1>6, <2>4, ReleaseTypes DEF ReleaseOld
  <2>3. login' \in [Logins -> Login] /\ LoginsKnow'
    BY <2>1, <2>2, PcKept DEF Pcs
  <2> QED BY <1>6, <2>1, <2>3, <2>4, <2>5, ReleaseTypes DEF ReleaseOld, Shape, TypeOK, netVars
<1>7. ASSUME NEW l \in Logins, KickOld(l) PROVE Shape'
  <2>1. login[l].pc # "idle"
    BY <1>7 DEF KickOld, Runs
  <2>2. online[account] \in HumanIds
    BY <1>7, <2>1 DEF KickOld, Shape, TypeOK, LoginsKnow, LoginKnows
  <2>3. login' = [login EXCEPT ![l].pc = "again", ![l].old = online[account]] /\ UNCHANGED account
    BY <1>7 DEF KickOld
  <2>4. login' \in [Logins -> Login]
    BY <2>2, <2>3, LoginKicks DEF Shape, Pcs
  <2>5. LoginsKnow'
    BY <2>1, <2>2, <2>3 DEF Shape, TypeOK, LoginsKnow, LoginKnows, Login
  <2>6. online' \in [Accounts -> HumanIds \cup {None}]
    BY <1>7, <2>2, ReleaseTypes DEF KickOld
  <2> QED BY <1>7, <2>2, <2>4, <2>5, <2>6, ReleaseTypes DEF KickOld, Shape, TypeOK, netVars
<1>8. ASSUME NEW l \in Logins, ReleaseAgain(l) PROVE Shape'
  <2>1. login[l].pc # "idle" /\ login[l].old \in HumanIds
    BY <1>8 DEF ReleaseAgain, Runs, Shape, LoginsKnow, LoginKnows
  <2>2. login' = [login EXCEPT ![l].pc = "switch", ![l].old = None] /\ UNCHANGED account
    BY <1>8 DEF ReleaseAgain
  <2>3. login' \in [Logins -> Login]
    BY <2>2, LoginKicks DEF Shape, Pcs
  <2>4. LoginsKnow'
    BY <2>1, <2>2 DEF Shape, TypeOK, LoginsKnow, LoginKnows, Login
  <2> QED BY <1>8, <2>1, <2>3, <2>4, ReleaseTypes
          DEF ReleaseAgain, Release, Shape, TypeOK, netVars
<1>9. ASSUME NEW l \in Logins, NoSwitch(l) PROVE Shape'
  <2>1. login[l].pc # "idle" /\ turn' \in {l, None}
    BY <1>9 DEF NoSwitch, Runs, Goes, Yields
  <2>2. login' = [login EXCEPT ![l].pc = "new"] /\ UNCHANGED account
    BY <1>9 DEF NoSwitch, Goes, Yields
  <2>3. login' \in [Logins -> Login] /\ LoginsKnow'
    BY <2>1, <2>2, PcKept DEF Pcs
  <2> QED BY <1>9, <2>1, <2>3 DEF NoSwitch, Shape, TypeOK, netVars
<1>10. ASSUME NEW l \in Logins, Switch(l) PROVE Shape'
  <2>1. login[l].pc # "idle" /\ turn' \in {l, None}
    BY <1>10 DEF Switch, Runs, Goes, Yields
  <2>2. login' = [login EXCEPT ![l].pc = "new"] /\ UNCHANGED account
    BY <1>10 DEF Switch, Goes, Yields
  <2>4. fd_list[login[l].fd] \in HumanIds
    BY <1>10, <2>1 DEF Switch, Shape, TypeOK, LoginsKnow, LoginKnows
  <2>3. login' \in [Logins -> Login] /\ LoginsKnow'
    BY <2>1, <2>2, PcKept DEF Pcs
  <2> QED BY <1>10, <2>1, <2>3, <2>4, ReleaseTypes DEF Switch, Shape, TypeOK, netVars, Release
<1>11. ASSUME NEW l \in Logins, MakeHuman(l) PROVE Shape'
  <2> DEFINE h == nHumans + 1
  <2>1. login[l].fd \in Fds /\ account \in Accounts /\ h \in HumanIds
    BY <1>11 DEF MakeHuman, Runs, Shape, LoginsKnow, LoginKnows
  <2>2. login' = [login EXCEPT ![l].pc = "loaded", ![l].h = h,
                               ![l].want = account, ![l].found = db[account]]
    BY <1>11 DEF MakeHuman
  <2>3. UNCHANGED account
    BY <1>11 DEF MakeHuman
  <2>a. db[account] \in 0 .. MaxVer
    BY <2>1 DEF Shape, TypeOK
  <2>4. login' \in [Logins -> Login]
    <3> HIDE DEF h
    <3>1. "loaded" \in Pcs /\ TypeOK
      BY DEF Pcs, Shape
    <3> QED BY <2>1, <2>2, <2>a, <3>1, LoginLoads
  <2>5. LoginsKnow'
    BY <2>1, <2>2, <2>3 DEF Shape, TypeOK, LoginsKnow, LoginKnows, Login
  <2>6. human' \in [HumanIds -> Human] /\ fd_list' \in [Fds -> HumanIds \cup {None}]
    BY <1>11, <2>1 DEF MakeHuman, Shape, TypeOK, Human
  <2>7. nHumans' \in 0 .. MaxHumans
    BY <1>11, <2>1, BoundsAssumption DEF MakeHuman, HumanIds, Shape, TypeOK
  <2> QED BY <1>11, <2>4, <2>5, <2>6, <2>7 DEF MakeHuman, Shape, TypeOK, netVars
<1>12. ASSUME NEW l \in Logins, MakeHumanAsserts(l) PROVE Shape'
  <2>1. Ends(l) /\ UNCHANGED account
    BY <1>12 DEF MakeHumanAsserts
  <2>2. login' \in [Logins -> Login] /\ LoginsKnow' /\ turn' = None
    BY <2>1, EndKept
  <2> QED BY <1>12, <2>2 DEF MakeHumanAsserts, Shape, TypeOK, netVars
<1>13. ASSUME NEW l \in Logins, LoadedLate(l) PROVE Shape'
  <2>1. Ends(l) /\ UNCHANGED account
    BY <1>13 DEF LoadedLate
  <2>2. login' \in [Logins -> Login] /\ LoginsKnow' /\ turn' = None
    BY <2>1, EndKept
  <2>4. /\ login[l].h \in HumanIds /\ login[l].want \in Accounts
        /\ login[l].found \in 0 .. MaxVer
    BY <1>13 DEF LoadedLate, Runs, Shape, TypeOK, LoginsKnow, LoginKnows, Login
  <2>3. human' \in [HumanIds -> Human]
    BY <1>13, <2>4, HumanLoads DEF LoadedLate, Shape, TypeOK
  <2> QED BY <1>13, <2>2, <2>3 DEF LoadedLate, Shape, TypeOK, netVars
<1>14. ASSUME NEW l \in Logins, Loaded(l) PROVE Shape'
  <2>1. login[l].pc # "idle" /\ turn' \in {l, None}
    BY <1>14 DEF Loaded, Runs, Goes, Yields
  <2>2. login' = [login EXCEPT ![l].pc = "enter"] /\ UNCHANGED account
    BY <1>14 DEF Loaded, Goes, Yields
  <2>4. /\ login[l].h \in HumanIds /\ login[l].want \in Accounts
        /\ login[l].found \in 0 .. MaxVer
    BY <1>14 DEF Loaded, Runs, Shape, TypeOK, LoginsKnow, LoginKnows, Login
  <2>5. human' \in [HumanIds -> Human]
    BY <1>14, <2>4, HumanLoads DEF Loaded, Shape
  <2>3. login' \in [Logins -> Login] /\ LoginsKnow'
    BY <2>1, <2>2, <2>4, PcKept DEF Pcs
  <2> QED BY <1>14, <2>1, <2>3, <2>4, <2>5 DEF Loaded, Shape, TypeOK, netVars, AddOnline
<1>15. ASSUME NEW l \in Logins, LoadedNew(l) PROVE Shape'
  <2>1. login[l].pc # "idle" /\ turn' \in {l, None}
    BY <1>15 DEF LoadedNew, Runs, Goes, Yields
  <2>2. login' = [login EXCEPT ![l].pc = "named"] /\ UNCHANGED account
    BY <1>15 DEF LoadedNew, Goes, Yields
  <2>4. login[l].h \in HumanIds /\ account \in Accounts
    BY <1>15 DEF LoadedNew, Runs, Shape, LoginsKnow, LoginKnows
  <2>5. human' \in [HumanIds -> Human]
    BY <1>15, <2>4, HumanLoads, BoundsAssumption DEF LoadedNew, Shape
  <2>3. login' \in [Logins -> Login] /\ LoginsKnow'
    BY <2>1, <2>2, <2>4, PcKept DEF Pcs
  <2> QED BY <1>15, <2>1, <2>3, <2>4, <2>5 DEF LoadedNew, Shape, TypeOK, netVars
<1>16. ASSUME NEW l \in Logins, Named(l) PROVE Shape'
  <2>1. login[l].pc # "idle" /\ turn' \in {l, None}
    BY <1>16 DEF Named, Runs, Goes, Yields
  <2>2. login' = [login EXCEPT ![l].pc = "enter"] /\ UNCHANGED account
    BY <1>16 DEF Named, Goes, Yields
  <2>4. login[l].h \in HumanIds
    BY <1>16 DEF Named, Runs, Shape, LoginsKnow, LoginKnows
  <2>5. db' \in [Accounts -> 0 .. MaxVer]
    BY <1>16, <2>4 DEF Named, Shape, TypeOK, Human
  <2>3. login' \in [Logins -> Login] /\ LoginsKnow'
    BY <2>1, <2>2, <2>4, PcKept DEF Pcs
  <2> QED BY <1>16, <2>1, <2>3, <2>4, <2>5 DEF Named, Shape, TypeOK, netVars, AddOnline
<1>17. ASSUME NEW l \in Logins, EnterWithoutFd(l) PROVE Shape'
  <2>1. Ends(l) /\ UNCHANGED account
    BY <1>17 DEF EnterWithoutFd
  <2>2. login' \in [Logins -> Login] /\ LoginsKnow' /\ turn' = None
    BY <2>1, EndKept
  <2> QED BY <1>17, <2>2 DEF EnterWithoutFd, Shape, TypeOK, netVars
<1>18. ASSUME NEW l \in Logins, Forbidden(l) PROVE Shape'
  <2>1. Ends(l) /\ UNCHANGED account
    BY <1>18 DEF Forbidden
  <2>2. login' \in [Logins -> Login] /\ LoginsKnow' /\ turn' = None
    BY <2>1, EndKept
  <2>3. login[l].h \in HumanIds
    BY <1>18 DEF Forbidden, Runs, Shape, LoginsKnow, LoginKnows
  <2> QED BY <1>18, <2>2, <2>3, ReleaseTypes DEF Forbidden, Shape, TypeOK, netVars, Release
<1>19. ASSUME NEW l \in Logins, DoHumanLogin(l) PROVE Shape'
  <2>1. Ends(l) /\ UNCHANGED account
    BY <1>19 DEF DoHumanLogin
  <2>2. login' \in [Logins -> Login] /\ LoginsKnow' /\ turn' = None
    BY <2>1, EndKept
  <2>4. login[l].h \in HumanIds
    BY <1>19 DEF DoHumanLogin, Runs, Shape, LoginsKnow, LoginKnows
  <2>3. human' \in [HumanIds -> Human]
    BY <1>19, <2>4, HumanEnters DEF DoHumanLogin, Shape
  <2> QED BY <1>19, <2>2, <2>3 DEF DoHumanLogin, Shape, TypeOK, netVars
<1>20. ASSUME NEW f \in Fds, RejectLogin(f) PROVE Shape'
  <2> QED BY <1>20, LoginsKept DEF RejectLogin, Shape, TypeOK, netVars
<1>21. ASSUME NEW f \in Fds, Play(f) PROVE Shape'
  <2>1. human' \in [HumanIds -> Human]
    BY <1>21, BoundsAssumption DEF Play, Shape, TypeOK, Human
  <2> QED BY <1>21, LoginsKept, <2>1 DEF Play, Shape, TypeOK, netVars
<1>22. ASSUME NEW h \in HumanIds, SaveTimer(h) PROVE Shape'
  <2> QED BY <1>22, LoginsKept, ReleaseTypes DEF SaveTimer, Shape, TypeOK, netVars
<1>23. ASSUME NEW f \in Fds, NEW gone \in BOOLEAN, Disconnect(f, gone) PROVE Shape'
  <2>1. human' \in [HumanIds -> Human]
    BY <1>23, HumanMoves DEF Disconnect, Shape, TypeOK
  <2> QED BY <1>23, LoginsKept, <2>1 DEF Disconnect, Shape, TypeOK, netVars
<1>24. ASSUME NEW h \in HumanIds, RelogTimeout(h) PROVE Shape'
  <2>a. [human EXCEPT ![h].relog = FALSE] \in [HumanIds -> Human]
    <3>1. human \in [HumanIds -> Human]
      BY DEF Shape, TypeOK
    <3>2. [human[h] EXCEPT !.relog = FALSE] \in Human
      BY <3>1 DEF Human
    <3> QED BY <3>1, <3>2
  <2>1. human' \in [HumanIds -> Human]
    BY <1>24, <2>a, ReleaseTypes DEF RelogTimeout, Release
  <2> QED BY <1>24, LoginsKept, <2>1, ReleaseTypes
          DEF RelogTimeout, Shape, TypeOK, netVars, Release
<1>25. ASSUME NEW f \in Fds, NEW a \in Accounts, ReLogin(f, a) PROVE Shape'
  <2>1. online[a] \in HumanIds
    BY <1>25 DEF ReLogin, Shape, TypeOK
  <2>2. human' \in [HumanIds -> Human]
    BY <1>25, <2>1, HumanMoves DEF ReLogin, Shape
  <2>4. closing' \in SUBSET Fds
    BY <1>25, <2>1 DEF ReLogin, Shape, TypeOK, Human
  <2>3. fd_list' \in [Fds -> HumanIds \cup {None}] /\ asserted' \in BOOLEAN
    BY <1>25, <2>1, ReleaseTypes DEF ReLogin, Shape, TypeOK
  <2> QED BY <1>25, LoginsKept, <2>2, <2>3, <2>4 DEF ReLogin, Shape, TypeOK, netVars
<1>26. ASSUME NEW f \in Fds, ReLoginFails(f) PROVE Shape'
  <2> QED BY <1>26, LoginsKept DEF ReLoginFails, Shape, TypeOK, netVars
<1>27. ASSUME NEW a \in Accounts, LoadOffline(a) PROVE Shape'
  <2> QED BY <1>27, LoginsKept DEF LoadOffline, Shape, TypeOK, netVars, Job
<1>28. ASSUME OfflineLoaded PROVE Shape'
  <2> QED BY <1>28, LoginsKept, BoundsAssumption, NoneAssumption
          DEF OfflineLoaded, Shape, TypeOK, netVars, Job, NoJob
<1>29. ASSUME NEW a \in Accounts, EditOffline(a) PROVE Shape'
  <2>1. offline' \in [Accounts -> (1 .. MaxVer) \cup {None}]
    BY <1>29, BoundsAssumption DEF EditOffline, Shape, TypeOK
  <2> QED BY <1>29, LoginsKept, <2>1 DEF EditOffline, Shape, TypeOK, netVars
<1>30. ASSUME NEW a \in Accounts, SweepOffline(a) PROVE Shape'
  <2>1. db' \in [Accounts -> 0 .. MaxVer] /\ job' \in Job
    BY <1>30, BoundsAssumption DEF SweepOffline, Shape, TypeOK, Job
  <2> QED BY <1>30, LoginsKept, <2>1 DEF SweepOffline, Shape, TypeOK, netVars, Job
<1>31. ASSUME SweptOffline PROVE Shape'
  <2> QED BY <1>31, LoginsKept, BoundsAssumption, NoneAssumption
          DEF SweptOffline, Shape, TypeOK, netVars, Job, NoJob
<1>32. ASSUME NEW f \in Fds, Connect(f) PROVE Shape'
  <2> QED BY <1>32, LoginsKept DEF Connect, Shape, TypeOK, netVars
<1>33. ASSUME NEW f \in Fds, ServerClose(f) PROVE Shape'
  <2> QED BY <1>33, LoginsKept DEF ServerClose, Shape, TypeOK, netVars
<1>34. CASE UNCHANGED vars
  BY <1>34, LoginsKept DEF vars, Shape, TypeOK, netVars
<1> QED
  BY <1>1, <1>2, <1>3, <1>4, <1>5, <1>6, <1>7, <1>8, <1>9, <1>10, <1>11, <1>12, <1>13, <1>14,
     <1>15, <1>16, <1>17, <1>18, <1>19, <1>20, <1>21, <1>22, <1>23, <1>24, <1>25, <1>26, <1>27,
     <1>28, <1>29, <1>30, <1>31, <1>32, <1>33, <1>34
  DEF Next, LoginStep, Packet, OfflineStep
-----------------------------------------------------------------------------
LEMMA InitShape == Init => Shape
<1> SUFFICES ASSUME Init PROVE Shape
  OBVIOUS
<1>1. TypeOK
  <2>1. NewHuman \in Human /\ NoLogin \in Login /\ NoJob \in Job
    BY BoundsAssumption DEF NewHuman, Human, NoLogin, Login, Pcs, NoJob, Job
  <2>2. 0 \in 0 .. MaxHumans /\ db \in [Accounts -> 0 .. MaxVer]
    BY BoundsAssumption DEF Init
  <2>3. /\ human \in [HumanIds -> Human] /\ login \in [Logins -> Login]
        /\ offline \in [Accounts -> (1 .. MaxVer) \cup {None}]
    BY <2>1 DEF Init
  <2> QED BY <2>1, <2>2, <2>3 DEF Init, TypeOK
<1> QED BY <1>1 DEF Init, Shape, LoginsKnow, LoginKnows, NoLogin, NoJob

(* Characters, logins and their lists hold what their declarations say, and *)
(* a login under way has a connection, an account and, once made, a        *)
(* character (EventHandler onCGAskLogin).                                  *)
THEOREM AlwaysShape == Spec => []Shape
BY InitShape, ShapeKept, PTL DEF Spec

THEOREM TypeCorrect == Spec => []TypeOK
<1>1. Shape => TypeOK
  BY DEF Shape
<1> QED BY <1>1, AlwaysShape, PTL
-----------------------------------------------------------------------------
(* FdAgrees needs that an object the next login makes is listed nowhere    *)
(* yet: every listed object, and every one a login is about to bring       *)
(* online, is among the nHumans made so far.                               *)
HasMade(l) == login[l].pc \in {"loaded", "named", "enter"}

Made ==
  /\ \A f \in Fds : fd_list[f] # None => fd_list[f] <= nHumans
  /\ \A a \in Accounts : online[a] # None => online[a] <= nHumans
  /\ \A l \in Logins : HasMade(l) => login[l].h <= nHumans

FdInv == Shape /\ Made /\ FdAgrees

(* Steps that give no character a connection.                              *)
LEMMA FdsKept ==
  ASSUME FdAgrees, TypeOK,
         \A h \in HumanIds : human'[h].fd = human[h].fd,
         \A f \in Fds : fd_list'[f] \in {fd_list[f], None}
  PROVE  FdAgrees'
BY DEF FdAgrees, TypeOK

LEMMA MadeKept ==
  ASSUME Made, UNCHANGED nHumans,
         \A f \in Fds : fd_list'[f] \in {fd_list[f], None},
         \A a \in Accounts : online'[a] \in {online[a], None},
         \A l \in Logins : HasMade(l)' => HasMade(l) /\ login'[l].h = login[l].h
  PROVE  Made'
BY DEF Made

LEMMA ReleaseKeeps ==
  ASSUME TypeOK, NEW h \in HumanIds
  PROVE  /\ \A g \in HumanIds : TimersStopped(h)[g].fd = human[g].fd
         /\ \A f \in Fds : FdListWithout(h)[f] \in {fd_list[f], None}
         /\ \A a \in Accounts : OnlineWithout(h)[a] \in {online[a], None}
<1>1. ASSUME NEW g \in HumanIds PROVE TimersStopped(h)[g].fd = human[g].fd
  BY DEF TypeOK, TimersStopped, Human
<1>2. \A f \in Fds : FdListWithout(h)[f] \in {fd_list[f], None}
  BY DEF TypeOK, FdListWithout
<1>3. \A a \in Accounts : OnlineWithout(h)[a] \in {online[a], None}
  BY DEF TypeOK, OnlineWithout
<1> QED BY <1>1, <1>2, <1>3

(* A login that goes on to a step before its character is made, or ends,   *)
(* and one that has made it already.                                       *)
LEMMA MadeByPc ==
  ASSUME TypeOK, NEW l \in Logins, NEW p \in Pcs, login' = [login EXCEPT ![l].pc = p],
         p \in {"loaded", "named", "enter"} => HasMade(l)
  PROVE  \A m \in Logins : HasMade(m)' => HasMade(m) /\ login'[m].h = login[m].h
<1> SUFFICES ASSUME NEW m \in Logins, HasMade(m)'
             PROVE  HasMade(m) /\ login'[m].h = login[m].h
  OBVIOUS
<1>1. login'[m].h = login[m].h
  BY DEF TypeOK, Login
<1>2. HasMade(m)
  BY DEF TypeOK, Login, HasMade
<1> QED BY <1>1, <1>2

LEMMA MadeByEnd ==
  ASSUME TypeOK, NEW l \in Logins, Ends(l)
  PROVE  \A m \in Logins : HasMade(m)' => HasMade(m) /\ login'[m].h = login[m].h
BY DEF TypeOK, Ends, HasMade, NoLogin
-----------------------------------------------------------------------------
LEMMA FdInvKept == ASSUME FdInv, [Next]_vars PROVE FdInv'
<1>0. Shape' /\ Shape /\ TypeOK /\ Made /\ FdAgrees
  BY ShapeKept DEF FdInv, Shape
<1>1. ASSUME NEW l \in Logins, NoOffline(l) PROVE Made' /\ FdAgrees'
  <2>1. \A m \in Logins : HasMade(m)' => HasMade(m) /\ login'[m].h = login[m].h
    BY <1>0, <1>1, MadeByPc DEF NoOffline, Goes, Yields, Runs, Pcs, HasMade
  <2> QED BY <1>0, <1>1, <2>1, FdsKept, MadeKept DEF NoOffline
<1>2. ASSUME NEW l \in Logins, SaveOffline(l) PROVE Made' /\ FdAgrees'
  <2>1. \A m \in Logins : HasMade(m)' => HasMade(m) /\ login'[m].h = login[m].h
    BY <1>0, <1>2, MadeByPc DEF SaveOffline, Goes, Yields, Runs, Pcs, HasMade
  <2> QED BY <1>0, <1>2, <2>1, FdsKept, MadeKept DEF SaveOffline
<1>3. ASSUME NEW l \in Logins, DelOffline(l) PROVE Made' /\ FdAgrees'
  <2>1. \A m \in Logins : HasMade(m)' => HasMade(m) /\ login'[m].h = login[m].h
    BY <1>0, <1>3, MadeByPc DEF DelOffline, Goes, Yields, Runs, Pcs, HasMade
  <2> QED BY <1>0, <1>3, <2>1, FdsKept, MadeKept DEF DelOffline
<1>4. ASSUME NEW l \in Logins, NoOld(l) PROVE Made' /\ FdAgrees'
  <2>1. \A m \in Logins : HasMade(m)' => HasMade(m) /\ login'[m].h = login[m].h
    BY <1>0, <1>4, MadeByPc DEF NoOld, Goes, Yields, Runs, Pcs, HasMade
  <2> QED BY <1>0, <1>4, <2>1, FdsKept, MadeKept DEF NoOld
<1>5. ASSUME NEW l \in Logins, ReleaseOld(l) PROVE Made' /\ FdAgrees'
  <2>1. \A m \in Logins : HasMade(m)' => HasMade(m) /\ login'[m].h = login[m].h
    BY <1>0, <1>5, MadeByPc DEF ReleaseOld, Yields, Pcs
  <2>2. online[account] \in HumanIds /\ account \in Accounts
    BY <1>0, <1>5 DEF ReleaseOld, Runs, Shape, TypeOK, LoginsKnow, LoginKnows
  <2>3. \A a \in Accounts : online'[a] \in {online[a], None}
    BY <1>0, <1>5, <2>2, ReleaseTypes, ReleaseKeeps DEF ReleaseOld
  <2> QED BY <1>0, <1>5, <2>1, <2>2, <2>3, ReleaseKeeps, FdsKept, MadeKept DEF ReleaseOld
<1>6. ASSUME NEW l \in Logins, KickOld(l) PROVE Made' /\ FdAgrees'
  <2>1. \A m \in Logins : HasMade(m)' => HasMade(m) /\ login'[m].h = login[m].h
    BY <1>0, <1>6 DEF KickOld, HasMade, TypeOK, Login
  <2>2. online[account] \in HumanIds /\ account \in Accounts
    BY <1>0, <1>6 DEF KickOld, Runs, Shape, TypeOK, LoginsKnow, LoginKnows
  <2>3. \A a \in Accounts : online'[a] \in {online[a], None}
    BY <1>0, <1>6, <2>2, ReleaseTypes, ReleaseKeeps DEF KickOld
  <2> QED BY <1>0, <1>6, <2>1, <2>2, <2>3, ReleaseKeeps, FdsKept, MadeKept DEF KickOld
<1>7. ASSUME NEW l \in Logins, ReleaseAgain(l) PROVE Made' /\ FdAgrees'
  <2>1. \A m \in Logins : HasMade(m)' => HasMade(m) /\ login'[m].h = login[m].h
    BY <1>0, <1>7 DEF ReleaseAgain, HasMade, TypeOK, Login
  <2>2. login[l].old \in HumanIds
    BY <1>0, <1>7 DEF ReleaseAgain, Runs, Shape, LoginsKnow, LoginKnows
  <2> QED BY <1>0, <1>7, <2>1, <2>2, ReleaseKeeps, FdsKept, MadeKept DEF ReleaseAgain, Release
<1>8. ASSUME NEW l \in Logins, NoSwitch(l) PROVE Made' /\ FdAgrees'
  <2>1. \A m \in Logins : HasMade(m)' => HasMade(m) /\ login'[m].h = login[m].h
    BY <1>0, <1>8, MadeByPc DEF NoSwitch, Goes, Yields, Runs, Pcs, HasMade
  <2> QED BY <1>0, <1>8, <2>1, FdsKept, MadeKept DEF NoSwitch
<1>9. ASSUME NEW l \in Logins, Switch(l) PROVE Made' /\ FdAgrees'
  <2>1. \A m \in Logins : HasMade(m)' => HasMade(m) /\ login'[m].h = login[m].h
    BY <1>0, <1>9, MadeByPc DEF Switch, Yields, Pcs
  <2>2. fd_list[login[l].fd] \in HumanIds
    BY <1>0, <1>9 DEF Switch, Runs, Shape, TypeOK, LoginsKnow, LoginKnows
  <2> QED BY <1>0, <1>9, <2>1, <2>2, ReleaseKeeps, FdsKept, MadeKept DEF Switch, Release
<1>10. ASSUME NEW l \in Logins, MakeHuman(l) PROVE Made' /\ FdAgrees'
  <2> DEFINE h == nHumans + 1
  <2>1. h \in HumanIds /\ login[l].fd \in Fds /\ nHumans' = h /\ nHumans \in Nat
    BY <1>0, <1>10 DEF MakeHuman, Runs, Shape, TypeOK, LoginsKnow, LoginKnows
  <2>2. human' = [human EXCEPT ![h].fd = login[l].fd]
    BY <1>10 DEF MakeHuman
  <2>3. fd_list' = [fd_list EXCEPT ![login[l].fd] = h] /\ UNCHANGED online
    BY <1>10 DEF MakeHuman
  <2>4. \A m \in Logins : HasMade(m)' => \/ m = l /\ login'[m].h = h
                                         \/ HasMade(m) /\ login'[m].h = login[m].h
    BY <1>0, <1>10 DEF MakeHuman, HasMade, TypeOK, Login
  <2>5. Made'
    <3>1. \A x \in HumanIds : x <= nHumans => x <= h
      BY <2>1 DEF HumanIds
    <3>2. \A f \in Fds : fd_list'[f] # None => fd_list'[f] <= h
      BY <1>0, <2>1, <2>3, <3>1 DEF Made, TypeOK
    <3>3. \A a \in Accounts : online'[a] # None => online'[a] <= h
      BY <1>0, <2>3, <3>1 DEF Made, TypeOK
    <3>4. \A m \in Logins : HasMade(m)' => login'[m].h <= h
      BY <1>0, <2>1, <2>4, <3>1 DEF Made, HasMade, Shape, LoginsKnow, LoginKnows
    <3> QED BY <2>1, <3>2, <3>3, <3>4 DEF Made
  <2>6. ASSUME NEW f \in Fds, fd_list'[f] # None PROVE human'[fd_list'[f]].fd = f
    <3>1. CASE f = login[l].fd
      BY <1>0, <2>1, <2>2, <2>3, <3>1 DEF TypeOK, Human
    <3>2. CASE f # login[l].fd
      <4>1. fd_list'[f] = fd_list[f] /\ fd_list[f] \in HumanIds /\ fd_list[f] # h
        BY <1>0, <2>1, <2>3, <2>6, <3>2 DEF TypeOK, Made, HumanIds
      <4>2. human'[fd_list[f]] = human[fd_list[f]]
        BY <1>0, <2>2, <4>1 DEF TypeOK
      <4> QED BY <1>0, <2>6, <4>1, <4>2 DEF FdAgrees
    <3> QED BY <3>1, <3>2
  <2> QED BY <2>5, <2>6 DEF FdAgrees
<1>11. ASSUME NEW l \in Logins, MakeHumanAsserts(l) PROVE Made' /\ FdAgrees'
  <2>1. \A m \in Logins : HasMade(m)' => HasMade(m) /\ login'[m].h = login[m].h
    BY <1>0, <1>11, MadeByEnd DEF MakeHumanAsserts
  <2> QED BY <1>0, <1>11, <2>1, FdsKept, MadeKept DEF MakeHumanAsserts
<1>12. ASSUME NEW l \in Logins, LoadedLate(l) PROVE Made' /\ FdAgrees'
  <2>1. \A m \in Logins : HasMade(m)' => HasMade(m) /\ login'[m].h = login[m].h
    BY <1>0, <1>12, MadeByEnd DEF LoadedLate
  <2>2. \A h \in HumanIds : human'[h].fd = human[h].fd
    BY <1>0, <1>12 DEF LoadedLate, TypeOK, Human
  <2> QED BY <1>0, <1>12, <2>1, FdsKept, MadeKept, <2>2 DEF LoadedLate
<1>13. ASSUME NEW l \in Logins, Loaded(l) PROVE Made' /\ FdAgrees'
  <2>1. \A m \in Logins : HasMade(m)' => HasMade(m) /\ login'[m].h = login[m].h
    BY <1>0, <1>13, MadeByPc DEF Loaded, Goes, Yields, Runs, Pcs, HasMade
  <2>2. \A h \in HumanIds : human'[h].fd = human[h].fd
    BY <1>0, <1>13 DEF Loaded, TypeOK, Human
  <2>3. FdAgrees'
    BY <1>0, <1>13, <2>2, FdsKept DEF Loaded
  <2>4. HasMade(l)
    BY <1>13 DEF Loaded, Runs, HasMade
  <2>5. \A a \in Accounts : online'[a] \in {online[a], login[l].h}
    BY <1>0, <1>13 DEF Loaded, AddOnline, TypeOK
  <2>6. UNCHANGED <<fd_list, nHumans>>
    BY <1>13 DEF Loaded
  <2>7. Made'
    <3>1. \A a \in Accounts : online'[a] # None => online'[a] <= nHumans
      BY <1>0, <2>4, <2>5 DEF Made
    <3> QED BY <1>0, <2>1, <2>6, <3>1 DEF Made
  <2> QED BY <2>3, <2>7
<1>14. ASSUME NEW l \in Logins, LoadedNew(l) PROVE Made' /\ FdAgrees'
  <2>1. \A m \in Logins : HasMade(m)' => HasMade(m) /\ login'[m].h = login[m].h
    BY <1>0, <1>14, MadeByPc DEF LoadedNew, Yields, Runs, Pcs, HasMade
  <2>2. \A h \in HumanIds : human'[h].fd = human[h].fd
    BY <1>0, <1>14 DEF LoadedNew, TypeOK, Human
  <2> QED BY <1>0, <1>14, <2>1, <2>2, FdsKept, MadeKept DEF LoadedNew
<1>15. ASSUME NEW l \in Logins, Named(l) PROVE Made' /\ FdAgrees'
  <2>1. \A m \in Logins : HasMade(m)' => HasMade(m) /\ login'[m].h = login[m].h
    BY <1>0, <1>15, MadeByPc DEF Named, Goes, Yields, Runs, Pcs, HasMade
  <2>2. \A h \in HumanIds : human'[h].fd = human[h].fd
    BY <1>0, <1>15 DEF Named, TypeOK, Human
  <2>3. FdAgrees'
    BY <1>0, <1>15, <2>2, FdsKept DEF Named
  <2>4. HasMade(l)
    BY <1>15 DEF Named, Runs, HasMade
  <2>5. \A a \in Accounts : online'[a] \in {online[a], login[l].h}
    BY <1>0, <1>15 DEF Named, AddOnline, TypeOK
  <2>6. UNCHANGED <<fd_list, nHumans>>
    BY <1>15 DEF Named
  <2>7. Made'
    <3>1. \A a \in Accounts : online'[a] # None => online'[a] <= nHumans
      BY <1>0, <2>4, <2>5 DEF Made
    <3> QED BY <1>0, <2>1, <2>6, <3>1 DEF Made
  <2> QED BY <2>3, <2>7
<1>16. ASSUME NEW l \in Logins, EnterWithoutFd(l) PROVE Made' /\ FdAgrees'
  <2>1. \A m \in Logins : HasMade(m)' => HasMade(m) /\ login'[m].h = login[m].h
    BY <1>0, <1>16, MadeByEnd DEF EnterWithoutFd
  <2> QED BY <1>0, <1>16, <2>1, FdsKept, MadeKept DEF EnterWithoutFd
<1>17. ASSUME NEW l \in Logins, Forbidden(l) PROVE Made' /\ FdAgrees'
  <2>1. \A m \in Logins : HasMade(m)' => HasMade(m) /\ login'[m].h = login[m].h
    BY <1>0, <1>17, MadeByEnd DEF Forbidden
  <2>2. login[l].h \in HumanIds
    BY <1>0, <1>17 DEF Forbidden, Runs, Shape, LoginsKnow, LoginKnows
  <2> QED BY <1>0, <1>17, <2>1, <2>2, ReleaseKeeps, FdsKept, MadeKept DEF Forbidden, Release
<1>18. ASSUME NEW l \in Logins, DoHumanLogin(l) PROVE Made' /\ FdAgrees'
  <2>1. \A m \in Logins : HasMade(m)' => HasMade(m) /\ login'[m].h = login[m].h
    BY <1>0, <1>18, MadeByEnd DEF DoHumanLogin
  <2>2. \A h \in HumanIds : human'[h].fd = human[h].fd
    BY <1>0, <1>18 DEF DoHumanLogin, TypeOK, Human
  <2> QED BY <1>0, <1>18, <2>1, FdsKept, MadeKept, <2>2 DEF DoHumanLogin
<1>19. ASSUME NEW l \in Logins, NEW f \in Fds, NEW a \in Accounts, AskLogin(l, f, a)
       PROVE Made' /\ FdAgrees'
  <2>1. \A m \in Logins : HasMade(m)' => HasMade(m) /\ login'[m].h = login[m].h
    BY <1>0, <1>19 DEF AskLogin, HasMade, NoLogin, TypeOK
  <2> QED BY <1>0, <1>19, <2>1, FdsKept, MadeKept DEF AskLogin
<1>20. ASSUME NEW f \in Fds, Play(f) PROVE Made' /\ FdAgrees'
  <2>1. \A m \in Logins : HasMade(m)' => HasMade(m) /\ login'[m].h = login[m].h
    BY <1>20 DEF Play, HasMade
  <2>2. \A h \in HumanIds : human'[h].fd = human[h].fd
    BY <1>0, <1>20 DEF Play, TypeOK, Human
  <2> QED BY <1>0, <1>20, <2>1, FdsKept, MadeKept, <2>2 DEF Play
<1>21. ASSUME NEW h \in HumanIds, RelogTimeout(h) PROVE Made' /\ FdAgrees'
  <2>1. \A m \in Logins : HasMade(m)' => HasMade(m) /\ login'[m].h = login[m].h
    BY <1>21 DEF RelogTimeout, HasMade
  <2>2. CASE human[h].fd = None
    BY <1>0, <1>21, <2>1, <2>2, ReleaseKeeps, FdsKept, MadeKept DEF RelogTimeout, Release
  <2>3. CASE human[h].fd # None
    <3>1. \A g \in HumanIds : human'[g].fd = human[g].fd
      BY <1>0, <1>21, <2>3 DEF RelogTimeout, TypeOK, Human
    <3> QED BY <1>0, <1>21, <2>1, <2>3, <3>1, FdsKept, MadeKept DEF RelogTimeout
  <2> QED BY <2>2, <2>3
<1>22. ASSUME NEW f \in Fds, NEW gone \in BOOLEAN, Disconnect(f, gone) PROVE Made' /\ FdAgrees'
  <2>1. \A m \in Logins : HasMade(m)' => HasMade(m) /\ login'[m].h = login[m].h
    BY <1>22 DEF Disconnect, HasMade
  <2>2. Made'
    BY <1>0, <1>22, <2>1, MadeKept DEF Disconnect, TypeOK
  <2>3. ASSUME NEW g \in Fds, fd_list'[g] # None PROVE human'[fd_list'[g]].fd = g
    <3>1. g # f /\ fd_list'[g] = fd_list[g] /\ fd_list[g] \in HumanIds
      BY <1>0, <1>22, <2>3 DEF Disconnect, TypeOK
    <3>2. human[fd_list[g]].fd = g
      BY <1>0, <3>1, <2>3 DEF FdAgrees
    <3>3. fd_list[f] # None => fd_list[f] # fd_list[g]
      BY <1>0, <3>1, <3>2 DEF FdAgrees
    <3>4. human'[fd_list[g]] = human[fd_list[g]]
      BY <1>0, <1>22, <3>1, <3>3 DEF Disconnect, TypeOK
    <3> QED BY <3>1, <3>2, <3>4
  <2> QED BY <2>2, <2>3 DEF FdAgrees
<1>23. ASSUME NEW f \in Fds, NEW a \in Accounts, ReLogin(f, a) PROVE Made' /\ FdAgrees'
  <2> DEFINE h == online[a]
             list == FdListWithout(h)
  <2>1. \A m \in Logins : HasMade(m)' => HasMade(m) /\ login'[m].h = login[m].h
    BY <1>23 DEF ReLogin, HasMade
  <2>2. h \in HumanIds /\ h <= nHumans /\ human[h].fd # f
    BY <1>0, <1>23 DEF ReLogin, TypeOK, Made
  <2>3. \A g \in Fds : list[g] = None \/ (list[g] = fd_list[g] /\ list[g] # h)
    <3>1. human[h].fd \in Fds \cup {None}
      BY <1>0, <2>2 DEF TypeOK, Human
    <3>2. CASE human[h].fd = None
      BY <1>0, <2>2, <3>2, NoneAssumption DEF TypeOK, FdAgrees, FdListWithout
    <3>3. CASE human[h].fd \in Fds
      BY <1>0, <2>2, <3>3, NoneAssumption DEF TypeOK, FdAgrees, FdListWithout
    <3> QED BY <3>1, <3>2, <3>3
  <2>4. /\ human' = [human EXCEPT ![h].fd = f, ![h].relog = FALSE]
        /\ fd_list' = [list EXCEPT ![f] = h] \/ fd_list' = list
        /\ UNCHANGED <<online, nHumans>>
    BY <1>23 DEF ReLogin
  <2>5. list \in [Fds -> HumanIds \cup {None}]
    BY <1>0, <2>2, ReleaseTypes
  <2> HIDE DEF h, list
  <2>6. \A g \in Fds : \/ fd_list'[g] = None
                       \/ fd_list'[g] = h /\ g = f
                       \/ fd_list'[g] = fd_list[g] /\ fd_list[g] # h
    BY <2>3, <2>4, <2>5
  <2>7. Made'
    BY <1>0, <2>1, <2>2, <2>4, <2>6 DEF Made
  <2>8. \A x \in HumanIds : human'[x].fd = IF x = h THEN f ELSE human[x].fd
    BY <1>0, <2>2, <2>4 DEF TypeOK, Human
  <2>9. ASSUME NEW g \in Fds, fd_list'[g] # None PROVE human'[fd_list'[g]].fd = g
    BY <1>0, <2>2, <2>6, <2>8, <2>9 DEF TypeOK, FdAgrees
  <2> QED BY <2>7, <2>9 DEF FdAgrees
<1>24. ASSUME UNCHANGED <<login, nHumans, online, human, fd_list>> PROVE Made' /\ FdAgrees'
  BY <1>0, <1>24, FdsKept, MadeKept DEF HasMade
<1> QED
  BY <1>0, <1>1, <1>2, <1>3, <1>4, <1>5, <1>6, <1>7, <1>8, <1>9, <1>10, <1>11, <1>12, <1>13,
     <1>14, <1>15, <1>16, <1>17, <1>18, <1>19, <1>20, <1>21, <1>22, <1>23, <1>24
  DEF Next, LoginStep, Packet, OfflineStep, FdInv, vars, netVars, RejectLogin, ReLoginFails,
      Connect,
      ServerClose, SaveTimer, LoadOffline, EditOffline, SweepOffline, OfflineLoaded, SweptOffline

(* Whoever is listed under a descriptor answers through that descriptor,   *)
(* for every number of overlapping logins (ObjectManager.fd_list).         *)
THEOREM FdAlwaysAgrees == Spec => []FdAgrees
<1>1. Init => FdInv
  <2> SUFFICES ASSUME Init PROVE FdInv
    OBVIOUS
  <2> QED BY InitShape DEF FdInv, Init, Made, HasMade, FdAgrees, NoLogin
<1>2. FdInv /\ [Next]_vars => FdInv'
  BY FdInvKept
<1>3. FdInv => FdAgrees
  BY DEF FdInv
<1> QED BY <1>1, <1>2, <1>3, PTL DEF Spec
-----------------------------------------------------------------------------
(* With one login at a time, as in the run that checks the three           *)
(* properties below, a login that has passed its checks finds what it      *)
(* checked unchanged when the database answers; session_twice shows that   *)
(* two logins of one account do not.                                       *)
Alone == \A l, m \in Logins : l = m

(* What a login knows of the state between its steps.                      *)
Checked(l) ==
  /\ login[l].pc # "idle" => account = login[l].want
  /\ ~HasMade(l) => login[l].h = None
  /\ login[l].pc \in {"again", "switch", "new", "loaded", "named"} => online[account] = None
  /\ login[l].pc = "again" => human[login[l].old].acct = account
  /\ login[l].pc \in {"loaded", "named"} =>
       /\ \A a \in Accounts : online[a] # login[l].h
       /\ human[login[l].h].fd = None => human[login[l].h].relog
  /\ login[l].pc = "named" => human[login[l].h].acct = account
  /\ login[l].pc = "enter" => online[account] = login[l].h

(* Every listed character that no login is working on, and every one with  *)
(* a deadline, is the one online under its account.                        *)
Outside(h) == \A l \in Logins : login[l].h # h

Settled(h) == human[h].acct # None /\ online[human[h].acct] = h

AllSettled ==
  /\ \A f \in Fds : fd_list[f] # None /\ Outside(fd_list[f]) => Settled(fd_list[f])
  /\ \A h \in HumanIds : human[h].relog /\ Outside(h) => Settled(h)

Accounted == OnlineKeyed /\ AllSettled /\ DisconnectedHasDeadline

AloneInv == FdInv /\ (\A l \in Logins : Checked(l)) /\ Accounted

LEMMA PcFields ==
  ASSUME TypeOK, NEW l \in Logins, NEW p \in Pcs, login' = [login EXCEPT ![l].pc = p]
  PROVE  /\ login'[l].pc = p /\ login'[l].h = login[l].h
         /\ login'[l].want = login[l].want /\ login'[l].old = login[l].old
BY DEF TypeOK, Login

LEMMA EndFields ==
  ASSUME TypeOK, NEW l \in Logins, Ends(l)
  PROVE  login'[l].pc = "idle" /\ login'[l].h = None
BY DEF TypeOK, Ends, NoLogin

(* A release of a character whose account nobody else is online under.     *)
LEMMA ReleaseAccounted ==
  ASSUME AloneInv, NEW h \in HumanIds,
         human' = TimersStopped(h), fd_list' = FdListWithout(h), online' = OnlineWithout(h),
         human[h].acct # None => online[human[h].acct] \in {h, None},
         \A g \in HumanIds : Outside(g)' => Outside(g) \/ g = h
  PROVE  Accounted'
<1>1. TypeOK /\ FdAgrees /\ Accounted
  BY DEF AloneInv, FdInv, Shape
<1>2. \A g \in HumanIds : /\ human'[g].acct = human[g].acct
                          /\ human'[g].fd = human[g].fd
                          /\ human'[g].relog = IF g = h THEN FALSE ELSE human[g].relog
  BY <1>1 DEF TypeOK, TimersStopped, Human
<1>3. \A a \in Accounts : online'[a] = IF human[h].acct = a THEN None ELSE online[a]
  BY <1>1, NoneAssumption DEF TypeOK, OnlineWithout
<1>4. \A f \in Fds : fd_list'[f] # None => fd_list'[f] = fd_list[f] /\ fd_list[f] # h
  BY <1>1, NoneAssumption DEF TypeOK, FdAgrees, FdListWithout
<1>5. ASSUME NEW g \in HumanIds, g # h, Settled(g) PROVE Settled(g)'
  <2>1. human[g].acct \in Accounts /\ online[human[g].acct] = g
    BY <1>1, <1>5 DEF TypeOK, Human, Settled
  <2>2. human[h].acct # human[g].acct
    BY <1>5, <2>1, NoneAssumption DEF HumanIds
  <2> QED BY <1>2, <1>3, <1>5, <2>1, <2>2 DEF Settled
<1>6. OnlineKeyed'
  <2> SUFFICES ASSUME NEW a \in Accounts, online'[a] # None PROVE human'[online'[a]].acct = a
    BY DEF OnlineKeyed
  <2>1. online'[a] = online[a] /\ online[a] \in HumanIds
    BY <1>1, <1>3 DEF TypeOK
  <2> QED BY <1>1, <1>2, <2>1 DEF Accounted, OnlineKeyed
<1>7. AllSettled'
  <2>1. ASSUME NEW f \in Fds, fd_list'[f] # None, Outside(fd_list[f])'
        PROVE  Settled(fd_list[f])'
    <3>1. fd_list[f] \in HumanIds /\ fd_list'[f] = fd_list[f] /\ fd_list[f] # h
      BY <1>1, <1>4, <2>1 DEF TypeOK
    <3>2. Outside(fd_list[f])
      BY <2>1, <3>1
    <3>3. Settled(fd_list[f])
      BY <1>1, <2>1, <3>1, <3>2 DEF Accounted, AllSettled
    <3>4. Settled(fd_list[f])'
      <4>1. PICK g \in HumanIds : g = fd_list[f]
        BY <3>1
      <4>2. Settled(g)'
        BY <1>5, <3>1, <3>3, <4>1
      <4> QED BY <3>1, <4>1, <4>2 DEF Settled
    <3> QED BY <3>4
  <2>2. ASSUME NEW g \in HumanIds, human'[g].relog, Outside(g)' PROVE Settled(g)'
    BY <1>1, <1>2, <1>5, <2>2 DEF Accounted, AllSettled
  <2> QED BY <2>1, <2>2 DEF AllSettled
<1>8. DisconnectedHasDeadline'
  <2> SUFFICES ASSUME NEW a \in Accounts, online'[a] # None, human'[online'[a]].fd = None
               PROVE  human'[online'[a]].relog
    BY DEF DisconnectedHasDeadline
  <2>1. online'[a] = online[a] /\ online[a] \in HumanIds /\ human[h].acct # a
    BY <1>1, <1>3 DEF TypeOK
  <2>2. online[a] # h
    BY <1>1, <2>1 DEF Accounted, OnlineKeyed
  <2>3. human'[online[a]].fd = human[online[a]].fd /\ human'[online[a]].relog = human[online[a]].relog
    BY <1>2, <2>1, <2>2
  <2>4. human[online[a]].relog
    BY <1>1, <2>1, <2>3 DEF Accounted, DisconnectedHasDeadline
  <2> QED BY <2>1, <2>3, <2>4
<1> QED BY <1>6, <1>7, <1>8 DEF Accounted

(* A step that changes no one's account, connection or deadline.           *)
LEMMA AccountedKept ==
  ASSUME AloneInv, UNCHANGED <<online, fd_list>>,
         \A h \in HumanIds : /\ human'[h].acct = human[h].acct
                             /\ human'[h].fd = human[h].fd
                             /\ human'[h].relog = human[h].relog,
         \A h \in HumanIds : Outside(h)' => Outside(h) \/ Settled(h)
  PROVE  Accounted'
<1>1. TypeOK /\ FdAgrees /\ Accounted
  BY DEF AloneInv, FdInv, Shape
<1>2. \A g \in HumanIds : Settled(g)' <=> Settled(g)
  BY DEF Settled
<1>3. OnlineKeyed' /\ DisconnectedHasDeadline'
  BY <1>1 DEF Accounted, OnlineKeyed, DisconnectedHasDeadline, TypeOK
<1>4. AllSettled'
  BY <1>1, <1>2 DEF Accounted, AllSettled, TypeOK, Outside, Settled
<1> QED BY <1>3, <1>4 DEF Accounted

(* A step of another handler that changes no account and no login.         *)
LEMMA CheckedKept ==
  ASSUME AloneInv, UNCHANGED <<login, account>>,
         \A a \in Accounts : online'[a] \in {online[a], None},
         \A l \in Logins : login[l].pc = "enter" => online'[account] = online[account],
         \A h \in HumanIds : human'[h].acct = human[h].acct,
         \A l \in Logins : login[l].pc \in {"loaded", "named"} =>
           (human'[login[l].h].fd = None => human'[login[l].h].relog)
  PROVE  \A l \in Logins : Checked(l)'
<1> SUFFICES ASSUME NEW l \in Logins PROVE Checked(l)'
  OBVIOUS
<1>1. Checked(l) /\ LoginKnows(l)
  BY DEF AloneInv, FdInv, Shape, LoginsKnow
<1> QED BY <1>1, NoneAssumption DEF Checked, HasMade, LoginKnows, HumanIds
-----------------------------------------------------------------------------
LEMMA AloneInvKept == ASSUME Alone, AloneInv, [Next]_vars PROVE AloneInv'
<1>0. FdInv' /\ FdInv /\ Shape /\ TypeOK /\ FdAgrees /\ Made /\ Accounted
  BY FdInvKept DEF AloneInv, FdInv, Shape
<1>a. ASSUME NEW l \in Logins, Checked(l)' PROVE \A m \in Logins : Checked(m)'
  BY <1>a DEF Alone
<1>b. ASSUME NEW l \in Logins PROVE Checked(l) /\ LoginKnows(l)
  BY <1>0 DEF AloneInv, Shape, LoginsKnow
<1>c. ASSUME NEW l \in Logins, login'[l].h = login[l].h
      PROVE  \A h \in HumanIds : Outside(h)' <=> Outside(h)
  BY <1>c DEF Alone, Outside
<1>1. ASSUME NEW l \in Logins, NoOffline(l) PROVE (\A m \in Logins : Checked(m)') /\ Accounted'
  <2>1. /\ login'[l].pc = "old" /\ login'[l].h = login[l].h
        /\ login'[l].want = login[l].want /\ login'[l].old = login[l].old
    BY <1>0, <1>1, PcFields DEF NoOffline, Goes, Yields, Pcs
  <2>2. Checked(l)'
    BY <1>b, <1>1, <2>1 DEF NoOffline, Runs, Checked, HasMade
  <2>3. Accounted'
    BY <1>c, <1>1, <2>1, AccountedKept DEF NoOffline
  <2> QED BY <1>a, <2>2, <2>3
<1>2. ASSUME NEW l \in Logins, SaveOffline(l) PROVE (\A m \in Logins : Checked(m)') /\ Accounted'
  <2>1. /\ login'[l].pc = "delOffline" /\ login'[l].h = login[l].h
        /\ login'[l].want = login[l].want /\ login'[l].old = login[l].old
    BY <1>0, <1>2, PcFields DEF SaveOffline, Goes, Yields, Pcs
  <2>2. Checked(l)'
    BY <1>b, <1>2, <2>1 DEF SaveOffline, Runs, Checked, HasMade
  <2>3. Accounted'
    BY <1>c, <1>2, <2>1, AccountedKept DEF SaveOffline
  <2> QED BY <1>a, <2>2, <2>3
<1>3. ASSUME NEW l \in Logins, DelOffline(l) PROVE (\A m \in Logins : Checked(m)') /\ Accounted'
  <2>1. /\ login'[l].pc = "old" /\ login'[l].h = login[l].h
        /\ login'[l].want = login[l].want /\ login'[l].old = login[l].old
    BY <1>0, <1>3, PcFields DEF DelOffline, Goes, Yields, Pcs
  <2>2. Checked(l)'
    BY <1>b, <1>3, <2>1 DEF DelOffline, Runs, Checked, HasMade
  <2>3. Accounted'
    BY <1>c, <1>3, <2>1, AccountedKept DEF DelOffline
  <2> QED BY <1>a, <2>2, <2>3
<1>4. ASSUME NEW l \in Logins, NoOld(l) PROVE (\A m \in Logins : Checked(m)') /\ Accounted'
  <2>1. /\ login'[l].pc = "switch" /\ login'[l].h = login[l].h
        /\ login'[l].want = login[l].want /\ login'[l].old = login[l].old
    BY <1>0, <1>4, PcFields DEF NoOld, Goes, Yields, Pcs
  <2>2. Checked(l)'
    BY <1>b, <1>4, <2>1 DEF NoOld, Runs, Checked, HasMade
  <2>3. Accounted'
    BY <1>c, <1>4, <2>1, AccountedKept DEF NoOld
  <2> QED BY <1>a, <2>2, <2>3
<1>5. ASSUME NEW l \in Logins, NoSwitch(l) PROVE (\A m \in Logins : Checked(m)') /\ Accounted'
  <2>1. /\ login'[l].pc = "new" /\ login'[l].h = login[l].h
        /\ login'[l].want = login[l].want /\ login'[l].old = login[l].old
    BY <1>0, <1>5, PcFields DEF NoSwitch, Goes, Yields, Pcs
  <2>2. Checked(l)'
    BY <1>b, <1>5, <2>1 DEF NoSwitch, Runs, Checked, HasMade
  <2>3. Accounted'
    BY <1>c, <1>5, <2>1, AccountedKept DEF NoSwitch
  <2> QED BY <1>a, <2>2, <2>3
<1>6. ASSUME NEW l \in Logins, ReleaseOld(l) PROVE (\A m \in Logins : Checked(m)') /\ Accounted'
  <2>1. /\ login'[l].pc = "switch" /\ login'[l].h = login[l].h
        /\ login'[l].want = login[l].want /\ login'[l].old = login[l].old
    BY <1>0, <1>6, PcFields DEF ReleaseOld, Goes, Yields, Pcs
  <2> DEFINE h == online[account]
  <2>2. /\ h \in HumanIds /\ account \in Accounts /\ human[h].acct = account
        /\ login[l].pc = "old" /\ login[l].h = None
    BY <1>0, <1>b, <1>6
    DEF ReleaseOld, Runs, TypeOK, LoginKnows, Checked, HasMade, Accounted, OnlineKeyed
  <2>3. /\ human' = TimersStopped(h) /\ fd_list' = FdListWithout(h) /\ UNCHANGED account
        /\ online' = [OnlineWithout(h) EXCEPT ![account] = None]
    BY <1>6 DEF ReleaseOld
  <2>4. online' = OnlineWithout(h) /\ online'[account] = None
    BY <1>0, <2>2, <2>3, NoneAssumption DEF OnlineWithout, TypeOK
  <2>5. Checked(l)'
    BY <1>b, <2>1, <2>2, <2>3, <2>4 DEF Checked, HasMade
  <2>6. Accounted'
    BY <1>c, <2>1, <2>2, <2>3, <2>4, ReleaseAccounted
  <2> QED BY <1>a, <2>5, <2>6
<1>7. ASSUME NEW l \in Logins, KickOld(l) PROVE (\A m \in Logins : Checked(m)') /\ Accounted'
  <2>1. /\ login'[l].pc = "again" /\ login'[l].h = login[l].h
        /\ login'[l].want = login[l].want /\ login'[l].old = online[account]
    BY <1>0, <1>7 DEF KickOld, TypeOK, Login
  <2> DEFINE h == online[account]
  <2>2. /\ h \in HumanIds /\ account \in Accounts /\ human[h].acct = account
        /\ login[l].pc = "old" /\ login[l].h = None
    BY <1>0, <1>b, <1>7
    DEF KickOld, Runs, TypeOK, LoginKnows, Checked, HasMade, Accounted, OnlineKeyed
  <2>3. /\ human' = TimersStopped(h) /\ fd_list' = FdListWithout(h) /\ UNCHANGED account
        /\ online' = [OnlineWithout(h) EXCEPT ![account] = None]
    BY <1>7 DEF KickOld
  <2>4. online' = OnlineWithout(h) /\ online'[account] = None
    BY <1>0, <2>2, <2>3, NoneAssumption DEF OnlineWithout, TypeOK
  <2>5. human'[h].acct = account
    BY <1>0, <2>2, <2>3 DEF TimersStopped, TypeOK, Human
  <2>6. Checked(l)'
    BY <1>b, <2>1, <2>2, <2>3, <2>4, <2>5 DEF Checked, HasMade
  <2>7. Accounted'
    BY <1>c, <2>1, <2>2, <2>3, <2>4, ReleaseAccounted
  <2> QED BY <1>a, <2>6, <2>7
<1>8. ASSUME NEW l \in Logins, ReleaseAgain(l) PROVE (\A m \in Logins : Checked(m)') /\ Accounted'
  <2>1. login'[l].pc = "switch" /\ login'[l].h = login[l].h /\ login'[l].want = login[l].want
    BY <1>0, <1>8 DEF ReleaseAgain, TypeOK, Login
  <2> DEFINE h == login[l].old
  <2>2. /\ h \in HumanIds /\ human[h].acct = account /\ account \in Accounts
        /\ online[account] = None /\ login[l].h = None /\ login[l].pc = "again"
    BY <1>0, <1>b, <1>8 DEF ReleaseAgain, Runs, LoginKnows, Checked, HasMade
  <2>3. /\ human' = TimersStopped(h) /\ fd_list' = FdListWithout(h) /\ online' = OnlineWithout(h)
        /\ UNCHANGED account
    BY <1>8 DEF ReleaseAgain, Release
  <2>4. online'[account] = None
    BY <1>0, <2>2, <2>3, ReleaseKeeps
  <2>5. Checked(l)'
    BY <1>b, <2>1, <2>2, <2>3, <2>4 DEF Checked, HasMade
  <2>6. Accounted'
    <3> HIDE DEF h
    <3> QED BY <1>c, <2>1, <2>2, <2>3, ReleaseAccounted
  <2> QED BY <1>a, <2>5, <2>6
<1>9. ASSUME NEW l \in Logins, Switch(l) PROVE (\A m \in Logins : Checked(m)') /\ Accounted'
  <2>1. /\ login'[l].pc = "new" /\ login'[l].h = login[l].h
        /\ login'[l].want = login[l].want /\ login'[l].old = login[l].old
    BY <1>0, <1>9, PcFields DEF Switch, Goes, Yields, Pcs
  <2> DEFINE h == fd_list[login[l].fd]
  <2>2. /\ h \in HumanIds /\ login[l].fd \in Fds /\ account \in Accounts
        /\ online[account] = None /\ login[l].h = None /\ login[l].pc = "switch"
    BY <1>0, <1>b, <1>9 DEF Switch, Runs, TypeOK, LoginKnows, Checked, HasMade
  <2>3. Outside(h)
    BY <2>2, NoneAssumption DEF Alone, Outside, HumanIds
  <2>4. Settled(h)
    BY <1>0, <2>2, <2>3, <1>9 DEF Switch, Accounted, AllSettled
  <2>5. /\ human' = TimersStopped(h) /\ fd_list' = FdListWithout(h) /\ online' = OnlineWithout(h)
        /\ UNCHANGED account
    BY <1>9 DEF Switch, Release
  <2>6. online'[account] = None
    BY <1>0, <2>2, <2>5, ReleaseKeeps
  <2>7. Checked(l)'
    BY <1>b, <2>1, <2>2, <2>5, <2>6 DEF Checked, HasMade
  <2>8. Accounted'
    <3> HIDE DEF h
    <3> QED BY <1>c, <2>1, <2>2, <2>4, <2>5, ReleaseAccounted DEF Settled
  <2> QED BY <1>a, <2>7, <2>8
<1>10. ASSUME NEW l \in Logins, MakeHuman(l) PROVE (\A m \in Logins : Checked(m)') /\ Accounted'
  <2> DEFINE h == nHumans + 1
  <2>1. /\ h \in HumanIds /\ nHumans \in Nat /\ login[l].fd \in Fds /\ account \in Accounts
        /\ login[l].h = None /\ online[account] = None
    BY <1>0, <1>b, <1>10 DEF MakeHuman, Runs, TypeOK, LoginKnows, Checked, HasMade
  <2>2. /\ login'[l].pc = "loaded" /\ login'[l].h = h /\ login'[l].want = account
        /\ UNCHANGED <<account, online>>
    BY <1>0, <1>10 DEF MakeHuman, TypeOK, Login
  <2>3. \A g \in HumanIds : /\ human'[g].acct = human[g].acct
                            /\ human'[g].relog = human[g].relog
                            /\ human'[g].fd = IF g = h THEN login[l].fd ELSE human[g].fd
    BY <1>0, <2>1, <1>10 DEF MakeHuman, TypeOK, Human
  <2>4. \A f \in Fds : fd_list'[f] = IF f = login[l].fd THEN h ELSE fd_list[f]
    BY <1>0, <2>1, <1>10 DEF MakeHuman, TypeOK
  <2>5. \A a \in Accounts : online[a] # h
    BY <1>0, <2>1, NoneAssumption DEF Made, TypeOK, HumanIds
  <2>6. \A g \in HumanIds : Outside(g) /\ (Outside(g)' => g # h)
    BY <2>1, <2>2, NoneAssumption DEF Alone, Outside, HumanIds
  <2> HIDE DEF h
  <2>7. Checked(l)'
    BY <2>1, <2>2, <2>3, <2>5, NoneAssumption DEF Checked, HasMade
  <2>8. \A g \in HumanIds : Settled(g)' <=> Settled(g)
    BY <2>2, <2>3 DEF Settled
  <2>9. AllSettled'
    BY <1>0, <2>1, <2>3, <2>4, <2>6, <2>8 DEF Accounted, AllSettled, TypeOK, Outside, Settled
  <2>10. OnlineKeyed' /\ DisconnectedHasDeadline'
    BY <1>0, <2>2, <2>3, <2>5 DEF Accounted, OnlineKeyed, DisconnectedHasDeadline, TypeOK
  <2> QED BY <1>a, <2>7, <2>9, <2>10 DEF Accounted
<1>11. ASSUME NEW l \in Logins, MakeHumanAsserts(l)
       PROVE (\A m \in Logins : Checked(m)') /\ Accounted'
  <2>1. login'[l].pc = "idle" /\ login'[l].h = None /\ login[l].h = None
    BY <1>0, <1>b, <1>11, EndFields DEF MakeHumanAsserts, Runs, Checked, HasMade
  <2>2. Checked(l)'
    BY <2>1 DEF Checked, HasMade
  <2>3. Accounted'
    BY <1>c, <1>11, <2>1, AccountedKept DEF MakeHumanAsserts
  <2> QED BY <1>a, <2>2, <2>3
<1>12. ASSUME NEW l \in Logins, LoadedLate(l) PROVE (\A m \in Logins : Checked(m)') /\ Accounted'
  <2> QED BY <1>b, <1>12 DEF LoadedLate, Runs, Checked
<1>13. ASSUME NEW l \in Logins, Loaded(l) PROVE (\A m \in Logins : Checked(m)') /\ Accounted'
  <2>1. /\ login'[l].pc = "enter" /\ login'[l].h = login[l].h
        /\ login'[l].want = login[l].want /\ login'[l].old = login[l].old
    BY <1>0, <1>13, PcFields DEF Loaded, Goes, Yields, Pcs
  <2> DEFINE h == login[l].h
  <2>2. /\ h \in HumanIds /\ account \in Accounts /\ login[l].want = account
        /\ online[account] = None /\ \A a \in Accounts : online[a] # h
        /\ human[h].fd = None => human[h].relog
    BY <1>b, <1>13 DEF Loaded, Runs, LoginKnows, Checked
  <2>3. \A g \in HumanIds : /\ human'[g].acct = IF g = h THEN account ELSE human[g].acct
                            /\ human'[g].fd = human[g].fd /\ human'[g].relog = human[g].relog
    BY <1>0, <2>2, <1>13 DEF Loaded, TypeOK, Human
  <2>4. /\ \A a \in Accounts : online'[a] = IF a = account THEN h ELSE online[a]
        /\ UNCHANGED <<account, fd_list>>
    BY <1>0, <1>13 DEF Loaded, AddOnline, TypeOK
  <2>5. \A g \in HumanIds : Outside(g)' => Outside(g) /\ g # h
    BY <1>c, <2>1 DEF Outside
  <2> HIDE DEF h
  <2>6. Checked(l)'
    BY <2>1, <2>2, <2>4 DEF Checked, HasMade, h
  <2>7. \A g \in HumanIds : g # h /\ Settled(g) => Settled(g)'
    BY <1>0, <2>2, <2>3, <2>4, NoneAssumption DEF Settled, TypeOK, Human, HumanIds
  <2>8. AllSettled'
    BY <1>0, <2>3, <2>4, <2>5, <2>7 DEF Accounted, AllSettled, TypeOK, Outside, Settled
  <2>9. OnlineKeyed' /\ DisconnectedHasDeadline'
    BY <1>0, <2>2, <2>3, <2>4 DEF Accounted, OnlineKeyed, DisconnectedHasDeadline, TypeOK
  <2> QED BY <1>a, <2>6, <2>8, <2>9 DEF Accounted
<1>14. ASSUME NEW l \in Logins, LoadedNew(l) PROVE (\A m \in Logins : Checked(m)') /\ Accounted'
  <2>1. /\ login'[l].pc = "named" /\ login'[l].h = login[l].h
        /\ login'[l].want = login[l].want /\ login'[l].old = login[l].old
    BY <1>0, <1>14, PcFields DEF LoadedNew, Goes, Yields, Pcs
  <2> DEFINE h == login[l].h
  <2>2. /\ h \in HumanIds /\ account \in Accounts /\ login[l].want = account
        /\ online[account] = None /\ \A a \in Accounts : online[a] # h
        /\ human[h].fd = None => human[h].relog
    BY <1>b, <1>14 DEF LoadedNew, Runs, LoginKnows, Checked
  <2>3. \A g \in HumanIds : /\ human'[g].acct = IF g = h THEN account ELSE human[g].acct
                            /\ human'[g].fd = human[g].fd /\ human'[g].relog = human[g].relog
    BY <1>0, <2>2, <1>14 DEF LoadedNew, TypeOK, Human
  <2>4. UNCHANGED <<account, fd_list, online>>
    BY <1>14 DEF LoadedNew
  <2>5. \A g \in HumanIds : Outside(g)' => Outside(g) /\ g # h
    BY <1>c, <2>1 DEF Outside
  <2> HIDE DEF h
  <2>6. Checked(l)'
    BY <2>1, <2>2, <2>3, <2>4 DEF Checked, HasMade, h
  <2>7. \A g \in HumanIds : g # h /\ Settled(g) => Settled(g)'
    BY <2>3, <2>4 DEF Settled
  <2>8. AllSettled'
    BY <1>0, <2>3, <2>4, <2>5, <2>7 DEF Accounted, AllSettled, TypeOK, Outside, Settled
  <2>9. OnlineKeyed' /\ DisconnectedHasDeadline'
    BY <1>0, <2>2, <2>3, <2>4 DEF Accounted, OnlineKeyed, DisconnectedHasDeadline, TypeOK
  <2> QED BY <1>a, <2>6, <2>8, <2>9 DEF Accounted
<1>15. ASSUME NEW l \in Logins, Named(l) PROVE (\A m \in Logins : Checked(m)') /\ Accounted'
  <2>1. /\ login'[l].pc = "enter" /\ login'[l].h = login[l].h
        /\ login'[l].want = login[l].want /\ login'[l].old = login[l].old
    BY <1>0, <1>15, PcFields DEF Named, Goes, Yields, Pcs
  <2> DEFINE h == login[l].h
  <2>2. /\ h \in HumanIds /\ account \in Accounts /\ login[l].want = account
        /\ online[account] = None /\ \A a \in Accounts : online[a] # h
        /\ human[h].fd = None => human[h].relog
    BY <1>b, <1>15 DEF Named, Runs, LoginKnows, Checked
  <2>3. human[h].acct = account
    BY <1>b, <1>15 DEF Named, Runs, Checked
  <2>4. /\ \A a \in Accounts : online'[a] = IF a = account THEN h ELSE online[a]
        /\ UNCHANGED <<account, fd_list, human>>
    BY <1>0, <1>15 DEF Named, AddOnline, TypeOK
  <2>5. \A g \in HumanIds : Outside(g)' => Outside(g) /\ g # h
    BY <1>c, <2>1 DEF Outside
  <2> HIDE DEF h
  <2>6. Checked(l)'
    BY <2>1, <2>2, <2>4 DEF Checked, HasMade, h
  <2>7. \A g \in HumanIds : g # h /\ Settled(g) => Settled(g)'
    BY <1>0, <2>2, <2>4, NoneAssumption DEF Settled, TypeOK, Human, HumanIds
  <2>8. AllSettled'
    BY <1>0, <2>4, <2>5, <2>7 DEF Accounted, AllSettled, TypeOK, Outside, Settled
  <2>9. OnlineKeyed' /\ DisconnectedHasDeadline'
    BY <1>0, <2>2, <2>3, <2>4 DEF Accounted, OnlineKeyed, DisconnectedHasDeadline, TypeOK
  <2> QED BY <1>a, <2>6, <2>8, <2>9 DEF Accounted
<1>16. ASSUME NEW l \in Logins, EnterWithoutFd(l)
       PROVE (\A m \in Logins : Checked(m)') /\ Accounted'
  <2>1. login'[l].pc = "idle" /\ login'[l].h = None
    BY <1>0, <1>16, EndFields DEF EnterWithoutFd
  <2>2. login[l].h \in HumanIds /\ Settled(login[l].h)
    BY <1>0, <1>b, <1>16, NoneAssumption
    DEF EnterWithoutFd, Runs, LoginKnows, Checked, Accounted, OnlineKeyed, Settled, HumanIds
  <2>3. \A g \in HumanIds : Outside(g) \/ g = login[l].h
    BY DEF Alone, Outside
  <2>4. Checked(l)'
    BY <2>1 DEF Checked, HasMade
  <2>5. Accounted'
    BY <1>16, <2>2, <2>3, AccountedKept DEF EnterWithoutFd
  <2> QED BY <1>a, <2>4, <2>5
<1>17. ASSUME NEW l \in Logins, Forbidden(l) PROVE (\A m \in Logins : Checked(m)') /\ Accounted'
  <2>1. login'[l].pc = "idle" /\ login'[l].h = None
    BY <1>0, <1>17, EndFields DEF Forbidden
  <2>2. login[l].h \in HumanIds /\ Settled(login[l].h)
    BY <1>0, <1>b, <1>17, NoneAssumption
    DEF Forbidden, Runs, LoginKnows, Checked, Accounted, OnlineKeyed, Settled, HumanIds
  <2>3. \A g \in HumanIds : Outside(g) \/ g = login[l].h
    BY DEF Alone, Outside
  <2>4. Checked(l)'
    BY <2>1 DEF Checked, HasMade
  <2>5. Accounted'
    BY <1>17, <2>2, <2>3, ReleaseAccounted DEF Forbidden, Release, Settled
  <2> QED BY <1>a, <2>4, <2>5
<1>18. ASSUME NEW l \in Logins, DoHumanLogin(l)
       PROVE (\A m \in Logins : Checked(m)') /\ Accounted'
  <2>1. login'[l].pc = "idle" /\ login'[l].h = None
    BY <1>0, <1>18, EndFields DEF DoHumanLogin
  <2>2. login[l].h \in HumanIds /\ Settled(login[l].h)
    BY <1>0, <1>b, <1>18, NoneAssumption
    DEF DoHumanLogin, Runs, LoginKnows, Checked, Accounted, OnlineKeyed, Settled, HumanIds
  <2>3. \A g \in HumanIds : Outside(g) \/ g = login[l].h
    BY DEF Alone, Outside
  <2>4. Checked(l)'
    BY <2>1 DEF Checked, HasMade
  <2>5. \A g \in HumanIds : /\ human'[g].acct = human[g].acct /\ human'[g].fd = human[g].fd
                            /\ human'[g].relog = human[g].relog
    BY <1>0, <2>2, <1>18 DEF DoHumanLogin, TypeOK, Human
  <2>6. Accounted'
    BY <1>18, <2>2, <2>3, <2>5, AccountedKept DEF DoHumanLogin
  <2> QED BY <1>a, <2>4, <2>6
<1>19. ASSUME NEW l \in Logins, NEW f \in Fds, NEW a \in Accounts, AskLogin(l, f, a)
       PROVE (\A m \in Logins : Checked(m)') /\ Accounted'
  <2>1. login[l].h = None
    BY <1>b, <1>19 DEF AskLogin, Checked, HasMade
  <2>2. /\ login'[l].pc = "offline" /\ login'[l].h = None
        /\ login'[l].want = a /\ account' = a
    BY <1>0, <1>19 DEF AskLogin, TypeOK, NoLogin
  <2>3. Checked(l)'
    BY <2>2 DEF Checked, HasMade
  <2>4. Accounted'
    BY <1>c, <1>19, <2>1, <2>2, AccountedKept DEF AskLogin
  <2> QED BY <1>a, <2>3, <2>4
<1>20. ASSUME NEW f \in Fds, Play(f) PROVE (\A m \in Logins : Checked(m)') /\ Accounted'
  <2>1. \A g \in HumanIds : /\ human'[g].acct = human[g].acct /\ human'[g].fd = human[g].fd
                            /\ human'[g].relog = human[g].relog
    BY <1>0, <1>20 DEF Play, TypeOK, Human
  <2>2. \A m \in Logins : Checked(m)'
    BY <1>b, <1>20, <2>1, CheckedKept DEF Play, Checked, LoginKnows
  <2> QED BY <1>20, <2>1, <2>2, AccountedKept DEF Play, Outside
<1>21. ASSUME NEW f \in Fds, NEW gone \in BOOLEAN, Disconnect(f, gone)
       PROVE (\A m \in Logins : Checked(m)') /\ Accounted'
  <2>1. UNCHANGED <<login, account, online>>
    BY <1>21 DEF Disconnect
  <2>2. \A g \in HumanIds : /\ human'[g].acct = human[g].acct
                            /\ \/ /\ g = fd_list[f] /\ human'[g].relog /\ human'[g].fd = None
                               \/ human'[g].relog = human[g].relog /\ human'[g].fd = human[g].fd
    <3>1. human \in [HumanIds -> Human]
      BY <1>0 DEF TypeOK
    <3> SUFFICES ASSUME NEW g \in HumanIds
                 PROVE /\ human'[g].acct = human[g].acct
                       /\ \/ /\ g = fd_list[f] /\ human'[g].relog /\ human'[g].fd = None
                          \/ human'[g].relog = human[g].relog /\ human'[g].fd = human[g].fd
      OBVIOUS
    <3>2. human[g] \in Human
      BY <3>1
    <3>3. CASE fd_list[f] # None /\ g = fd_list[f]
      BY <1>21, <3>1, <3>2, <3>3 DEF Disconnect, Human
    <3>4. CASE ~ (fd_list[f] # None /\ g = fd_list[f])
      BY <1>21, <3>1, <3>4 DEF Disconnect
    <3> QED BY <3>3, <3>4
  <2>3. \A g \in Fds : fd_list'[g] \in {fd_list[g], None}
    BY <1>0, <1>21 DEF Disconnect, TypeOK
  <2>4. \A m \in Logins : Checked(m)'
    BY <1>b, <2>1, <2>2, CheckedKept DEF Checked, LoginKnows
  <2>5. OnlineKeyed' /\ DisconnectedHasDeadline'
    BY <1>0, <2>1, <2>2 DEF Accounted, OnlineKeyed, DisconnectedHasDeadline, TypeOK
  <2>6. \A g \in HumanIds : (Settled(g)' <=> Settled(g)) /\ (Outside(g)' <=> Outside(g))
    BY <2>1, <2>2 DEF Settled, Outside
  <2>7. AllSettled'
    <3>1. ASSUME NEW e \in Fds, fd_list'[e] # None, Outside(fd_list[e])'
          PROVE Settled(fd_list[e])'
      BY <1>0, <2>1, <2>2, <2>3, <3>1 DEF Accounted, AllSettled, TypeOK, Outside, Settled
    <3>2. ASSUME NEW g \in HumanIds, human'[g].relog, Outside(g)' PROVE Settled(g)'
      BY <1>0, <2>2, <2>6, <3>2, NoneAssumption DEF Accounted, AllSettled, HumanIds
    <3> QED BY <3>1, <3>2 DEF AllSettled
  <2> QED BY <2>4, <2>5, <2>7 DEF Accounted
<1>22. ASSUME NEW h \in HumanIds, RelogTimeout(h)
       PROVE (\A m \in Logins : Checked(m)') /\ Accounted'
  <2>1. Outside(h) /\ Settled(h)
    BY <1>0, <1>22 DEF RelogTimeout, Outside, Accounted, AllSettled
  <2>2. CASE human[h].fd = None
    <3>1. /\ human' = TimersStopped(h) /\ fd_list' = FdListWithout(h) /\ online' = OnlineWithout(h)
          /\ UNCHANGED <<login, account>>
      BY <1>22, <2>2 DEF RelogTimeout, Release
    <3>2. Accounted'
      BY <2>1, <3>1, ReleaseAccounted DEF Settled, Outside
    <3>3. \A g \in HumanIds : /\ human'[g].acct = human[g].acct /\ human'[g].fd = human[g].fd
                              /\ human[g].relog /\ g # h => human'[g].relog
      BY <1>0, <3>1 DEF TypeOK, TimersStopped, Human
    <3>4. \A a \in Accounts : /\ online'[a] \in {online[a], None}
                              /\ online[a] # h => online'[a] = online[a]
      BY <1>0, <2>1, <3>1 DEF TypeOK, OnlineWithout, Settled
    <3>5. ASSUME NEW l \in Logins, login[l].pc \in {"loaded", "named"},
                 human'[login[l].h].fd = None
          PROVE  human'[login[l].h].relog
      <4>1. login[l].h # h /\ login[l].h \in HumanIds /\ Checked(l)
        BY <1>b, <2>1, <3>5 DEF Outside, LoginKnows
      <4>2. human[login[l].h].relog
        BY <3>3, <3>5, <4>1 DEF Checked
      <4> QED BY <3>3, <4>1, <4>2
    <3>6. ASSUME NEW l \in Logins, login[l].pc = "enter" PROVE online'[account] = online[account]
      <4>1. login[l].h # h /\ Checked(l) /\ account \in Accounts
        BY <1>b, <2>1, <3>6 DEF Outside, LoginKnows
      <4> QED BY <3>4, <3>6, <4>1 DEF Checked
    <3>7. \A l \in Logins : Checked(l)'
      BY <3>1, <3>3, <3>4, <3>5, <3>6, CheckedKept
    <3> QED BY <3>2, <3>7
  <2>3. CASE human[h].fd # None
    <3>1. \A g \in HumanIds : /\ human'[g].acct = human[g].acct /\ human'[g].fd = human[g].fd
                              /\ human'[g].relog => human[g].relog /\ g # h
                              /\ human[g].relog /\ g # h => human'[g].relog
      <4>1. human' = [human EXCEPT ![h].relog = FALSE]
        BY <1>22, <2>3 DEF RelogTimeout
      <4> QED BY <1>0, <4>1 DEF TypeOK, Human
    <3>2. UNCHANGED <<online, fd_list, login, account>>
      BY <1>22, <2>3 DEF RelogTimeout
    <3>3. \A l \in Logins : Checked(l)'
      BY <1>b, <2>1, <3>1, <3>2, CheckedKept DEF Checked, LoginKnows, Outside
    <3>4. OnlineKeyed' /\ DisconnectedHasDeadline'
      BY <1>0, <2>3, <3>1, <3>2 DEF Accounted, OnlineKeyed, DisconnectedHasDeadline, TypeOK
    <3>5. AllSettled'
      <4>1. \A g \in HumanIds : (Settled(g)' <=> Settled(g)) /\ (Outside(g)' <=> Outside(g))
        BY <3>1, <3>2 DEF Settled, Outside
      <4>2. \A e \in Fds : fd_list[e] # None => fd_list[e] \in HumanIds
        BY <1>0 DEF TypeOK
      <4>3. ASSUME NEW e \in Fds, fd_list'[e] # None, Outside(fd_list[e])'
            PROVE  Settled(fd_list[e])'
        BY <1>0, <3>2, <4>1, <4>2, <4>3 DEF Accounted, AllSettled
      <4>4. ASSUME NEW g \in HumanIds, human'[g].relog, Outside(g)' PROVE Settled(g)'
        BY <1>0, <3>1, <4>1, <4>4 DEF Accounted, AllSettled
      <4> QED BY <4>3, <4>4 DEF AllSettled
    <3> QED BY <3>3, <3>4, <3>5 DEF Accounted
  <2> QED BY <2>2, <2>3
<1>23. ASSUME NEW f \in Fds, NEW a \in Accounts, ReLogin(f, a)
       PROVE (\A m \in Logins : Checked(m)') /\ Accounted'
  <2> DEFINE h == online[a]
  <2>1. /\ h \in HumanIds /\ Settled(h) /\ UNCHANGED <<login, account, online>>
    BY <1>0, <1>23, NoneAssumption DEF ReLogin, TypeOK, Accounted, OnlineKeyed, Settled
  <2>2. \A g \in HumanIds : /\ human'[g].acct = human[g].acct
                            /\ human'[g].fd = IF g = h THEN f ELSE human[g].fd
                            /\ human'[g].relog => human[g].relog /\ g # h
                            /\ human[g].relog /\ g # h => human'[g].relog
    <3>1. human' = [human EXCEPT ![h].fd = f, ![h].relog = FALSE]
      BY <1>23 DEF ReLogin
    <3> HIDE DEF h
    <3> DEFINE r == human[h]
    <3>2. r \in Human /\ human \in [HumanIds -> Human]
      BY <1>0, <2>1 DEF TypeOK
    <3>3. \A g \in HumanIds : human'[g] = IF g = h THEN [r EXCEPT !.fd = f, !.relog = FALSE]
                                                  ELSE human[g]
      BY <2>1, <3>1, <3>2
    <3> HIDE DEF r
    <3>4. LET s == [r EXCEPT !.fd = f, !.relog = FALSE]
          IN  s.acct = r.acct /\ s.fd = f /\ s.relog = FALSE
      BY <3>2 DEF Human
    <3> QED BY <3>3, <3>4 DEF r
  <2>a. \/ fd_list' = [FdListWithout(h) EXCEPT ![f] = h] \/ fd_list' = FdListWithout(h)
    BY <1>23 DEF ReLogin
  <2> HIDE DEF h
  <2>3. \A g \in Fds : fd_list'[g] \in {fd_list[g], h, None}
    BY <1>0, <2>1, <2>a, ReleaseTypes, ReleaseKeeps
  <2>4. \A m \in Logins : Checked(m)'
    BY <1>b, <2>1, <2>2, CheckedKept, NoneAssumption DEF Checked, LoginKnows
  <2>5. OnlineKeyed' /\ DisconnectedHasDeadline'
    <3>1. OnlineKeyed'
      BY <1>0, <2>1, <2>2 DEF Accounted, OnlineKeyed, TypeOK
    <3>2. ASSUME NEW b \in Accounts, online'[b] # None, human'[online'[b]].fd = None
          PROVE  human'[online'[b]].relog
      <4>1. online[b] \in HumanIds /\ online'[b] = online[b] /\ online[b] # h
        BY <1>0, <2>1, <2>2, <3>2, NoneAssumption DEF TypeOK
      <4> QED BY <1>0, <2>2, <3>2, <4>1 DEF Accounted, DisconnectedHasDeadline
    <3> QED BY <3>1, <3>2 DEF DisconnectedHasDeadline
  <2>6. AllSettled'
    <3>1. \A g \in HumanIds : (Settled(g)' <=> Settled(g)) /\ (Outside(g)' <=> Outside(g))
      BY <2>1, <2>2 DEF Settled, Outside
    <3>2. \A e \in Fds : fd_list[e] # None => fd_list[e] \in HumanIds
      BY <1>0 DEF TypeOK
    <3>3. ASSUME NEW e \in Fds, fd_list'[e] # None, Outside(fd_list[e])'
          PROVE Settled(fd_list[e])'
      <4>1. PICK g \in HumanIds : g = fd_list'[e] /\ (g = fd_list[e] \/ g = h)
        BY <2>1, <2>3, <3>2, <3>3
      <4>2. Outside(g)
        BY <3>1, <3>3, <4>1 DEF Outside
      <4>3. Settled(g)
        BY <1>0, <2>1, <3>3, <4>1, <4>2 DEF Accounted, AllSettled
      <4> QED BY <3>1, <4>1, <4>3 DEF Settled
    <3>4. ASSUME NEW g \in HumanIds, human'[g].relog, Outside(g)' PROVE Settled(g)'
      BY <1>0, <2>2, <3>1, <3>4 DEF Accounted, AllSettled
    <3> QED BY <3>3, <3>4 DEF AllSettled
  <2> QED BY <2>4, <2>5, <2>6 DEF Accounted
<1>24. ASSUME UNCHANGED <<login, account, online, human, fd_list>>
       PROVE (\A m \in Logins : Checked(m)') /\ Accounted'
  <2>1. \A m \in Logins : Checked(m)'
    BY <1>b, <1>24, CheckedKept DEF Checked
  <2> QED BY <1>24, <2>1, AccountedKept DEF Outside
<1> QED
  BY <1>0, <1>1, <1>2, <1>3, <1>4, <1>5, <1>6, <1>7, <1>8, <1>9, <1>10, <1>11, <1>12, <1>13,
     <1>14, <1>15, <1>16, <1>17, <1>18, <1>19, <1>20, <1>21, <1>22, <1>23, <1>24
  DEF Next, LoginStep, Packet, OfflineStep, AloneInv, vars, netVars, RejectLogin, ReLoginFails,
      Connect, ServerClose, SaveTimer, LoadOffline, EditOffline, SweepOffline, OfflineLoaded,
      SweptOffline

LEMMA InitAlone == ASSUME Init PROVE AloneInv
<1>1. FdInv
  BY InitShape DEF FdInv, Init, Made, HasMade, FdAgrees, NoLogin
<1>2. \A h \in HumanIds : ~human[h].relog
  BY DEF Init, NewHuman
<1>3. Accounted
  BY <1>2 DEF Init, Accounted, OnlineKeyed, AllSettled, DisconnectedHasDeadline
<1>4. \A l \in Logins : Checked(l)
  BY DEF Init, Checked, HasMade, NoLogin
<1> QED BY <1>1, <1>3, <1>4 DEF AloneInv

LEMMA AlwaysAloneInv == ASSUME Alone PROVE Spec => []AloneInv
<1>1. Init => AloneInv
  BY InitAlone
<1>2. AloneInv /\ [Next]_vars => AloneInv'
  BY AloneInvKept
<1> QED BY <1>1, <1>2, PTL DEF Spec

(* With one login at a time a character is online under its own account,   *)
(* whichever handlers run between the login's calls (HumanManager.online). *)
THEOREM OnlineUnderOwnAccount == ASSUME Alone PROVE Spec => []OnlineKeyed
<1>1. AloneInv => OnlineKeyed
  BY DEF AloneInv, Accounted
<1> QED BY <1>1, AlwaysAloneInv, PTL

(* With one login at a time no account plays through two connections       *)
(* (EventHandler.lua:58 to 77).                                            *)
THEOREM OnePlayerPerAccount == ASSUME Alone PROVE Spec => []OnePlayer
<1>1. AloneInv => OnePlayer
  <2> SUFFICES ASSUME AloneInv, NEW a \in Accounts, NEW f \in Fds, NEW g \in Fds,
                      Plays(f, a), Plays(g, a)
               PROVE  f = g
    BY DEF OnePlayer
  <2>1. AllSettled /\ FdAgrees
    BY DEF AloneInv, FdInv, Accounted
  <2>2. online[a] = fd_list[f] /\ online[a] = fd_list[g]
    BY <2>1 DEF Plays, AllSettled, Outside, Settled
  <2> QED BY <2>1, <2>2 DEF FdAgrees, Plays
<1> QED BY <1>1, AlwaysAloneInv, PTL

(* With one login at a time whoever is online without a connection has a   *)
(* deadline, also when the connection went between two steps of the login  *)
(* (ObjHuman.onDisconnect).                                                *)
THEOREM DisconnectedAlwaysHasDeadline == ASSUME Alone PROVE Spec => []DisconnectedHasDeadline
<1>1. AloneInv => DisconnectedHasDeadline
  BY DEF AloneInv, Accounted
<1> QED BY <1>1, AlwaysAloneInv, PTL
-----------------------------------------------------------------------------
(* Where no handler loads offline characters, the character online under   *)
(* an account holds the newest data of it, only this character is saved by *)
(* a timer, and a login under way has the newest data in its hands.        *)
NoCopies == job = NoJob /\ \A a \in Accounts : offline[a] = None

OnlineCurrent == \A a \in Accounts : online[a] # None => db[a] <= human[online[a]].ver

SaversSettled == \A h \in HumanIds : human[h].saves => Settled(h)

LoginCurrent(l) ==
  /\ login[l].pc = "again" => db[account] <= human[login[l].old].ver
  /\ login[l].pc = "loaded" => login[l].found = db[account]
  /\ login[l].pc = "named" => db[account] <= human[login[l].h].ver

Current == OnlineCurrent /\ SaversSettled

CurrentInv == AloneInv /\ NoCopies /\ Current /\ \A l \in Logins : LoginCurrent(l)

Holds(h) == human[h].acct # None /\ db[human[h].acct] <= human[h].ver

Grows == \A a \in Accounts : db'[a] >= db[a]

LEMMA Numbers ==
  ASSUME TypeOK
  PROVE  /\ \A a \in Accounts : db[a] \in Int
         /\ \A h \in HumanIds : human[h].ver \in Int /\ human[h].acct \in Accounts \cup {None}
<1>1. \A a \in Accounts : db[a] \in Int
  BY BoundsAssumption DEF TypeOK
<1>2. ASSUME NEW h \in HumanIds PROVE human[h].ver \in Int /\ human[h].acct \in Accounts \cup {None}
  <2>1. human[h] \in Human
    BY DEF TypeOK
  <2> QED BY <2>1, BoundsAssumption DEF Human
<1> QED BY <1>1, <1>2

(* Whoever is online or has a saving timer holds the newest data.          *)
LEMMA SettledHold ==
  ASSUME TypeOK, Current, NEW h \in HumanIds, Settled(h)
  PROVE  Holds(h)
<1>1. human[h].acct \in Accounts /\ online[human[h].acct] = h /\ h # None
  BY Numbers, NoneAssumption DEF Settled, HumanIds
<1> QED BY <1>1, NoneAssumption DEF Current, OnlineCurrent, Holds

LEMMA SaveGrows ==
  ASSUME TypeOK, NEW h \in HumanIds, Holds(h), db' = SavedDb(h)
  PROVE  /\ Grows
         /\ \A a \in Accounts : db'[a] = IF a = human[h].acct THEN human[h].ver ELSE db[a]
<1>1. human[h].acct \in Accounts
  BY Numbers DEF Holds
<1>2. \A a \in Accounts : db'[a] = IF a = human[h].acct THEN human[h].ver ELSE db[a]
  BY <1>1 DEF SavedDb, Holds, TypeOK
<1>3. db[human[h].acct] <= human[h].ver
  BY DEF Holds
<1>4. Grows
  BY <1>1, <1>2, <1>3, Numbers DEF Grows
<1> QED BY <1>2, <1>4

(* A release of a character that holds the newest data of its account.     *)
LEMMA ReleaseCurrent ==
  ASSUME TypeOK, Accounted, Current, NEW h \in HumanIds, Holds(h),
         human' = TimersStopped(h), online' = OnlineWithout(h), db' = SavedDb(h),
         online[human[h].acct] \in {h, None}
  PROVE  /\ Current' /\ Grows
         /\ \A g \in HumanIds : human'[g].acct = human[g].acct /\ human'[g].ver = human[g].ver
         /\ \A a \in Accounts : db'[a] = IF a = human[h].acct THEN human[h].ver ELSE db[a]
<1>1. \A g \in HumanIds : /\ human'[g].acct = human[g].acct /\ human'[g].ver = human[g].ver
                          /\ human'[g].saves = IF g = h THEN FALSE ELSE human[g].saves
  BY DEF TypeOK, TimersStopped, Human
<1>2. \A a \in Accounts : online'[a] = IF human[h].acct = a THEN None ELSE online[a]
  BY NoneAssumption DEF TypeOK, OnlineWithout
<1>3. /\ Grows
      /\ \A a \in Accounts : db'[a] = IF a = human[h].acct THEN human[h].ver ELSE db[a]
  BY SaveGrows
<1>4. OnlineCurrent'
  <2> SUFFICES ASSUME NEW a \in Accounts, online'[a] # None
               PROVE  db'[a] <= human'[online'[a]].ver
    BY DEF OnlineCurrent
  <2>1. online'[a] = online[a] /\ online[a] \in HumanIds /\ db'[a] = db[a]
    BY <1>2, <1>3 DEF TypeOK
  <2>2. db[a] <= human[online[a]].ver
    BY <2>1 DEF Current, OnlineCurrent
  <2> QED BY <1>1, <2>1, <2>2
<1>5. SaversSettled'
  <2> SUFFICES ASSUME NEW g \in HumanIds, human'[g].saves PROVE Settled(g)'
    BY DEF SaversSettled
  <2>1. g # h /\ Settled(g)
    BY <1>1 DEF Current, SaversSettled
  <2>2. human[g].acct \in Accounts /\ online[human[g].acct] = g
    BY <2>1, Numbers DEF Settled
  <2>3. human[h].acct # human[g].acct
    BY <2>1, <2>2, NoneAssumption DEF HumanIds
  <2>4. online'[human[g].acct] = online[human[g].acct]
    BY <1>2, <2>2, <2>3
  <2> QED BY <1>1, <2>1, <2>4 DEF Settled
<1> QED BY <1>1, <1>3, <1>4, <1>5 DEF Current

(* A step that saves nothing, takes no one online and starts no save.      *)
LEMMA CurrentKept ==
  ASSUME TypeOK, Current, UNCHANGED <<online, db>>,
         \A h \in HumanIds : /\ human'[h].acct = human[h].acct /\ human'[h].ver >= human[h].ver
                             /\ human'[h].ver \in Int
                             /\ human'[h].saves => human[h].saves \/ Settled(h)
  PROVE  Current' /\ Grows
<1>1. Grows
  BY Numbers DEF Grows
<1>2. OnlineCurrent'
  <2> SUFFICES ASSUME NEW a \in Accounts, online[a] # None
               PROVE  db[a] <= human'[online[a]].ver
    BY DEF OnlineCurrent
  <2>1. online[a] \in HumanIds /\ db[a] <= human[online[a]].ver
    BY DEF TypeOK, Current, OnlineCurrent
  <2> QED BY <2>1, Numbers
<1>3. SaversSettled'
  BY DEF Current, SaversSettled, Settled
<1> QED BY <1>1, <1>2, <1>3 DEF Current

(* A step of another handler leaves what a login holds.                    *)
LEMMA LoginsCurrent ==
  ASSUME TypeOK, LoginsKnow, \A l \in Logins : LoginCurrent(l), UNCHANGED <<login, account>>,
         \A h \in HumanIds : human'[h].ver >= human[h].ver /\ human'[h].ver \in Int,
         \A l \in Logins : login[l].pc \in {"again", "loaded", "named"} =>
           db'[account] = db[account]
  PROVE  \A l \in Logins : LoginCurrent(l)'
<1> SUFFICES ASSUME NEW l \in Logins PROVE LoginCurrent(l)'
  OBVIOUS
<1>1. LoginKnows(l) /\ LoginCurrent(l)
  BY DEF LoginsKnow
<1>2. login'[l] = login[l] /\ account' = account
  OBVIOUS
<1>3. ASSUME login[l].pc = "again" PROVE db'[account] <= human'[login[l].old].ver
  BY <1>1, <1>3, Numbers DEF LoginKnows, LoginCurrent
<1>4. ASSUME login[l].pc = "named" PROVE db'[account] <= human'[login[l].h].ver
  BY <1>1, <1>4, Numbers DEF LoginKnows, LoginCurrent
<1>5. ASSUME login[l].pc = "loaded" PROVE login[l].found = db'[account]
  BY <1>1, <1>5 DEF LoginCurrent
<1> QED BY <1>2, <1>3, <1>4, <1>5 DEF LoginCurrent
(* Without loads there is nothing to drop and nothing to sweep.            *)
LEMMA NoCopiesKept == ASSUME TypeOK, NoCopies, ~OfflineLoads, [Next]_vars PROVE NoCopies'
<1>1. ASSUME UNCHANGED <<offline, job>> PROVE NoCopies'
  BY <1>1 DEF NoCopies
<1>2. ASSUME UNCHANGED job, NEW a, offline' = [offline EXCEPT ![a] = None] PROVE NoCopies'
  BY <1>2 DEF NoCopies, TypeOK
<1>3. ASSUME NEW l \in Logins, LoginStep(l) PROVE NoCopies'
  <2>1. CASE DelOffline(l)
    BY <1>2, <2>1 DEF DelOffline
  <2>2. CASE Loaded(l) \/ Named(l)
    BY <1>2, <2>2 DEF Loaded, Named, AddOnline
  <2>3. CASE \/ NoOffline(l) \/ SaveOffline(l) \/ NoOld(l) \/ ReleaseOld(l) \/ KickOld(l)
             \/ ReleaseAgain(l) \/ NoSwitch(l) \/ Switch(l) \/ MakeHuman(l)
             \/ MakeHumanAsserts(l) \/ LoadedLate(l) \/ LoadedNew(l)
             \/ EnterWithoutFd(l) \/ Forbidden(l) \/ DoHumanLogin(l)
    BY <1>1, <2>3 DEF NoOffline, SaveOffline, NoOld, ReleaseOld, KickOld, ReleaseAgain, NoSwitch,
       Switch, MakeHuman, MakeHumanAsserts, LoadedLate, LoadedNew, EnterWithoutFd, Forbidden,
       DoHumanLogin
  <2> QED BY <1>3, <2>1, <2>2, <2>3 DEF LoginStep
<1>4. ASSUME OfflineStep PROVE FALSE
  <2>1. job.kind = "none" /\ \A a \in Accounts : offline[a] = None
    BY DEF NoCopies, NoJob
  <2> QED BY <1>4, <2>1 DEF OfflineStep, LoadOffline, EditOffline, SweepOffline, OfflineLoaded,
             SweptOffline
<1>5. ASSUME NEW f \in Fds, Connect(f) \/ ServerClose(f) \/ Packet(f) PROVE NoCopies'
  BY <1>1, <1>5 DEF Connect, ServerClose, Packet, AskLogin, ReLogin, Disconnect, RejectLogin,
     ReLoginFails, Play
<1>6. ASSUME NEW h \in HumanIds, SaveTimer(h) \/ RelogTimeout(h) PROVE NoCopies'
  BY <1>1, <1>6 DEF SaveTimer, RelogTimeout
<1>7. ASSUME UNCHANGED vars PROVE NoCopies'
  BY <1>1, <1>7 DEF vars
<1> QED BY <1>3, <1>4, <1>5, <1>6, <1>7 DEF Next
-----------------------------------------------------------------------------
LEMMA CurrentInvKept ==
  ASSUME Alone, ~OfflineLoads, CurrentInv, [Next]_vars
  PROVE  CurrentInv' /\ Grows
<1>0. /\ AloneInv' /\ AloneInv /\ TypeOK /\ FdAgrees /\ Accounted /\ Current /\ LoginsKnow
      /\ NoCopies
  BY AloneInvKept DEF CurrentInv, AloneInv, FdInv, Shape
<1>a. ASSUME NEW l \in Logins, LoginCurrent(l)' PROVE \A m \in Logins : LoginCurrent(m)'
  BY <1>a DEF Alone
<1>b. ASSUME NEW l \in Logins PROVE Checked(l) /\ LoginKnows(l) /\ LoginCurrent(l)
  BY <1>0 DEF CurrentInv, AloneInv, LoginsKnow
<1>c. \A h \in HumanIds : human[h].ver \in Int /\ human[h].acct \in Accounts \cup {None}
  BY <1>0, Numbers
<1>d. ASSUME UNCHANGED <<human, online, db>> PROVE Current' /\ Grows
  BY <1>0, <1>c, <1>d, CurrentKept
<1>e. NoCopies'
  BY <1>0, NoCopiesKept
<1>1. ASSUME NEW l \in Logins, NoOffline(l) \/ NoOld(l) \/ NoSwitch(l)
      PROVE  (\A m \in Logins : LoginCurrent(m)') /\ Current' /\ Grows
  <2>1. login'[l].pc \in {"old", "switch", "new"}
    BY <1>0, <1>1, PcFields DEF NoOffline, NoOld, NoSwitch, Goes, Pcs
  <2>2. LoginCurrent(l)'
    BY <2>1 DEF LoginCurrent
  <2> QED BY <1>1, <1>a, <1>d, <2>2 DEF NoOffline, NoOld, NoSwitch
<1>2. ASSUME NEW l \in Logins, SaveOffline(l) PROVE FALSE
  BY <1>0, <1>b, <1>2 DEF SaveOffline, Runs, NoCopies, LoginKnows
<1>3. ASSUME NEW l \in Logins, DelOffline(l)
      PROVE  (\A m \in Logins : LoginCurrent(m)') /\ Current' /\ Grows
  <2>1. login'[l].pc = "old"
    BY <1>0, <1>3, PcFields DEF DelOffline, Goes, Pcs
  <2>2. LoginCurrent(l)'
    BY <2>1 DEF LoginCurrent
  <2> QED BY <1>3, <1>a, <1>d, <2>2 DEF DelOffline
<1>4. ASSUME NEW l \in Logins, ReleaseOld(l) \/ KickOld(l)
      PROVE  (\A m \in Logins : LoginCurrent(m)') /\ Current' /\ Grows
  <2> DEFINE h == online[account]
  <2>1. /\ h \in HumanIds /\ account \in Accounts /\ human[h].acct = account /\ Settled(h)
    BY <1>0, <1>b, <1>4, NoneAssumption
    DEF ReleaseOld, KickOld, Runs, TypeOK, LoginKnows, Accounted, OnlineKeyed, Settled
  <2>2. /\ human' = TimersStopped(h) /\ UNCHANGED account /\ db' = SavedDb(h)
        /\ online' = [OnlineWithout(h) EXCEPT ![account] = None]
    BY <1>4 DEF ReleaseOld, KickOld
  <2>3. online' = OnlineWithout(h)
    BY <1>0, <2>1, <2>2, NoneAssumption DEF OnlineWithout, TypeOK
  <2>4. login'[l].pc = "switch" \/ (login'[l].pc = "again" /\ login'[l].old = h)
    <3>1. CASE ReleaseOld(l)
      BY <1>0, <3>1, PcFields DEF ReleaseOld, Yields, Pcs
    <3>2. CASE KickOld(l)
      BY <1>0, <3>2 DEF KickOld, TypeOK, Login
    <3> QED BY <1>4, <3>1, <3>2
  <2> HIDE DEF h
  <2>5. Holds(h)
    BY <1>0, <2>1, SettledHold
  <2>6. /\ Current' /\ Grows /\ human'[h].ver = human[h].ver
        /\ db'[account] = human[h].ver
    BY <1>0, <2>1, <2>2, <2>3, <2>5, ReleaseCurrent DEF Settled
  <2>7. LoginCurrent(l)'
    BY <1>c, <2>1, <2>2, <2>4, <2>6 DEF LoginCurrent
  <2> QED BY <1>a, <2>6, <2>7
<1>5. ASSUME NEW l \in Logins, ReleaseAgain(l)
      PROVE  (\A m \in Logins : LoginCurrent(m)') /\ Current' /\ Grows
  <2> DEFINE h == login[l].old
  <2>1. login'[l].pc = "switch"
    BY <1>0, <1>5 DEF ReleaseAgain, TypeOK, Login
  <2>2. /\ h \in HumanIds /\ human[h].acct = account /\ account \in Accounts
        /\ online[account] = None /\ db[account] <= human[h].ver
    BY <1>b, <1>5 DEF ReleaseAgain, Runs, LoginKnows, Checked, LoginCurrent
  <2>3. human' = TimersStopped(h) /\ online' = OnlineWithout(h) /\ db' = SavedDb(h)
    BY <1>5 DEF ReleaseAgain, Release
  <2> HIDE DEF h
  <2>4. Holds(h)
    BY <2>2, NoneAssumption DEF Holds
  <2>5. Current' /\ Grows
    BY <1>0, <2>2, <2>3, <2>4, ReleaseCurrent
  <2>6. LoginCurrent(l)'
    BY <2>1 DEF LoginCurrent
  <2> QED BY <1>a, <2>5, <2>6
<1>6. ASSUME NEW l \in Logins, Switch(l)
      PROVE  (\A m \in Logins : LoginCurrent(m)') /\ Current' /\ Grows
  <2> DEFINE h == fd_list[login[l].fd]
  <2>1. login'[l].pc = "new"
    BY <1>0, <1>6, PcFields DEF Switch, Yields, Pcs
  <2>2. h \in HumanIds /\ login[l].fd \in Fds /\ h # None /\ login[l].h = None
    BY <1>0, <1>b, <1>6 DEF Switch, Runs, TypeOK, LoginKnows, Checked, HasMade
  <2>3. Settled(h)
    BY <1>0, <2>2 DEF Accounted, AllSettled, Outside, Alone
  <2>4. human' = TimersStopped(h) /\ online' = OnlineWithout(h) /\ db' = SavedDb(h)
    BY <1>6 DEF Switch, Release
  <2> HIDE DEF h
  <2>5. Holds(h)
    BY <1>0, <2>2, <2>3, SettledHold
  <2>6. Current' /\ Grows
    BY <1>0, <2>2, <2>3, <2>4, <2>5, ReleaseCurrent DEF Settled
  <2>7. LoginCurrent(l)'
    BY <2>1 DEF LoginCurrent
  <2> QED BY <1>a, <2>6, <2>7
<1>7. ASSUME NEW l \in Logins, MakeHuman(l)
      PROVE  (\A m \in Logins : LoginCurrent(m)') /\ Current' /\ Grows
  <2>1. /\ login'[l].pc = "loaded" /\ login'[l].found = db[account]
        /\ UNCHANGED <<account, online, db>>
    BY <1>0, <1>7 DEF MakeHuman, TypeOK, Login
  <2>2. \A g \in HumanIds : /\ human'[g].acct = human[g].acct /\ human'[g].ver = human[g].ver
                            /\ human'[g].saves = human[g].saves
    BY <1>0, <1>7 DEF MakeHuman, TypeOK, Human
  <2>3. LoginCurrent(l)'
    BY <2>1 DEF LoginCurrent
  <2> QED BY <1>0, <1>a, <1>c, <2>1, <2>2, <2>3, CurrentKept
<1>8. ASSUME NEW l \in Logins, MakeHumanAsserts(l) \/ EnterWithoutFd(l)
      PROVE  (\A m \in Logins : LoginCurrent(m)') /\ Current' /\ Grows
  <2>1. LoginCurrent(l)'
    BY <1>0, <1>8, EndFields DEF MakeHumanAsserts, EnterWithoutFd, LoginCurrent
  <2> QED BY <1>8, <1>a, <1>d, <2>1 DEF MakeHumanAsserts, EnterWithoutFd
<1>9. ASSUME NEW l \in Logins, LoadedLate(l) PROVE FALSE
  BY <1>b, <1>9 DEF LoadedLate, Runs, Checked
<1>10. ASSUME NEW l \in Logins, Loaded(l)
       PROVE  (\A m \in Logins : LoginCurrent(m)') /\ Current' /\ Grows
  <2> DEFINE h == login[l].h
  <2>1. login'[l].pc = "enter"
    BY <1>0, <1>10, PcFields DEF Loaded, Goes, Pcs
  <2>2. /\ h \in HumanIds /\ account \in Accounts /\ login[l].want = account
        /\ online[account] = None /\ (\A a \in Accounts : online[a] # h)
        /\ login[l].found = db[account]
    BY <1>b, <1>10 DEF Loaded, Runs, LoginKnows, Checked, LoginCurrent
  <2>3. \A g \in HumanIds : /\ human'[g].acct = IF g = h THEN account ELSE human[g].acct
                            /\ human'[g].ver = IF g = h THEN db[account] ELSE human[g].ver
                            /\ human'[g].saves = human[g].saves
    BY <1>0, <2>2, <1>10 DEF Loaded, TypeOK, Human
  <2>4. /\ \A a \in Accounts : online'[a] = IF a = account THEN h ELSE online[a]
        /\ UNCHANGED <<account, db>>
    BY <1>0, <1>10 DEF Loaded, AddOnline, TypeOK
  <2> HIDE DEF h
  <2>5. Grows
    BY <1>0, <2>4, Numbers DEF Grows
  <2>6. OnlineCurrent'
    <3> SUFFICES ASSUME NEW a \in Accounts, online'[a] # None
                 PROVE  db'[a] <= human'[online'[a]].ver
      BY DEF OnlineCurrent
    <3>1. CASE a = account
      BY <1>0, <2>2, <2>3, <2>4, <3>1, Numbers
    <3>2. CASE a # account
      BY <1>0, <2>2, <2>3, <2>4, <3>2 DEF TypeOK, Current, OnlineCurrent
    <3> QED BY <3>1, <3>2
  <2>7. SaversSettled'
    <3> SUFFICES ASSUME NEW g \in HumanIds, human'[g].saves PROVE Settled(g)'
      BY DEF SaversSettled
    <3>1. Settled(g)
      BY <1>0, <2>3 DEF Current, SaversSettled
    <3>2. human[g].acct \in Accounts /\ online[human[g].acct] = g
      BY <1>c, <3>1 DEF Settled
    <3>3. g # h /\ human[g].acct # account
      BY <2>2, <3>2, NoneAssumption DEF HumanIds
    <3> QED BY <2>3, <2>4, <3>1, <3>2, <3>3 DEF Settled
  <2>8. LoginCurrent(l)'
    BY <2>1 DEF LoginCurrent
  <2> QED BY <1>a, <2>5, <2>6, <2>7, <2>8 DEF Current
<1>11. ASSUME NEW l \in Logins, LoadedNew(l)
       PROVE  (\A m \in Logins : LoginCurrent(m)') /\ Current' /\ Grows
  <2> DEFINE h == login[l].h
  <2>1. login'[l].pc = "named" /\ login'[l].h = h
    BY <1>0, <1>11, PcFields DEF LoadedNew, Yields, Pcs
  <2>2. /\ h \in HumanIds /\ account \in Accounts
        /\ online[account] = None /\ (\A a \in Accounts : online[a] # h)
        /\ db[account] = 0
    BY <1>b, <1>11 DEF LoadedNew, Runs, LoginKnows, Checked, LoginCurrent
  <2>3. \A g \in HumanIds : /\ human'[g].acct = IF g = h THEN account ELSE human[g].acct
                            /\ human'[g].ver = IF g = h THEN 1 ELSE human[g].ver
                            /\ human'[g].saves = human[g].saves
    BY <1>0, <2>2, <1>11 DEF LoadedNew, TypeOK, Human
  <2>4. UNCHANGED <<account, db, online>>
    BY <1>11 DEF LoadedNew
  <2> HIDE DEF h
  <2>5. Grows
    BY <1>0, <2>4, Numbers DEF Grows
  <2>6. OnlineCurrent'
    BY <1>0, <2>2, <2>3, <2>4 DEF TypeOK, Current, OnlineCurrent
  <2>7. SaversSettled'
    <3> SUFFICES ASSUME NEW g \in HumanIds, human'[g].saves PROVE Settled(g)'
      BY DEF SaversSettled
    <3>1. Settled(g)
      BY <1>0, <2>3 DEF Current, SaversSettled
    <3>2. human[g].acct \in Accounts /\ online[human[g].acct] = g
      BY <1>c, <3>1 DEF Settled
    <3>3. g # h
      BY <2>2, <3>2
    <3> QED BY <2>3, <2>4, <3>1, <3>3 DEF Settled
  <2>8. LoginCurrent(l)'
    BY <2>1, <2>2, <2>3, <2>4 DEF LoginCurrent
  <2> QED BY <1>a, <2>5, <2>6, <2>7, <2>8 DEF Current
<1>12. ASSUME NEW l \in Logins, Named(l)
       PROVE  (\A m \in Logins : LoginCurrent(m)') /\ Current' /\ Grows
  <2> DEFINE h == login[l].h
  <2>1. login'[l].pc = "enter"
    BY <1>0, <1>12, PcFields DEF Named, Yields, Pcs
  <2>2. /\ h \in HumanIds /\ account \in Accounts /\ human[h].acct = account
        /\ online[account] = None /\ (\A a \in Accounts : online[a] # h)
        /\ db[account] <= human[h].ver
    BY <1>b, <1>12 DEF Named, Runs, LoginKnows, Checked, LoginCurrent
  <2>3. /\ \A a \in Accounts : /\ online'[a] = IF a = account THEN h ELSE online[a]
                               /\ db'[a] = IF a = account THEN human[h].ver ELSE db[a]
        /\ UNCHANGED <<account, human>>
    BY <1>0, <2>2, <1>12 DEF Named, AddOnline, TypeOK
  <2> HIDE DEF h
  <2>4. Grows
    BY <1>0, <2>2, <2>3, Numbers DEF Grows
  <2>5. OnlineCurrent'
    <3> SUFFICES ASSUME NEW a \in Accounts, online'[a] # None
                 PROVE  db'[a] <= human[online'[a]].ver
      BY <2>3 DEF OnlineCurrent
    <3>1. CASE a = account
      BY <1>c, <2>2, <2>3, <3>1
    <3>2. CASE a # account
      BY <1>0, <2>3, <3>2 DEF Current, OnlineCurrent
    <3> QED BY <3>1, <3>2
  <2>6. SaversSettled'
    <3> SUFFICES ASSUME NEW g \in HumanIds, human[g].saves PROVE Settled(g)'
      BY <2>3 DEF SaversSettled
    <3>1. Settled(g)
      BY <1>0 DEF Current, SaversSettled
    <3>2. human[g].acct \in Accounts /\ online[human[g].acct] = g
      BY <1>c, <3>1 DEF Settled
    <3>3. human[g].acct # account
      BY <2>2, <3>2, NoneAssumption DEF HumanIds
    <3> QED BY <2>3, <3>1, <3>2, <3>3 DEF Settled
  <2>7. LoginCurrent(l)'
    BY <2>1 DEF LoginCurrent
  <2> QED BY <1>a, <2>4, <2>5, <2>6, <2>7 DEF Current
<1>13. ASSUME NEW l \in Logins, Forbidden(l)
       PROVE  (\A m \in Logins : LoginCurrent(m)') /\ Current' /\ Grows
  <2> DEFINE h == login[l].h
  <2>1. LoginCurrent(l)'
    BY <1>0, <1>13, EndFields DEF Forbidden, LoginCurrent
  <2>2. h \in HumanIds /\ Settled(h)
    BY <1>0, <1>b, <1>13, NoneAssumption
    DEF Forbidden, Runs, LoginKnows, Checked, Accounted, OnlineKeyed, Settled, HumanIds
  <2>3. human' = TimersStopped(h) /\ online' = OnlineWithout(h) /\ db' = SavedDb(h)
    BY <1>13 DEF Forbidden, Release
  <2> HIDE DEF h
  <2>4. Current' /\ Grows
    BY <1>0, <2>2, <2>3, SettledHold, ReleaseCurrent DEF Settled
  <2> QED BY <1>a, <2>1, <2>4
<1>14. ASSUME NEW l \in Logins, DoHumanLogin(l)
       PROVE  (\A m \in Logins : LoginCurrent(m)') /\ Current' /\ Grows
  <2> DEFINE h == login[l].h
  <2>1. LoginCurrent(l)'
    BY <1>0, <1>14, EndFields DEF DoHumanLogin, LoginCurrent
  <2>2. h \in HumanIds /\ Settled(h)
    BY <1>0, <1>b, <1>14, NoneAssumption
    DEF DoHumanLogin, Runs, LoginKnows, Checked, Accounted, OnlineKeyed, Settled, HumanIds
  <2>3. \A g \in HumanIds : /\ human'[g].acct = human[g].acct /\ human'[g].ver = human[g].ver
                            /\ human'[g].saves => human[g].saves \/ g = h
    BY <1>0, <2>2, <1>14 DEF DoHumanLogin, TypeOK, Human
  <2>4. UNCHANGED <<online, db>>
    BY <1>14 DEF DoHumanLogin
  <2> HIDE DEF h
  <2>5. Current' /\ Grows
    BY <1>0, <1>c, <2>2, <2>3, <2>4, CurrentKept
  <2> QED BY <1>a, <2>1, <2>5
<1>15. ASSUME NEW l \in Logins, NEW f \in Fds, NEW a \in Accounts, AskLogin(l, f, a)
       PROVE  (\A m \in Logins : LoginCurrent(m)') /\ Current' /\ Grows
  <2>1. login'[l].pc = "offline"
    BY <1>0, <1>15 DEF AskLogin, TypeOK, NoLogin
  <2>2. LoginCurrent(l)'
    BY <2>1 DEF LoginCurrent
  <2> QED BY <1>15, <1>a, <1>d, <2>2 DEF AskLogin
<1>f. ASSUME UNCHANGED <<login, account, db>>,
             \A h \in HumanIds : human'[h].ver >= human[h].ver /\ human'[h].ver \in Int
      PROVE  \A m \in Logins : LoginCurrent(m)'
  BY <1>0, <1>b, <1>f, LoginsCurrent
<1>16. ASSUME NEW f \in Fds, Play(f)
       PROVE  (\A m \in Logins : LoginCurrent(m)') /\ Current' /\ Grows
  <2>1. \A g \in HumanIds : /\ human'[g].acct = human[g].acct /\ human'[g].saves = human[g].saves
                            /\ human'[g].ver \in {human[g].ver, human[g].ver + 1}
    BY <1>0, <1>16 DEF Play, TypeOK, Human
  <2>2. \A g \in HumanIds : human'[g].ver >= human[g].ver /\ human'[g].ver \in Int
    BY <1>c, <2>1
  <2>3. UNCHANGED <<online, db, login, account>>
    BY <1>16 DEF Play
  <2> QED BY <1>0, <1>f, <2>1, <2>2, <2>3, CurrentKept
<1>17. ASSUME NEW h \in HumanIds, SaveTimer(h)
       PROVE  (\A m \in Logins : LoginCurrent(m)') /\ Current' /\ Grows
  <2>1. Settled(h) /\ Holds(h)
    BY <1>0, <1>17, SettledHold DEF SaveTimer, Current, SaversSettled
  <2>2. db' = SavedDb(h) /\ UNCHANGED <<human, online, login, account>>
    BY <1>17 DEF SaveTimer
  <2>3. /\ Grows
        /\ \A a \in Accounts : db'[a] = IF a = human[h].acct THEN human[h].ver ELSE db[a]
    BY <1>0, <2>1, <2>2, SaveGrows
  <2>4. Current'
    BY <1>0, <1>c, <2>1, <2>2, <2>3 DEF Current, OnlineCurrent, SaversSettled, Settled
  <2>5. \A l \in Logins : login[l].pc \in {"again", "loaded", "named"} => db'[account] = db[account]
    BY <1>b, <2>1, <2>3, NoneAssumption DEF Checked, LoginKnows, Settled, HumanIds
  <2>6. \A m \in Logins : LoginCurrent(m)'
    BY <1>0, <1>b, <1>c, <2>2, <2>5, LoginsCurrent
  <2> QED BY <2>3, <2>4, <2>6
<1>18. ASSUME NEW f \in Fds, NEW gone \in BOOLEAN, Disconnect(f, gone)
       PROVE  (\A m \in Logins : LoginCurrent(m)') /\ Current' /\ Grows
  <2>1. UNCHANGED <<online, db, login, account>>
    BY <1>18 DEF Disconnect
  <2>2. \A g \in HumanIds : /\ human'[g].acct = human[g].acct /\ human'[g].saves = human[g].saves
                            /\ human'[g].ver = human[g].ver
    <3>1. human \in [HumanIds -> Human]
      BY <1>0 DEF TypeOK
    <3>2. CASE fd_list[f] = None
      BY <1>18, <3>2 DEF Disconnect
    <3>3. CASE fd_list[f] # None
      BY <1>18, <3>1, <3>3 DEF Disconnect, Human
    <3> QED BY <3>2, <3>3
  <2> QED BY <1>0, <1>c, <1>f, <2>1, <2>2, CurrentKept
<1>19. ASSUME NEW h \in HumanIds, RelogTimeout(h)
       PROVE  (\A m \in Logins : LoginCurrent(m)') /\ Current' /\ Grows
  <2>1. Settled(h) /\ UNCHANGED <<login, account>>
    BY <1>0, <1>19 DEF RelogTimeout, Outside, Accounted, AllSettled
  <2>2. CASE human[h].fd = None
    <3>1. human' = TimersStopped(h) /\ online' = OnlineWithout(h) /\ db' = SavedDb(h)
      BY <1>19, <2>2 DEF RelogTimeout, Release
    <3>2. Holds(h)
      BY <1>0, <2>1, SettledHold
    <3>3. /\ Current' /\ Grows
          /\ \A g \in HumanIds : human'[g].ver = human[g].ver
          /\ \A a \in Accounts : db'[a] = IF a = human[h].acct THEN human[h].ver ELSE db[a]
      BY <1>0, <2>1, <3>1, <3>2, ReleaseCurrent DEF Settled
    <3>4. \A l \in Logins : login[l].pc \in {"again", "loaded", "named"} =>
            db'[account] = db[account]
      BY <1>b, <2>1, <3>3, NoneAssumption DEF Checked, LoginKnows, Settled, HumanIds
    <3>5. \A m \in Logins : LoginCurrent(m)'
      BY <1>0, <1>b, <1>c, <2>1, <3>3, <3>4, LoginsCurrent
    <3> QED BY <3>3, <3>5
  <2>3. CASE human[h].fd # None
    <3>1. human' = [human EXCEPT ![h].relog = FALSE] /\ UNCHANGED <<online, db>>
      BY <1>19, <2>3 DEF RelogTimeout
    <3>2. \A g \in HumanIds : /\ human'[g].acct = human[g].acct /\ human'[g].ver = human[g].ver
                              /\ human'[g].saves = human[g].saves
      BY <1>0, <3>1 DEF TypeOK, Human
    <3> QED BY <1>0, <1>c, <1>f, <2>1, <3>1, <3>2, CurrentKept
  <2> QED BY <2>2, <2>3
<1>20. ASSUME NEW f \in Fds, NEW a \in Accounts, ReLogin(f, a)
       PROVE  (\A m \in Logins : LoginCurrent(m)') /\ Current' /\ Grows
  <2> DEFINE h == online[a]
  <2>1. h \in HumanIds /\ UNCHANGED <<online, db, login, account>>
    BY <1>0, <1>20 DEF ReLogin, TypeOK
  <2>2. human' = [human EXCEPT ![h].fd = f, ![h].relog = FALSE]
    BY <1>20 DEF ReLogin
  <2> HIDE DEF h
  <2>3. \A g \in HumanIds : /\ human'[g].acct = human[g].acct /\ human'[g].ver = human[g].ver
                            /\ human'[g].saves = human[g].saves
    <3>1. human \in [HumanIds -> Human]
      BY <1>0 DEF TypeOK
    <3> QED BY <2>1, <2>2, <3>1 DEF Human
  <2> QED BY <1>0, <1>c, <1>f, <2>1, <2>3, CurrentKept
<1>21. ASSUME UNCHANGED <<login, account, online, human, db>>
       PROVE  (\A m \in Logins : LoginCurrent(m)') /\ Current' /\ Grows
  BY <1>21, <1>c, <1>d, <1>f
<1>22. OfflineStep => FALSE
  <2>1. job.kind = "none" /\ \A a \in Accounts : offline[a] = None
    BY <1>0 DEF NoCopies, NoJob
  <2> QED BY <2>1 DEF OfflineStep, LoadOffline, EditOffline, SweepOffline, OfflineLoaded,
             SweptOffline
<1>23. (\A m \in Logins : LoginCurrent(m)') /\ Current' /\ Grows
  <2>1. ASSUME NEW l \in Logins, LoginStep(l)
        PROVE  (\A m \in Logins : LoginCurrent(m)') /\ Current' /\ Grows
    BY <2>1, <1>1, <1>2, <1>3, <1>4, <1>5, <1>6, <1>7, <1>8, <1>9, <1>10, <1>11, <1>12, <1>13, <1>14
    DEF LoginStep
  <2>2. ASSUME NEW f \in Fds, Connect(f) \/ ServerClose(f) \/ Packet(f)
        PROVE  (\A m \in Logins : LoginCurrent(m)') /\ Current' /\ Grows
    BY <2>2, <1>15, <1>16, <1>18, <1>20, <1>21
    DEF Connect, ServerClose, Packet, RejectLogin, ReLoginFails
  <2>3. ASSUME UNCHANGED vars
        PROVE  (\A m \in Logins : LoginCurrent(m)') /\ Current' /\ Grows
    BY <2>3, <1>21 DEF vars
  <2> QED BY <2>1, <2>2, <2>3, <1>17, <1>19, <1>22 DEF Next
<1> QED BY <1>0, <1>e, <1>23 DEF CurrentInv

LEMMA AlwaysCurrentInv == ASSUME Alone, ~OfflineLoads PROVE Spec => []CurrentInv
<1>1. Init => CurrentInv
  <2> SUFFICES ASSUME Init PROVE CurrentInv
    OBVIOUS
  <2>1. AloneInv
    BY InitAlone
  <2>2. NoCopies /\ Current
    BY DEF Init, NoCopies, Current, OnlineCurrent, SaversSettled, NewHuman
  <2>3. \A l \in Logins : LoginCurrent(l)
    BY DEF Init, LoginCurrent, NoLogin
  <2> QED BY <2>1, <2>2, <2>3 DEF CurrentInv
<1>2. CurrentInv /\ [Next]_vars => CurrentInv'
  BY CurrentInvKept
<1> QED BY <1>1, <1>2, PTL DEF Spec

(* What the database holds of an account never goes back (ObjHuman.release *)
(* and CharDB.save), where no offline characters are loaded: their copies  *)
(* can be older than the character that came online meanwhile.             *)
THEOREM NothingEverLost == ASSUME Alone, ~OfflineLoads PROVE Spec => NothingLost
<1>1. CurrentInv /\ [Next]_vars => [\A a \in Accounts : db'[a] >= db[a]]_vars
  BY CurrentInvKept DEF Grows
<1> QED BY <1>1, AlwaysCurrentInv, PTL DEF Spec, NothingLost
=============================================================================
