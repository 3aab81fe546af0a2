------------------------------- MODULE Guild -------------------------------
(***************************************************************************)
(* Guilds: modules/guild/GuildManager.lua and Guild.lua, with the parts of *)
(* HumanManager and OfflineHuman they reach players through.               *)
(*                                                                         *)
(* A player's character holds the id of its guild (db.guildId, 0 for       *)
(* none), the guild holds the list of its members.  The character may be   *)
(* online, or loaded as an offline copy, or only in the database, and a    *)
(* handler that has to load it yields in the middle.  So do the insertion  *)
(* of a new guild and the mail that tells a player what happened to it.    *)
(* A handler that has yielded is an entry of gjob; everything else is one  *)
(* action.  A login and a sweep of an offline copy are one step here (they *)
(* are given step by step in Session).                                     *)
(***************************************************************************)
EXTENDS Integers, FiniteSets

CONSTANTS
  Players,     \* accounts
  GuildNames,
  MaxGuilds,   \* bound: guilds made in a run
  MaxMembers,  \* GuildLvConfig: memCount
  MaxSeniors,  \* GuildLvConfig: elderCount
  MaxMemId,    \* bound: members a guild ever has
  GuildJobs,   \* bound: handlers that wait for the database at once
  Creators     \* bound: createGuild handlers among them

ASSUME GuildAssumption ==
  /\ MaxGuilds \in Nat /\ MaxMembers \in Nat /\ MaxSeniors \in Nat /\ MaxMemId \in Nat \ {0}
  /\ Creators \in Nat /\ IsFiniteSet(GuildJobs)

VARIABLES
  guild,     \* the Guild objects
  nGuilds,   \* objects made so far
  idList,    \* IdList: object by id
  nameList,  \* the keys of NameList
  curMaxId,  \* GuildCurMaxId (less GUILD_START_ID)
  dirtyGuilds,     \* the save queue SQ
  guildDoc,  \* the documents of the collection "guild"
  gid,       \* db.guildId of the online characters
  copyGid,   \* db.guildId of the offline copies
  charGid,   \* guildId in the documents of the collection "char"
  gjob,      \* handlers that wait for the database
  quitters   \* members that quit since their guild was last saved

chars == <<gid, copyGid, charGid>>
lists == <<idList, nameList, curMaxId>>
guildVars == <<guild, nGuilds, lists, dirtyGuilds, guildDoc, chars, gjob, quitters>>

Guilds   == 1 .. MaxGuilds
GuildIds == 1 .. MaxGuilds
NoGuild  == 0   \* guildId of a player without a guild
Absent   == -1  \* no such character in memory

Member == [id : 1 .. MaxMemId, acct : Players, pos : {"leader", "senior", "normal"}]
GuildDb == [id : GuildIds \cup {0}, name : GuildNames \cup {""}, mem : SUBSET Member,
            apply : SUBSET Players, genMemId : 0 .. MaxMemId]
NewGuild == [id |-> 0, name |-> "", mem |-> {}, apply |-> {}, genMemId |-> 0]
GuildIdle == [op |-> "idle", g |-> 0, acct |-> "", gid |-> 0]

GuildInit ==
  /\ guild = [g \in Guilds |-> NewGuild] /\ nGuilds = 0
  /\ idList = [i \in GuildIds |-> 0] /\ nameList = {} /\ curMaxId = 0
  /\ dirtyGuilds = {}
  /\ guildDoc = [g \in Guilds |-> NewGuild]
  /\ gid = [a \in Players |-> Absent]
  /\ copyGid = [a \in Players |-> Absent]
  /\ charGid = [a \in Players |-> NoGuild]
  /\ gjob = [j \in GuildJobs |-> GuildIdle]
  /\ quitters = [g \in Guilds |-> {}]
-----------------------------------------------------------------------------
(* Guild.lua.                                                              *)

MembersOf(g) == {m.acct : m \in guild[g].mem}

\* getMemberByAccount: the first in the list, members being appended with rising ids.
MemberByAccount(g, a) ==
  CHOOSE m \in guild[g].mem : m.acct = a /\ \A n \in guild[g].mem : n.acct = a => m.id <= n.id

WithMember(g, a, pos) ==
  [g EXCEPT !.genMemId = @ + 1, !.mem = @ \cup {[id |-> g.genMemId + 1, acct |-> a, pos |-> pos]}]

\* The guild a finds under its own guildId, provided it is a member.
IsMember(a, g) == gid[a] > 0 /\ idList[gid[a]] = g /\ g # 0 /\ a \in MembersOf(g)
Holds(a, g, ranks) == IsMember(a, g) /\ MemberByAccount(g, a).pos \in ranks

Listed == {idList[i] : i \in GuildIds} \ {0}
SpareMember(g) == guild[g].genMemId < MaxMemId
SetDirty(g) == dirtyGuilds' = dirtyGuilds \cup {guild[g].id}

\* Guild.destroy: the members that are online are told.
Dismissed(g) == [a \in Players |-> IF a \in MembersOf(g) /\ gid[a] # Absent THEN NoGuild ELSE gid[a]]
-----------------------------------------------------------------------------
(* createGuild: the creator is a member before the guild is inserted and   *)
(* entered in the lists.                                                   *)
CreateGuild(a, n, j, ok) ==
  /\ gjob[j] = GuildIdle /\ nGuilds < MaxGuilds
  /\ Cardinality({k \in GuildJobs : gjob[k].op = "create"}) < Creators
  /\ n \notin nameList /\ gid[a] = NoGuild
  /\ LET g  == nGuilds + 1
         id == curMaxId + 1
     IN  /\ nGuilds' = g
         /\ guild' = [guild EXCEPT ![g] =
                        WithMember([NewGuild EXCEPT !.name = n, !.id = id], a, "leader")]
         /\ gid' = [gid EXCEPT ![a] = id]
         /\ guildDoc' = IF ok THEN [guildDoc EXCEPT ![g] = guild'[g]]
                              ELSE guildDoc
         /\ gjob' = [gjob EXCEPT ![j] = [op |-> "create", g |-> g, acct |-> a, gid |-> 0]]
  /\ UNCHANGED <<lists, dirtyGuilds, copyGid, charGid, quitters>>

\* Mutant: off by one.
RaisedPastId(id) == IF curMaxId <= id THEN id + 1 ELSE curMaxId

\* addGuild.
RaisedId(id) == IF curMaxId < id THEN id ELSE curMaxId

Created(j) ==
  /\ gjob[j].op = "create"
  /\ LET g == gjob[j].g
     IN  IF guildDoc[g].id # 0
           THEN /\ idList' = [idList EXCEPT ![guild[g].id] = g]
                /\ nameList' = nameList \cup {guild[g].name}
                /\ curMaxId' = RaisedId(guild[g].id)
                /\ UNCHANGED gid
           ELSE gid' = Dismissed(g) /\ UNCHANGED lists
  /\ gjob' = [gjob EXCEPT ![j] = GuildIdle]
  /\ UNCHANGED <<guild, nGuilds, dirtyGuilds, guildDoc, copyGid, charGid, quitters>>

DestroyGuild(a, g) ==
  /\ Holds(a, g, {"leader"})
  /\ Cardinality(guild[g].mem) = 1
  /\ idList' = [idList EXCEPT ![guild[g].id] = 0]
  /\ nameList' = nameList \ {guild[g].name}
  /\ gid' = Dismissed(g)
  /\ guildDoc' = [guildDoc EXCEPT ![g] = NewGuild]
  /\ guild' = [guild EXCEPT ![g] = [NewGuild EXCEPT !.id = guild[g].id]]
  /\ UNCHANGED <<nGuilds, curMaxId, dirtyGuilds, copyGid, charGid, gjob, quitters>>

\* Mutant: the leader may quit.
QuitAnyRank(a, g) ==
  /\ IsMember(a, g)
  /\ guild' = [guild EXCEPT ![g].mem = @ \ {MemberByAccount(g, a)}]
  /\ gid' = [gid EXCEPT ![a] = NoGuild]
  /\ quitters' = [quitters EXCEPT ![g] = @ \cup {MemberByAccount(g, a)}]
  /\ UNCHANGED <<nGuilds, lists, dirtyGuilds, guildDoc, copyGid, charGid, gjob>>

\* quitGuild does not set the guild dirty.
QuitGuild(a, g) ==
  /\ Holds(a, g, {"senior", "normal"})
  /\ guild' = [guild EXCEPT ![g].mem = @ \ {MemberByAccount(g, a)}]
  /\ gid' = [gid EXCEPT ![a] = NoGuild]
  /\ quitters' = [quitters EXCEPT ![g] = @ \cup {MemberByAccount(g, a)}]
  /\ UNCHANGED <<nGuilds, lists, dirtyGuilds, guildDoc, copyGid, charGid, gjob>>

ApplyGuild(a, g) ==
  /\ gid[a] = NoGuild /\ g \in Listed /\ a \notin guild[g].apply
  /\ guild' = [guild EXCEPT ![g].apply = @ \cup {a}]
  /\ SetDirty(g)
  /\ UNCHANGED <<nGuilds, lists, guildDoc, chars, gjob, quitters>>

ApplyGuildCancel(a, g) ==
  /\ gid[a] = NoGuild /\ g \in Listed
  /\ guild' = [guild EXCEPT ![g].apply = @ \ {a}]
  /\ SetDirty(g)
  /\ UNCHANGED <<nGuilds, lists, guildDoc, chars, gjob, quitters>>
-----------------------------------------------------------------------------
(* acceptJoin.                                                             *)

Waits(j, op, g, a, id) == gjob' = [gjob EXCEPT ![j] = [op |-> op, g |-> g, acct |-> a, gid |-> id]]

MayAccept(h, a, g) == Holds(h, g, {"leader", "senior"}) /\ a \in guild[g].apply

RejectJoin(h, a, g) ==
  /\ MayAccept(h, a, g)
  /\ guild' = [guild EXCEPT ![g].apply = @ \ {a}]
  /\ SetDirty(g)
  /\ UNCHANGED <<nGuilds, lists, guildDoc, chars, gjob, quitters>>

AcceptBegins(h, a, g, j) ==
  /\ gjob[j] = GuildIdle
  /\ MayAccept(h, a, g)
  /\ Cardinality(guild[g].mem) < MaxMembers /\ SpareMember(g)

\* The applicant is online, or there is an offline copy of it.
AcceptJoin(h, a, g, j) ==
  /\ AcceptBegins(h, a, g, j)
  /\ LET obj    == IF gid[a] # Absent THEN gid[a] ELSE copyGid[a]
         without == [guild[g] EXCEPT !.apply = @ \ {a}]
     IN  /\ obj # Absent
         /\ IF obj # NoGuild
              THEN guild' = [guild EXCEPT ![g] = without] /\ UNCHANGED <<gid, copyGid, gjob>>
              ELSE /\ guild' = [guild EXCEPT ![g] = WithMember(without, a, "normal")]
                   /\ IF gid[a] # Absent
                        THEN gid' = [gid EXCEPT ![a] = guild[g].id] /\ UNCHANGED copyGid
                        ELSE copyGid' = [copyGid EXCEPT ![a] = guild[g].id] /\ UNCHANGED gid
                   /\ Waits(j, "joined", g, a, 0)
  /\ UNCHANGED <<nGuilds, lists, dirtyGuilds, guildDoc, charGid, quitters>>

\* The applicant has to be loaded.
AcceptLoads(h, a, g, j) ==
  /\ AcceptBegins(h, a, g, j)
  /\ gid[a] = Absent /\ copyGid[a] = Absent
  /\ guild' = [guild EXCEPT ![g].apply = @ \ {a}]
  /\ Waits(j, "accept", g, a, charGid[a])
  /\ UNCHANGED <<nGuilds, lists, dirtyGuilds, guildDoc, chars, quitters>>

\* What was checked before the load is not checked again.
AcceptLoaded(j) ==
  /\ gjob[j].op = "accept"
  /\ LET g == gjob[j].g
         a == gjob[j].acct
     IN  IF gjob[j].gid # NoGuild
           THEN /\ copyGid' = [copyGid EXCEPT ![a] = gjob[j].gid]
                /\ gjob' = [gjob EXCEPT ![j] = GuildIdle]
                /\ UNCHANGED guild
           ELSE /\ SpareMember(g)
                /\ guild' = [guild EXCEPT ![g] = WithMember(@, a, "normal")]
                /\ copyGid' = [copyGid EXCEPT ![a] = guild[g].id]
                /\ Waits(j, "joined", g, a, 0)
  /\ UNCHANGED <<nGuilds, lists, dirtyGuilds, guildDoc, gid, charGid, quitters>>

\* After the mail: the new member's other applications go.
Joined(j) ==
  /\ gjob[j].op = "joined"
  /\ guild' = [g \in Guilds |-> IF g \in Listed THEN [guild[g] EXCEPT !.apply = @ \ {gjob[j].acct}]
                                                ELSE guild[g]]
  /\ SetDirty(gjob[j].g)
  /\ gjob' = [gjob EXCEPT ![j] = GuildIdle]
  /\ UNCHANGED <<nGuilds, lists, guildDoc, chars, quitters>>
-----------------------------------------------------------------------------
(* memberOperate.                                                          *)

MayOperate(h, g, m) ==
  /\ Holds(h, g, {"leader"})
  /\ m \in guild[g].mem /\ m # MemberByAccount(g, h)

SetRanks(g, changed) ==
  /\ guild' = [guild EXCEPT ![g].mem = {m \in @ : \A c \in changed : c.id # m.id} \cup changed]
  /\ SetDirty(g)
  /\ UNCHANGED <<nGuilds, lists, guildDoc, chars, gjob, quitters>>

Appoint(h, g, m) ==
  /\ MayOperate(h, g, m)
  /\ Cardinality({n \in guild[g].mem : n.pos = "senior"}) < MaxSeniors
  /\ SetRanks(g, {[m EXCEPT !.pos = "senior"]})

Passto(h, g, m) ==
  /\ MayOperate(h, g, m)
  /\ SetRanks(g, {[MemberByAccount(g, h) EXCEPT !.pos = "normal"], [m EXCEPT !.pos = "leader"]})

Remove(h, g, m) == MayOperate(h, g, m) /\ SetRanks(g, {[m EXCEPT !.pos = "normal"]})

\* Mutant: the one who is sent away is not told.
KickoffSilent(h, g, m, j) ==
  /\ gjob[j] = GuildIdle
  /\ MayOperate(h, g, m)
  /\ guild' = [guild EXCEPT ![g].mem = @ \ {m}]
  /\ Waits(j, "kicked", g, m.acct, 0)
  /\ UNCHANGED <<nGuilds, lists, dirtyGuilds, guildDoc, chars, quitters>>

Kickoff(h, g, m, j) ==
  /\ gjob[j] = GuildIdle
  /\ MayOperate(h, g, m)
  /\ guild' = [guild EXCEPT ![g].mem = @ \ {m}]
  /\ IF gid[m.acct] # Absent
       THEN gid' = [gid EXCEPT ![m.acct] = NoGuild] /\ UNCHANGED copyGid
       ELSE /\ copyGid' = IF copyGid[m.acct] = Absent THEN copyGid
                          ELSE [copyGid EXCEPT ![m.acct] = NoGuild]
            /\ UNCHANGED gid
  /\ Waits(j, IF gid[m.acct] = Absent /\ copyGid[m.acct] = Absent THEN "kick" ELSE "kicked",
           g, m.acct, 0)
  /\ UNCHANGED <<nGuilds, lists, dirtyGuilds, guildDoc, charGid, quitters>>

KickLoaded(j) ==
  /\ gjob[j].op = "kick"
  /\ copyGid' = [copyGid EXCEPT ![gjob[j].acct] = NoGuild]
  /\ gjob' = [gjob EXCEPT ![j].op = "kicked"]
  /\ UNCHANGED <<guild, nGuilds, lists, dirtyGuilds, guildDoc, gid, charGid, quitters>>

\* Mutant: the kick is not saved.
KickedClean(j) ==
  /\ gjob[j].op = "kicked"
  /\ gjob' = [gjob EXCEPT ![j] = GuildIdle]
  /\ UNCHANGED <<guild, nGuilds, lists, dirtyGuilds, guildDoc, chars, quitters>>

Kicked(j) ==
  /\ gjob[j].op = "kicked"
  /\ SetDirty(gjob[j].g)
  /\ gjob' = [gjob EXCEPT ![j] = GuildIdle]
  /\ UNCHANGED <<guild, nGuilds, lists, guildDoc, chars, quitters>>
-----------------------------------------------------------------------------
(* Saving, logging in and out, and restarting.                             *)

\* GuildManager.save: the ids of guilds that are gone are dropped.
SaveGuild(i) ==
  /\ i \in dirtyGuilds
  /\ dirtyGuilds' = dirtyGuilds \ {i}
  /\ LET g == idList[i]
     IN  IF g = 0 THEN UNCHANGED <<guildDoc, quitters>>
         ELSE /\ guildDoc' = [guildDoc EXCEPT ![g] = [guild[g] EXCEPT !.apply = {}]]
              /\ quitters' = [quitters EXCEPT ![g] = {}]
  /\ UNCHANGED <<guild, nGuilds, lists, chars, gjob>>

\* GuildManager.onLogin.
CheckedGid(a, id) ==
  IF id # NoGuild /\ idList[id] # 0 /\ a \in MembersOf(idList[id]) THEN id ELSE NoGuild

\* A login saves the offline copy and drops it before it loads the character.
Login(a) ==
  /\ gid[a] = Absent
  /\ LET id == IF copyGid[a] # Absent THEN copyGid[a] ELSE charGid[a]
     IN  charGid' = [charGid EXCEPT ![a] = id] /\ gid' = [gid EXCEPT ![a] = CheckedGid(a, id)]
  /\ copyGid' = [copyGid EXCEPT ![a] = Absent]
  /\ UNCHANGED <<guild, nGuilds, lists, dirtyGuilds, guildDoc, gjob, quitters>>

\* onLogout raises an error for a character its guild does not know.
CanLeave(a) == gid[a] > 0 /\ idList[gid[a]] # 0 => a \in MembersOf(idList[gid[a]])

\* Bound: the database answers a guild's insertion before its creator logs out.
Logout(a) ==
  /\ gid[a] # Absent /\ CanLeave(a)
  /\ \A j \in GuildJobs : ~(gjob[j].op = "create" /\ gjob[j].acct = a)
  /\ charGid' = [charGid EXCEPT ![a] = gid[a]]
  /\ gid' = [gid EXCEPT ![a] = Absent]
  /\ UNCHANGED <<guild, nGuilds, lists, dirtyGuilds, guildDoc, copyGid, gjob, quitters>>

\* onSaveOfflineDB.
SweepCopy(a) ==
  /\ copyGid[a] # Absent
  /\ charGid' = [charGid EXCEPT ![a] = copyGid[a]]
  /\ copyGid' = [copyGid EXCEPT ![a] = Absent]
  /\ UNCHANGED <<guild, nGuilds, lists, dirtyGuilds, guildDoc, gid, gjob, quitters>>

\* The process ends without onGameExit and loads the guilds again (loadDB).
GuildRestart ==
  /\ \E saved \in [Guilds -> SUBSET Players] :
       guild' = [g \in Guilds |-> IF guildDoc[g].id = 0 THEN NewGuild
                                  ELSE [guildDoc[g] EXCEPT !.apply = saved[g]]]
  /\ idList' = [i \in GuildIds |->
       IF \E g \in Guilds : guildDoc[g].id = i THEN CHOOSE g \in Guilds : guildDoc[g].id = i ELSE 0]
  /\ nameList' = {guildDoc[g].name : g \in Guilds} \ {""}
  /\ curMaxId' = CHOOSE m \in 0 .. MaxGuilds :
                   /\ \A g \in Guilds : guildDoc[g].id <= m
                   /\ m = 0 \/ \E g \in Guilds : guildDoc[g].id = m
  /\ dirtyGuilds' = {}
  /\ gid' = [a \in Players |-> Absent] /\ copyGid' = gid'
  /\ gjob' = [j \in GuildJobs |-> GuildIdle]
  /\ quitters' = [g \in Guilds |-> {}]
  /\ UNCHANGED <<nGuilds, guildDoc, charGid>>
-----------------------------------------------------------------------------
GuildHandler(h, g) ==
  \/ DestroyGuild(h, g) \/ QuitGuild(h, g) \/ ApplyGuild(h, g) \/ ApplyGuildCancel(h, g)
  \/ \E a \in Players :
       \/ RejectJoin(h, a, g)
       \/ \E j \in GuildJobs : AcceptJoin(h, a, g, j) \/ AcceptLoads(h, a, g, j)
  \/ \E m \in guild[g].mem :
       \/ Appoint(h, g, m) \/ Passto(h, g, m) \/ Remove(h, g, m)
       \/ \E j \in GuildJobs : Kickoff(h, g, m, j)

GuildNext ==
  \/ \E a \in Players, n \in GuildNames, j \in GuildJobs, ok \in BOOLEAN : CreateGuild(a, n, j, ok)
  \/ \E h \in Players, g \in Guilds : GuildHandler(h, g)
  \/ \E j \in GuildJobs : Created(j) \/ AcceptLoaded(j) \/ Joined(j) \/ KickLoaded(j) \/ Kicked(j)
  \/ \E i \in GuildIds : SaveGuild(i)
  \/ \E a \in Players : Login(a) \/ Logout(a) \/ SweepCopy(a)
  \/ GuildRestart

GuildSpec == GuildInit /\ [][GuildNext]_guildVars
-----------------------------------------------------------------------------
(* The type invariant.                                                     *)
GuildTypeOK ==
  /\ guild \in [Guilds -> GuildDb] /\ guildDoc \in [Guilds -> GuildDb]
  /\ nGuilds \in 0 .. MaxGuilds
  /\ idList \in [GuildIds -> Guilds \cup {0}]
  /\ nameList \in SUBSET GuildNames /\ curMaxId \in 0 .. MaxGuilds
  /\ dirtyGuilds \in SUBSET GuildIds
  /\ gid \in [Players -> GuildIds \cup {NoGuild, Absent}]
  /\ copyGid \in [Players -> GuildIds \cup {NoGuild, Absent}]
  /\ charGid \in [Players -> GuildIds \cup {NoGuild}]
  /\ gjob \in [GuildJobs -> [op : {"idle", "create", "accept", "joined", "kick", "kicked"},
                             g : Guilds \cup {0}, acct : Players \cup {""},
                             gid : GuildIds \cup {NoGuild}]]
  /\ quitters \in [Guilds -> SUBSET Member]

(* Every guild in the lists has one leader, whoever joins, quits, is       *)
(* kicked, promoted or handed the guild, in whatever order and with        *)
(* whatever loads in between, and also as it is loaded after a crash.      *)
OneLeader ==
  \A g \in Listed : Cardinality({m \in guild[g].mem : m.pos = "leader"}) = 1

(* A character that is online with a guild is a member of it: otherwise    *)
(* GuildManager.onLogout raises an error (member is nil, line 553) when it *)
(* is released, and ObjHuman.release ends before it saves.                 *)
ReleaseWorks == \A a \in Players : CanLeave(a)

(* What a crash would lose is known: the document of a guild differs from  *)
(* the guild by members that quit, unless the guild waits to be saved or a *)
(* handler that changed it still waits for its mail.                       *)
SavedOrDirty ==
  \A g \in Listed :
    \/ guild[g].id \in dirtyGuilds
    \/ \E j \in GuildJobs : gjob[j].g = g /\ gjob[j].op \in {"joined", "kick", "kicked"}
    \/ guildDoc[g].mem = guild[g].mem \cup quitters[g]
=============================================================================
