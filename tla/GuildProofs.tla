----------------------------- MODULE GuildProofs -----------------------------
(* Proofs about Guild, for every set of players, names and handlers and    *)
(* all limits.                                                             *)
EXTENDS Guild, FiniteSetTheorems, WellFoundedInduction, TLAPS

(* The members of a guild have different ids, and a new one gets another.  *)
Distinct(d) ==
  /\ \A m, n \in d.mem : m.id = n.id => m = n
  /\ \A m \in d.mem : m.id <= d.genMemId

Led(d) == \E l \in d.mem : l.pos = "leader" /\ \A m \in d.mem : m.pos = "leader" => m = l

Formed == \A g \in Guilds : Distinct(guild[g]) /\ Distinct(guildDoc[g])

Unmade ==
  \A g \in Guilds : g > nGuilds =>
    guild[g] = NewGuild /\ guildDoc[g] = NewGuild /\ quitters[g] = {}

Numbered ==
  /\ curMaxId <= nGuilds
  /\ \A g \in Guilds : guild[g].id <= nGuilds /\ guildDoc[g].id <= nGuilds

(* The lists find a guild under its id only.                               *)
Indexed ==
  \A i \in GuildIds : idList[i] # 0 =>
    /\ idList[i] <= nGuilds /\ i <= curMaxId
    /\ guild[idList[i]].id = i /\ Led(guild[idList[i]])

Documented == \A g \in Guilds : guildDoc[g].id # 0 => Led(guildDoc[g])

Creates(j) == gjob[j].op = "create"
Busy(j) == gjob[j].op # "idle"
InDocument(g) == guildDoc[g].mem = guild[g].mem \cup quitters[g]

(* The guild of a handler was made; one that is being created is known to  *)
(* no other handler and not yet listed.                                    *)
JobsFit ==
  \A j \in GuildJobs : Busy(j) =>
    /\ gjob[j].g \in 1 .. nGuilds /\ gjob[j].acct \in Players /\ guild[gjob[j].g].id # 0
    /\ Creates(j) =>
         /\ Led(guild[gjob[j].g]) /\ guild[gjob[j].g].name \in GuildNames
         /\ \A i \in GuildIds : idList[i] # gjob[j].g
         /\ \A k \in GuildJobs \ {j} : Busy(k) => gjob[k].g # gjob[j].g
         /\ guildDoc[gjob[j].g].id # 0 => InDocument(gjob[j].g)

GuildShape == GuildTypeOK /\ Formed /\ Unmade /\ Numbered /\ Indexed /\ Documented /\ JobsFit

GuildInv == GuildShape /\ SavedOrDirty

GuildJob == [op : {"idle", "create", "accept", "joined", "kick", "kicked"},
             g : Guilds \cup {0}, acct : Players \cup {""}, gid : GuildIds \cup {NoGuild}]
-----------------------------------------------------------------------------
(* The operators of the module.                                            *)

(* getMemberByAccount finds a member of that account.                      *)
LEMMA MemberFound ==
  ASSUME NEW g, guild[g] \in GuildDb, NEW a \in MembersOf(g)
  PROVE  MemberByAccount(g, a) \in guild[g].mem /\ MemberByAccount(g, a).acct = a
<1> DEFINE own == {m \in guild[g].mem : m.acct = a}
           less == {ss \in Nat \X Nat : ss[1] < ss[2]}
           ids == {m.id : m \in own}
<1>1. own # {} /\ \A m \in own : m \in Member
  BY DEF MembersOf, GuildDb
<1>2. ids # {} /\ ids \subseteq Nat
  BY <1>1, GuildAssumption DEF Member
<1>3. IsWellFoundedOn(less, Nat)
  BY NatLessThanWellFounded, Zenon DEF OpToRel
<1>4. PICK i \in ids : \A k \in ids : ~(<<k, i>> \in less)
  <2> HIDE DEF ids, less
  <2> QED BY <1>2, <1>3, WFMin, Zenon
<1>5. \A k \in ids : i <= k
  <2> SUFFICES ASSUME NEW k \in ids PROVE i <= k
    OBVIOUS
  <2>1. i \in Nat /\ k \in Nat /\ <<k, i>> \notin less
    BY <1>2, <1>4
  <2> QED BY <2>1
<1>6. PICK m \in own : m.id = i
  OBVIOUS
<1>7. m \in guild[g].mem /\ m.acct = a /\ \A n \in guild[g].mem : n.acct = a => m.id <= n.id
  BY <1>5, <1>6
<1> HIDE DEF own, ids, less
<1> QED BY <1>7, Zenon DEF MemberByAccount

(* A new member disturbs nobody.                                           *)
LEMMA WithMemberFits ==
  ASSUME NEW d \in GuildDb, Distinct(d), d.genMemId < MaxMemId,
         NEW a \in Players, NEW pos \in {"leader", "senior", "normal"}
  PROVE  LET e == WithMember(d, a, pos)
         IN  /\ e \in GuildDb /\ Distinct(e)
             /\ e.id = d.id /\ e.name = d.name /\ e.apply = d.apply
             /\ \E n \in e.mem : n.acct = a /\ n.pos = pos /\ e.mem = d.mem \cup {n}
             /\ pos = "normal" /\ Led(d) => Led(e)
<1> DEFINE e == WithMember(d, a, pos)
           n == [id |-> d.genMemId + 1, acct |-> a, pos |-> pos]
<1>1. d.genMemId \in 0 .. MaxMemId /\ MaxMemId \in Nat /\ d.mem \in SUBSET Member
  BY GuildAssumption DEF GuildDb
<1>2. d.genMemId + 1 \in 1 .. MaxMemId /\ d.genMemId + 1 \in 0 .. MaxMemId
  BY <1>1
<1>3. n \in Member /\ n.id = d.genMemId + 1 /\ n.acct = a /\ n.pos = pos
  BY <1>2 DEF Member
<1> HIDE DEF n
<1>4. e = [d EXCEPT !.genMemId = d.genMemId + 1, !.mem = d.mem \cup {n}]
  BY DEF WithMember, n
<1>5. /\ e \in GuildDb /\ e.id = d.id /\ e.name = d.name /\ e.apply = d.apply
      /\ e.mem = d.mem \cup {n} /\ e.genMemId = d.genMemId + 1
  <2> DEFINE k == d.genMemId + 1
             S == d.mem \cup {n}
  <2>1. k \in 0 .. MaxMemId /\ S \in SUBSET Member
    BY <1>1, <1>2, <1>3
  <2>2. e = [d EXCEPT !.genMemId = k, !.mem = S]
    BY <1>4
  <2> HIDE DEF k, S, e
  <2>3. e \in GuildDb /\ e.id = d.id /\ e.name = d.name /\ e.apply = d.apply
    BY <2>1, <2>2 DEF GuildDb
  <2>4. e.mem = S /\ e.genMemId = k
    BY <2>1, <2>2 DEF GuildDb
  <2> QED BY <2>3, <2>4 DEF k, S
<1> HIDE DEF e
<1>6. Distinct(e)
  <2>1. \A m \in d.mem : m.id \in Nat /\ m.id <= d.genMemId /\ m.id # n.id
    BY <1>1, <1>3 DEF Distinct, Member
  <2>2. \A m \in e.mem : m \in d.mem \/ m = n
    BY <1>5
  <2>3. \A m \in e.mem : m.id <= e.genMemId
    BY <2>1, <2>2, <1>1, <1>3, <1>5
  <2>4. \A m, k \in e.mem : m.id = k.id => m = k
    BY <2>1, <2>2 DEF Distinct
  <2> QED BY <2>3, <2>4 DEF Distinct
<1>7. pos = "normal" /\ Led(d) => Led(e)
  BY <1>3, <1>5 DEF Led
<1>8. n \in e.mem /\ n.acct = a /\ n.pos = pos /\ e.mem = d.mem \cup {n}
  BY <1>3, <1>5
<1> QED BY <1>5, <1>6, <1>7, <1>8 DEF e

(* The applications say nothing about the members.                         *)
LEMMA ApplyFits ==
  ASSUME NEW d \in GuildDb, Distinct(d), NEW S \in SUBSET Players
  PROVE  LET e == [d EXCEPT !.apply = S]
         IN  /\ e \in GuildDb /\ Distinct(e) /\ e.genMemId = d.genMemId
             /\ e.id = d.id /\ e.name = d.name /\ e.mem = d.mem /\ (Led(d) => Led(e))
BY DEF GuildDb, Distinct, Led

(* Nor does a member that goes, unless it is the leader.                   *)
LEMMA WithoutFits ==
  ASSUME NEW d \in GuildDb, Distinct(d), NEW m \in d.mem
  PROVE  LET e == [d EXCEPT !.mem = d.mem \ {m}]
         IN  /\ e \in GuildDb /\ Distinct(e)
             /\ e.id = d.id /\ e.name = d.name /\ e.mem = d.mem \ {m}
             /\ m.pos # "leader" /\ Led(d) => Led(e)
<1> DEFINE e == [d EXCEPT !.mem = d.mem \ {m}]
<1>1. /\ e \in GuildDb /\ e.id = d.id /\ e.name = d.name /\ e.mem = d.mem \ {m}
      /\ e.genMemId = d.genMemId
  BY DEF GuildDb
<1> HIDE DEF e
<1>2. Distinct(e)
  BY <1>1 DEF Distinct
<1>3. m.pos # "leader" /\ Led(d) => Led(e)
  BY <1>1 DEF Led
<1> QED BY <1>1, <1>2, <1>3 DEF e

Reranked(d, changed) ==
  [d EXCEPT !.mem = {m \in d.mem : \A c \in changed : c.id # m.id} \cup changed]

(* A change of ranks keeps the members, by id and account.                 *)
LEMMA RerankedFits ==
  ASSUME NEW d \in GuildDb, Distinct(d), NEW changed \in SUBSET Member,
         \A c \in changed : \E m \in d.mem : m.id = c.id /\ m.acct = c.acct,
         \A c, k \in changed : c.id = k.id => c = k
  PROVE  LET e == Reranked(d, changed)
         IN  /\ e \in GuildDb /\ Distinct(e) /\ e.id = d.id /\ e.name = d.name
             /\ e.mem = {m \in d.mem : \A c \in changed : c.id # m.id} \cup changed
             /\ {m.acct : m \in e.mem} = {m.acct : m \in d.mem}
<1> DEFINE e == Reranked(d, changed)
           rest == {m \in d.mem : \A c \in changed : c.id # m.id}
<1>0. d.mem \in SUBSET Member
  BY DEF GuildDb
<1>1. /\ e \in GuildDb /\ e.id = d.id /\ e.name = d.name /\ e.mem = rest \cup changed
      /\ e.genMemId = d.genMemId
  BY <1>0 DEF GuildDb, Reranked
<1> HIDE DEF e
<1>2. Distinct(e)
  <2>1. \A m \in rest : m \in d.mem /\ \A c \in changed : c.id # m.id
    OBVIOUS
  <2>2. \A m \in e.mem : m.id <= e.genMemId
    BY <1>1, <2>1 DEF Distinct
  <2>3. \A m, k \in e.mem : m.id = k.id => m = k
    BY <1>1, <2>1 DEF Distinct
  <2> QED BY <2>2, <2>3 DEF Distinct
<1>3. \A m \in e.mem : \E k \in d.mem : k.acct = m.acct
  BY <1>1
<1>4. \A m \in d.mem : \E k \in e.mem : k.acct = m.acct
  <2> SUFFICES ASSUME NEW m \in d.mem PROVE \E k \in e.mem : k.acct = m.acct
    OBVIOUS
  <2>1. CASE m \in rest
    BY <2>1, <1>1
  <2>2. CASE m \notin rest
    <3>1. PICK c \in changed : c.id = m.id
      BY <2>2
    <3>2. PICK k \in d.mem : k.id = c.id /\ k.acct = c.acct
      OBVIOUS
    <3>3. k = m
      BY <3>1, <3>2 DEF Distinct
    <3> QED BY <1>1, <3>1, <3>2, <3>3
  <2> QED BY <2>1, <2>2
<1> QED BY <1>1, <1>2, <1>3, <1>4 DEF e
-----------------------------------------------------------------------------
(* A step that edits guilds and leaves the lists and documents alone.      *)

LEMMA Ranges ==
  ASSUME GuildTypeOK
  PROVE  /\ nGuilds \in Nat /\ curMaxId \in Nat /\ MaxGuilds \in Nat /\ nGuilds <= MaxGuilds
         /\ 1 .. nGuilds \subseteq Guilds
         /\ \A g \in Guilds : g \in Nat /\ g # 0 /\ (g > nGuilds \/ g \in 1 .. nGuilds)
         /\ \A a \in Players : gid[a] \in Int /\ (gid[a] > 0 => gid[a] \in GuildIds)
<1>1. nGuilds \in 0 .. MaxGuilds /\ curMaxId \in 0 .. MaxGuilds /\ MaxGuilds \in Nat
  BY GuildAssumption DEF GuildTypeOK
<1>2. \A a \in Players : gid[a] \in GuildIds \/ gid[a] = 0 \/ gid[a] = -1
  BY DEF GuildTypeOK, NoGuild, Absent
<1>3. \A a \in Players : gid[a] \in Int /\ (gid[a] > 0 => gid[a] \in GuildIds)
  BY <1>1, <1>2 DEF GuildIds
<1> QED BY <1>1, <1>3 DEF Guilds

LEMMA ListedGuild ==
  ASSUME GuildShape, NEW g \in Listed
  PROVE  /\ g \in Guilds /\ g \in 1 .. nGuilds /\ guild[g] \in GuildDb /\ Distinct(guild[g])
         /\ guild[g].id \in GuildIds /\ idList[guild[g].id] = g /\ guild[g].id <= curMaxId
         /\ Led(guild[g])
         /\ \A i \in GuildIds : idList[i] = g => i = guild[g].id
         /\ \A j \in GuildJobs : Creates(j) => gjob[j].g # g
<1> USE DEF GuildShape
<1>1. PICK i \in GuildIds : idList[i] = g /\ g # 0
  BY DEF Listed
<1>2. g \in Guilds
  BY <1>1 DEF GuildTypeOK
<1>3. g \in 1 .. nGuilds
  BY <1>1, <1>2, Ranges DEF Indexed
<1>4. guild[g].id = i /\ i <= curMaxId /\ Led(guild[g])
  BY <1>1 DEF Indexed
<1>5. \A k \in GuildIds : idList[k] = g => k = guild[g].id
  BY <1>1 DEF Indexed
<1>6. \A j \in GuildJobs : Creates(j) => gjob[j].g # g
  BY <1>1 DEF JobsFit, Creates, Busy
<1>7. guild[g] \in GuildDb /\ Distinct(guild[g])
  BY <1>2 DEF GuildTypeOK, Formed
<1> QED BY <1>1, <1>2, <1>3, <1>4, <1>5, <1>6, <1>7

LEMMA MemberListed ==
  ASSUME GuildShape, NEW a \in Players, NEW g, IsMember(a, g)
  PROVE  /\ g \in Listed /\ gid[a] = guild[g].id
         /\ MemberByAccount(g, a) \in guild[g].mem /\ MemberByAccount(g, a).acct = a
<1>1. gid[a] \in GuildIds /\ idList[gid[a]] = g /\ g # 0 /\ a \in MembersOf(g)
  BY Ranges DEF IsMember, GuildShape
<1>2. g \in Listed
  BY <1>1 DEF Listed
<1>3. gid[a] = guild[g].id /\ guild[g] \in GuildDb
  BY <1>1, <1>2, ListedGuild
<1> QED BY <1>1, <1>2, <1>3, MemberFound

Saved(g) ==
  \/ guild[g].id \in dirtyGuilds
  \/ \E j \in GuildJobs : gjob[j].g = g /\ gjob[j].op \in {"joined", "kick", "kicked"}
  \/ InDocument(g)

LEMMA SavedParts == SavedOrDirty <=> \A g \in Listed : Saved(g)
BY DEF SavedOrDirty, Saved, InDocument

(* What a guild may become: itself when it is not made yet or being        *)
(* created; led and known to the save queue when it is listed.             *)
Edited(g) ==
  /\ guild'[g].id = guild[g].id /\ guild'[g].name = guild[g].name /\ Distinct(guild'[g])
  /\ g \in Listed => Led(guild'[g]) /\ Saved(g)'
  /\ (g > nGuilds \/ \E j \in GuildJobs : Creates(j) /\ gjob[j].g = g) =>
       guild'[g] = guild[g] /\ quitters'[g] = quitters[g]

(* What a handler may become: one of an account of a guild that was made.  *)
HandlerOf(e, g) == e.op \notin {"idle", "create"} /\ e.g = g /\ e.acct \in Players

LEMMA EditKeeps ==
  ASSUME GuildShape,
         guild' \in [Guilds -> GuildDb], quitters' \in [Guilds -> SUBSET Member],
         dirtyGuilds' \in SUBSET GuildIds,
         gid' \in [Players -> GuildIds \cup {NoGuild, Absent}],
         copyGid' \in [Players -> GuildIds \cup {NoGuild, Absent}],
         gjob' \in [GuildJobs -> GuildJob],
         UNCHANGED <<nGuilds, lists, guildDoc, charGid>>,
         \A g \in Guilds : Edited(g),
         \A j \in GuildJobs :
           \/ gjob'[j] = gjob[j]
           \/ gjob'[j].op = "idle"
           \/ \E g \in 1 .. nGuilds :
                /\ HandlerOf(gjob'[j], g) /\ guild[g].id # 0
                /\ \A k \in GuildJobs \ {j} : Creates(k) => gjob[k].g # g
  PROVE  GuildInv'
<1> USE DEF GuildShape
<1>0. /\ nGuilds' = nGuilds /\ idList' = idList /\ nameList' = nameList /\ curMaxId' = curMaxId
      /\ guildDoc' = guildDoc /\ charGid' = charGid /\ Listed' = Listed
  BY DEF lists, Listed
<1>1. GuildTypeOK'
  BY <1>0 DEF GuildTypeOK, GuildJob
<1>2. Formed'
  BY <1>0 DEF Formed, Edited
<1>3. Unmade'
  BY <1>0 DEF Unmade, Edited
<1>4. Numbered'
  BY <1>0 DEF Numbered, Edited
<1>5. Indexed'
  <2> SUFFICES ASSUME NEW i \in GuildIds, idList[i] # 0
               PROVE  /\ idList[i] <= nGuilds /\ i <= curMaxId
                      /\ guild'[idList[i]].id = i /\ Led(guild'[idList[i]])
    BY <1>0 DEF Indexed, Led
  <2>1. idList[i] \in Guilds /\ idList[i] \in Listed
    BY DEF GuildTypeOK, Listed
  <2> QED BY <2>1 DEF Indexed, Edited
<1>6. Documented'
  BY <1>0 DEF Documented, Led
<1>7. JobsFit'
  <2> SUFFICES ASSUME NEW j \in GuildJobs, Busy(j)'
               PROVE  /\ gjob'[j].g \in 1 .. nGuilds /\ gjob'[j].acct \in Players
                      /\ guild'[gjob'[j].g].id # 0
                      /\ Creates(j)' =>
                           /\ Led(guild'[gjob'[j].g]) /\ guild'[gjob'[j].g].name \in GuildNames
                           /\ \A i \in GuildIds : idList[i] # gjob'[j].g
                           /\ \A k \in GuildJobs \ {j} : Busy(k)' => gjob'[k].g # gjob'[j].g
                           /\ guildDoc[gjob'[j].g].id # 0 =>
                                guildDoc[gjob'[j].g].mem
                                  = guild'[gjob'[j].g].mem \cup quitters'[gjob'[j].g]
    BY <1>0 DEF JobsFit, Creates, Busy, Led, InDocument
  <2>0. 1 .. nGuilds \subseteq Guilds
    BY Ranges
  <2>1. CASE \E g \in 1 .. nGuilds : HandlerOf(gjob'[j], g) /\ guild[g].id # 0
    <3>1. PICK g \in 1 .. nGuilds : HandlerOf(gjob'[j], g) /\ guild[g].id # 0
      BY <2>1
    <3> QED BY <2>0, <3>1 DEF HandlerOf, Edited, Creates
  <2>2. CASE gjob'[j] = gjob[j] /\ ~Creates(j)
    <3>1. gjob[j].g \in 1 .. nGuilds /\ gjob[j].acct \in Players /\ guild[gjob[j].g].id # 0
      BY <2>2 DEF JobsFit, Busy
    <3> QED BY <2>0, <2>2, <3>1 DEF Edited, Creates
  <2>3. CASE gjob'[j] = gjob[j] /\ Creates(j)
    <3>0. PICK g : g = gjob[j].g
      OBVIOUS
    <3>1. /\ g \in 1 .. nGuilds /\ gjob[j].acct \in Players /\ guild[g].id # 0
          /\ Led(guild[g]) /\ guild[g].name \in GuildNames
          /\ \A i \in GuildIds : idList[i] # g
          /\ \A k \in GuildJobs \ {j} : Busy(k) => gjob[k].g # g
          /\ guildDoc[g].id # 0 => InDocument(g)
      BY <2>3, <3>0 DEF JobsFit, Busy, Creates
    <3>2. guild'[g] = guild[g] /\ quitters'[g] = quitters[g]
      BY <2>0, <2>3, <3>0, <3>1 DEF Edited
    <3>3. ASSUME NEW k \in GuildJobs \ {j}, Busy(k)' PROVE gjob'[k].g # g
      <4>1. CASE gjob'[k] = gjob[k]
        BY <3>1, <3>3, <4>1 DEF Busy
      <4>2. CASE gjob'[k] # gjob[k]
        <5>1. PICK h \in 1 .. nGuilds :
                /\ HandlerOf(gjob'[k], h)
                /\ \A n \in GuildJobs \ {k} : Creates(n) => gjob[n].g # h
          BY <3>3, <4>2 DEF Busy
        <5> QED BY <2>3, <3>0, <5>1 DEF HandlerOf
      <4> QED BY <4>1, <4>2
    <3>4. guildDoc[g].id # 0 => guildDoc[g].mem = guild'[g].mem \cup quitters'[g]
      BY <1>0, <3>1, <3>2 DEF InDocument
    <3>5. gjob'[j].g = g /\ gjob'[j].acct = gjob[j].acct
      BY <2>3, <3>0 DEF Creates
    <3> QED BY <3>1, <3>2, <3>3, <3>4, <3>5
  <2> QED BY <2>1, <2>2, <2>3 DEF Busy
<1>8. SavedOrDirty'
  <2>1. \A g \in Listed : Saved(g)'
    BY ListedGuild DEF Edited
  <2> QED BY <1>0, <2>1 DEF SavedOrDirty, Saved, InDocument
<1> QED BY <1>1, <1>2, <1>3, <1>4, <1>5, <1>6, <1>7, <1>8 DEF GuildInv

(* One guild is edited, and one handler of it.                             *)
LEMMA OneEditKeeps ==
  ASSUME GuildInv, NEW g \in Guilds, g \in 1 .. nGuilds, guild[g].id # 0,
         \A j \in GuildJobs : Creates(j) => gjob[j].g # g,
         NEW d \in GuildDb, Distinct(d), d.id = guild[g].id, d.name = guild[g].name,
         guild' = [guild EXCEPT ![g] = d],
         NEW q \in SUBSET Member, quitters' = [quitters EXCEPT ![g] = q],
         dirtyGuilds' \in SUBSET GuildIds, dirtyGuilds \subseteq dirtyGuilds',
         gid' \in [Players -> GuildIds \cup {NoGuild, Absent}],
         copyGid' \in [Players -> GuildIds \cup {NoGuild, Absent}],
         UNCHANGED <<nGuilds, lists, guildDoc, charGid>>,
         gjob' \in [GuildJobs -> GuildJob],
         \A j \in GuildJobs :
           \/ gjob'[j] = gjob[j]
           \/ /\ gjob[j].op = "idle" \/ gjob[j].g = g
              /\ gjob'[j].op = "idle" \/ HandlerOf(gjob'[j], g),
         g \in Listed => Led(d) /\ Saved(g)'
  PROVE  GuildInv'
<1> USE DEF GuildInv
<1>1. /\ guild \in [Guilds -> GuildDb] /\ quitters \in [Guilds -> SUBSET Member]
      /\ guildDoc' = guildDoc
  BY DEF GuildShape, GuildTypeOK
<1>2. guild' \in [Guilds -> GuildDb] /\ quitters' \in [Guilds -> SUBSET Member]
  BY <1>1
<1>3. guild'[g] = d /\ \A h \in Guilds : h # g => guild'[h] = guild[h] /\ quitters'[h] = quitters[h]
  BY <1>1
<1>4. ASSUME NEW h \in Guilds, h # g PROVE Edited(h)
  <2>1. guild'[h] = guild[h] /\ quitters'[h] = quitters[h]
    BY <1>3, <1>4
  <2>2. Distinct(guild[h]) /\ (h \in Listed => Led(guild[h]) /\ Saved(h))
    BY ListedGuild, SavedParts DEF GuildShape, Formed
  <2>3. Saved(h) => Saved(h)'
    <3>1. CASE \E j \in GuildJobs : gjob[j].g = h /\ gjob[j].op \in {"joined", "kick", "kicked"}
      <4>1. PICK j \in GuildJobs : gjob[j].g = h /\ gjob[j].op \in {"joined", "kick", "kicked"}
        BY <3>1
      <4>2. gjob'[j] = gjob[j]
        BY <1>4, <4>1
      <4> QED BY <4>1, <4>2 DEF Saved
    <3> QED BY <1>1, <2>1, <3>1 DEF Saved, InDocument
  <2> QED BY <2>1, <2>2, <2>3 DEF Edited
<1>5. Edited(g)
  <2>1. ~(g > nGuilds)
    BY Ranges DEF GuildShape
  <2> QED BY <1>3, <2>1 DEF Edited
<1>6. \A h \in Guilds : Edited(h)
  BY <1>4, <1>5
<1>7. ASSUME NEW j \in GuildJobs, gjob'[j] # gjob[j], gjob'[j].op # "idle"
      PROVE  \E h \in 1 .. nGuilds :
                /\ HandlerOf(gjob'[j], h) /\ guild[h].id # 0
                /\ \A k \in GuildJobs \ {j} : Creates(k) => gjob[k].g # h
  BY <1>7
<1> HIDE DEF GuildInv
<1>8. GuildShape
  BY DEF GuildInv
<1> QED BY <1>2, <1>6, <1>7, <1>8, EditKeeps
-----------------------------------------------------------------------------
(* Each action keeps the invariant: first those that edit one guild.       *)

LEMMA TypedVars ==
  ASSUME GuildInv
  PROVE  /\ guild \in [Guilds -> GuildDb] /\ quitters \in [Guilds -> SUBSET Member]
         /\ dirtyGuilds \in SUBSET GuildIds
         /\ gid \in [Players -> GuildIds \cup {NoGuild, Absent}]
         /\ copyGid \in [Players -> GuildIds \cup {NoGuild, Absent}]
         /\ charGid \in [Players -> GuildIds \cup {NoGuild}]
         /\ gjob \in [GuildJobs -> GuildJob]
BY DEF GuildInv, GuildShape, GuildTypeOK, GuildJob

LEMMA QuitGuildKeeps ==
  ASSUME GuildInv, NEW a \in Players, NEW g \in Guilds, QuitGuild(a, g) PROVE GuildInv'
<1> DEFINE m == MemberByAccount(g, a)
           d == [guild[g] EXCEPT !.mem = guild[g].mem \ {m}]
           q == quitters[g] \cup {m}
<1>1. /\ IsMember(a, g) /\ m.pos \in {"senior", "normal"}
      /\ guild' = [guild EXCEPT ![g] = d] /\ quitters' = [quitters EXCEPT ![g] = q]
      /\ gid' = [gid EXCEPT ![a] = NoGuild]
      /\ UNCHANGED <<nGuilds, lists, dirtyGuilds, guildDoc, copyGid, charGid, gjob>>
  BY TypedVars DEF QuitGuild, Holds
<1> HIDE DEF m
<1>2. g \in Listed /\ m \in guild[g].mem
  BY <1>1, MemberListed DEF GuildInv, m
<1>3. /\ g \in 1 .. nGuilds /\ guild[g] \in GuildDb /\ Distinct(guild[g]) /\ Led(guild[g])
      /\ guild[g].id \in GuildIds /\ guild[g].id # 0
      /\ \A j \in GuildJobs : Creates(j) => gjob[j].g # g
  BY <1>2, ListedGuild DEF GuildInv, GuildIds
<1>4. /\ d \in GuildDb /\ Distinct(d) /\ d.id = guild[g].id /\ d.name = guild[g].name
      /\ d.mem = guild[g].mem \ {m} /\ Led(d)
  BY <1>1, <1>2, <1>3, WithoutFits
<1>5. q \in SUBSET Member /\ d.mem \cup q = guild[g].mem \cup quitters[g]
  BY <1>2, <1>3, <1>4, TypedVars DEF GuildDb
<1> HIDE DEF d, q
<1>6. Saved(g)'
  <2>1. guild'[g] = d /\ quitters'[g] = q
    BY <1>1, TypedVars
  <2>2. Saved(g)
    BY <1>2, SavedParts DEF GuildInv
  <2> QED BY <1>1, <1>4, <1>5, <2>1, <2>2 DEF Saved, InDocument
<1>7. gid' \in [Players -> GuildIds \cup {NoGuild, Absent}]
  BY <1>1, TypedVars
<1> QED BY <1>1, <1>3, <1>4, <1>5, <1>6, <1>7, TypedVars, OneEditKeeps

(* The applications of a listed guild change and it is to be saved.        *)
LEMMA ApplicationsKeep ==
  ASSUME GuildInv, NEW g \in Listed, NEW S \in SUBSET Players,
         guild' = [guild EXCEPT ![g].apply = S], SetDirty(g),
         UNCHANGED <<nGuilds, lists, guildDoc, chars, gjob, quitters>>
  PROVE  GuildInv'
<1> DEFINE d == [guild[g] EXCEPT !.apply = S]
<1>1. /\ g \in Guilds /\ g \in 1 .. nGuilds /\ guild[g] \in GuildDb /\ Distinct(guild[g])
      /\ Led(guild[g]) /\ guild[g].id \in GuildIds /\ guild[g].id # 0
      /\ \A j \in GuildJobs : Creates(j) => gjob[j].g # g
  BY ListedGuild DEF GuildInv, GuildIds
<1>2. /\ d \in GuildDb /\ Distinct(d) /\ d.id = guild[g].id /\ d.name = guild[g].name /\ Led(d)
  BY <1>1, ApplyFits
<1>3. guild' = [guild EXCEPT ![g] = d] /\ quitters' = [quitters EXCEPT ![g] = quitters[g]]
  BY <1>1, TypedVars
<1> HIDE DEF d
<1>4. dirtyGuilds' = dirtyGuilds \cup {guild[g].id} /\ guild'[g] = d
  BY <1>1, <1>3, TypedVars DEF SetDirty
<1>5. Saved(g)'
  BY <1>2, <1>4 DEF Saved
<1>6. quitters[g] \in SUBSET Member /\ dirtyGuilds' \in SUBSET GuildIds
  BY <1>1, <1>4, TypedVars
<1> QED BY <1>1, <1>2, <1>3, <1>4, <1>5, <1>6, TypedVars, OneEditKeeps DEF chars

LEMMA ApplyGuildKeeps ==
  ASSUME GuildInv, NEW a \in Players, NEW g \in Guilds,
         ApplyGuild(a, g) \/ ApplyGuildCancel(a, g)
  PROVE  GuildInv'
<1>1. g \in Listed /\ guild[g].apply \in SUBSET Players
  BY TypedVars DEF ApplyGuild, ApplyGuildCancel, GuildDb
<1>2. guild[g].apply \cup {a} \in SUBSET Players /\ guild[g].apply \ {a} \in SUBSET Players
  BY <1>1
<1> QED BY <1>1, <1>2, ApplicationsKeep DEF ApplyGuild, ApplyGuildCancel

LEMMA RejectJoinKeeps ==
  ASSUME GuildInv, NEW h \in Players, NEW a \in Players, NEW g \in Guilds, RejectJoin(h, a, g)
  PROVE  GuildInv'
<1>1. g \in Listed
  BY MemberListed DEF RejectJoin, MayAccept, Holds, GuildInv
<1>2. guild[g].apply \ {a} \in SUBSET Players
  BY TypedVars DEF GuildDb
<1> QED BY <1>1, <1>2, ApplicationsKeep DEF RejectJoin

(* What acceptJoin and memberOperate know of the guild they work on.       *)
LEMMA HoldsGuild ==
  ASSUME GuildInv, NEW h \in Players, NEW g \in Guilds, NEW ranks, Holds(h, g, ranks)
  PROVE  /\ g \in Listed /\ g \in 1 .. nGuilds /\ guild[g] \in GuildDb /\ Distinct(guild[g])
         /\ Led(guild[g]) /\ guild[g].id \in GuildIds /\ guild[g].id # 0
         /\ \A j \in GuildJobs : Creates(j) => gjob[j].g # g
         /\ MemberByAccount(g, h) \in guild[g].mem /\ MemberByAccount(g, h).pos \in ranks
         /\ MemberByAccount(g, h).acct = h /\ gid[h] = guild[g].id
BY MemberListed, ListedGuild DEF GuildInv, GuildIds, Holds

(* A handler begins to wait, or waits for something else.                  *)
LEMMA JobWaits ==
  ASSUME GuildInv, NEW j \in GuildJobs, NEW op \in {"accept", "joined", "kick", "kicked"},
         NEW g \in Guilds, NEW a \in Players, NEW id \in GuildIds \cup {NoGuild},
         Waits(j, op, g, a, id)
  PROVE  /\ gjob' \in [GuildJobs -> GuildJob] /\ HandlerOf(gjob'[j], g)
         /\ gjob'[j].op = op /\ gjob'[j].g = g
         /\ \A k \in GuildJobs : k # j => gjob'[k] = gjob[k]
BY TypedVars DEF Waits, GuildJob, HandlerOf

LEMMA IdleOp == GuildIdle.op = "idle" /\ GuildIdle \in GuildJob
BY DEF GuildIdle, GuildJob, NoGuild

LEMMA AcceptJoinKeeps ==
  ASSUME GuildInv, NEW h \in Players, NEW a \in Players, NEW g \in Guilds, NEW j \in GuildJobs,
         AcceptJoin(h, a, g, j)
  PROVE  GuildInv'
<1> DEFINE without == [guild[g] EXCEPT !.apply = guild[g].apply \ {a}]
           with == WithMember(without, a, "normal")
           obj == IF gid[a] # Absent THEN gid[a] ELSE copyGid[a]
<1>1. /\ gjob[j] = GuildIdle /\ Holds(h, g, {"leader", "senior"})
      /\ guild[g].genMemId < MaxMemId
      /\ UNCHANGED <<nGuilds, lists, dirtyGuilds, guildDoc, charGid, quitters>>
  BY DEF AcceptJoin, AcceptBegins, MayAccept, SpareMember
<1>2. \/ guild' = [guild EXCEPT ![g] = without] /\ UNCHANGED <<gid, copyGid, gjob>>
      \/ /\ guild' = [guild EXCEPT ![g] = with]
         /\ \/ gid' = [gid EXCEPT ![a] = guild[g].id] /\ UNCHANGED copyGid
            \/ copyGid' = [copyGid EXCEPT ![a] = guild[g].id] /\ UNCHANGED gid
         /\ Waits(j, "joined", g, a, 0)
  BY TypedVars DEF AcceptJoin
<1>3. /\ g \in Listed /\ g \in 1 .. nGuilds /\ guild[g] \in GuildDb /\ Distinct(guild[g])
      /\ Led(guild[g]) /\ guild[g].id \in GuildIds /\ guild[g].id # 0
      /\ \A k \in GuildJobs : Creates(k) => gjob[k].g # g
  BY <1>1, HoldsGuild
<1>4. guild[g].apply \ {a} \in SUBSET Players
  BY <1>3 DEF GuildDb
<1>5. /\ without \in GuildDb /\ Distinct(without) /\ Led(without)
      /\ without.id = guild[g].id /\ without.name = guild[g].name
      /\ without.mem = guild[g].mem /\ without.genMemId = guild[g].genMemId
  BY <1>3, <1>4, ApplyFits
<1> HIDE DEF without
<1>6. /\ with \in GuildDb /\ Distinct(with) /\ Led(with)
      /\ with.id = guild[g].id /\ with.name = guild[g].name
  BY <1>1, <1>5, WithMemberFits
<1> HIDE DEF with
<1>7. quitters' = [quitters EXCEPT ![g] = quitters[g]] /\ quitters[g] \in SUBSET Member
  BY <1>1, TypedVars
<1>8. CASE guild' = [guild EXCEPT ![g] = without] /\ UNCHANGED <<gid, copyGid, gjob>>
  <2>1. guild'[g] = without
    BY <1>8, TypedVars
  <2>2. Saved(g)'
    <3>1. Saved(g)
      BY <1>3, SavedParts DEF GuildInv
    <3> QED BY <1>1, <1>5, <1>8, <2>1, <3>1 DEF Saved, InDocument
  <2> QED BY <1>1, <1>3, <1>5, <1>7, <1>8, <2>2, TypedVars, OneEditKeeps
<1>9. CASE /\ guild' = [guild EXCEPT ![g] = with]
           /\ \/ gid' = [gid EXCEPT ![a] = guild[g].id] /\ UNCHANGED copyGid
              \/ copyGid' = [copyGid EXCEPT ![a] = guild[g].id] /\ UNCHANGED gid
           /\ Waits(j, "joined", g, a, 0)
  <2>1. /\ gjob' \in [GuildJobs -> GuildJob] /\ HandlerOf(gjob'[j], g) /\ gjob'[j].op = "joined"
        /\ gjob'[j].g = g /\ \A k \in GuildJobs : k # j => gjob'[k] = gjob[k]
    BY <1>9, JobWaits DEF NoGuild
  <2>2. Saved(g)'
    BY <2>1 DEF Saved
  <2>3. /\ gid' \in [Players -> GuildIds \cup {NoGuild, Absent}]
        /\ copyGid' \in [Players -> GuildIds \cup {NoGuild, Absent}]
    BY <1>3, <1>9, TypedVars
  <2>4. gjob[j].op = "idle"
    BY <1>1, IdleOp
  <2> QED BY <1>1, <1>3, <1>6, <1>7, <1>9, <2>1, <2>2, <2>3, <2>4, TypedVars, OneEditKeeps
<1> QED BY <1>2, <1>8, <1>9

LEMMA AcceptLoadsKeeps ==
  ASSUME GuildInv, NEW h \in Players, NEW a \in Players, NEW g \in Guilds, NEW j \in GuildJobs,
         AcceptLoads(h, a, g, j)
  PROVE  GuildInv'
<1> DEFINE d == [guild[g] EXCEPT !.apply = guild[g].apply \ {a}]
<1>1. /\ gjob[j] = GuildIdle /\ Holds(h, g, {"leader", "senior"})
      /\ guild' = [guild EXCEPT ![g] = d] /\ Waits(j, "accept", g, a, charGid[a])
      /\ UNCHANGED <<nGuilds, lists, dirtyGuilds, guildDoc, chars, quitters>>
  BY TypedVars DEF AcceptLoads, AcceptBegins, MayAccept
<1>2. /\ g \in Listed /\ g \in 1 .. nGuilds /\ guild[g] \in GuildDb /\ Distinct(guild[g])
      /\ Led(guild[g]) /\ guild[g].id \in GuildIds /\ guild[g].id # 0
      /\ \A k \in GuildJobs : Creates(k) => gjob[k].g # g
  BY <1>1, HoldsGuild
<1>3. guild[g].apply \ {a} \in SUBSET Players
  BY <1>2 DEF GuildDb
<1>4. /\ d \in GuildDb /\ Distinct(d) /\ Led(d) /\ d.id = guild[g].id /\ d.name = guild[g].name
      /\ d.mem = guild[g].mem
  BY <1>2, <1>3, ApplyFits
<1> HIDE DEF d
<1>5. quitters' = [quitters EXCEPT ![g] = quitters[g]] /\ quitters[g] \in SUBSET Member
  BY <1>1, TypedVars
<1>6. charGid[a] \in GuildIds \cup {NoGuild}
  BY TypedVars
<1>7. /\ gjob' \in [GuildJobs -> GuildJob] /\ HandlerOf(gjob'[j], g)
      /\ \A k \in GuildJobs : k # j => gjob'[k] = gjob[k]
  BY <1>1, <1>6, JobWaits
<1>8. gjob[j].op = "idle"
  BY <1>1, IdleOp
<1>9. Saved(g)'
  <2>1. Saved(g)
    BY <1>2, SavedParts DEF GuildInv
  <2>2. guild'[g] = d
    BY <1>1, TypedVars
  <2>3. \A k \in GuildJobs : gjob[k].op \in {"joined", "kick", "kicked"} => gjob'[k] = gjob[k]
    BY <1>7, <1>8
  <2> QED BY <1>1, <1>4, <2>1, <2>2, <2>3 DEF Saved, InDocument
<1> QED BY <1>1, <1>2, <1>4, <1>5, <1>7, <1>8, <1>9, TypedVars, OneEditKeeps DEF chars

(* What is known of the guild of a handler that waits.                     *)
LEMMA BusyGuild ==
  ASSUME GuildInv, NEW j \in GuildJobs, Busy(j), ~Creates(j)
  PROVE  LET g == gjob[j].g
         IN  /\ g \in Guilds /\ g \in 1 .. nGuilds /\ guild[g] \in GuildDb /\ Distinct(guild[g])
             /\ guild[g].id \in GuildIds /\ guild[g].id # 0 /\ gjob[j].acct \in Players
             /\ (g \in Listed => Led(guild[g]))
             /\ \A k \in GuildJobs : Creates(k) => gjob[k].g # g
<1> DEFINE g == gjob[j].g
<1>1. g \in 1 .. nGuilds /\ gjob[j].acct \in Players /\ guild[g].id # 0
  BY DEF GuildInv, GuildShape, JobsFit
<1>2. g \in Guilds
  BY <1>1, Ranges DEF GuildInv, GuildShape
<1>3. guild[g] \in GuildDb /\ Distinct(guild[g]) /\ guild[g].id \in GuildIds
  BY <1>1, <1>2, TypedVars DEF GuildInv, GuildShape, Formed, GuildDb
<1>4. \A k \in GuildJobs : Creates(k) => gjob[k].g # g
  <2> SUFFICES ASSUME NEW k \in GuildJobs, Creates(k) PROVE gjob[k].g # g
    OBVIOUS
  <2>1. k # j /\ Busy(k)
    BY DEF Creates, Busy
  <2> QED BY <2>1 DEF GuildInv, GuildShape, JobsFit
<1>5. g \in Listed => Led(guild[g])
  BY ListedGuild DEF GuildInv
<1> QED BY <1>1, <1>2, <1>3, <1>4, <1>5

LEMMA AcceptLoadedKeeps ==
  ASSUME GuildInv, NEW j \in GuildJobs, AcceptLoaded(j) PROVE GuildInv'
<1>0. PICK g, a : g = gjob[j].g /\ a = gjob[j].acct
  OBVIOUS
<1> DEFINE with == WithMember(guild[g], a, "normal")
<1>1. /\ gjob[j].op = "accept"
      /\ UNCHANGED <<nGuilds, lists, dirtyGuilds, guildDoc, gid, charGid, quitters>>
  BY DEF AcceptLoaded
<1>2. /\ g \in Guilds /\ g \in 1 .. nGuilds /\ guild[g] \in GuildDb /\ Distinct(guild[g])
      /\ guild[g].id \in GuildIds /\ guild[g].id # 0 /\ a \in Players
      /\ (g \in Listed => Led(guild[g]))
      /\ \A k \in GuildJobs : Creates(k) => gjob[k].g # g
  BY <1>0, <1>1, BusyGuild DEF Busy, Creates
<1>3. \/ /\ copyGid' = [copyGid EXCEPT ![a] = gjob[j].gid]
         /\ gjob' = [gjob EXCEPT ![j] = GuildIdle] /\ UNCHANGED guild
      \/ /\ guild[g].genMemId < MaxMemId /\ guild' = [guild EXCEPT ![g] = with]
         /\ copyGid' = [copyGid EXCEPT ![a] = guild[g].id]
         /\ Waits(j, "joined", g, a, 0)
  BY <1>0, TypedVars DEF AcceptLoaded, SpareMember
<1>4. quitters' = [quitters EXCEPT ![g] = quitters[g]] /\ quitters[g] \in SUBSET Member
  BY <1>1, <1>2, TypedVars
<1>5. CASE /\ copyGid' = [copyGid EXCEPT ![a] = gjob[j].gid]
           /\ gjob' = [gjob EXCEPT ![j] = GuildIdle] /\ UNCHANGED guild
  <2>1. guild' = [guild EXCEPT ![g] = guild[g]]
    BY <1>2, <1>5, TypedVars
  <2>2. gjob[j].gid \in GuildIds \cup {NoGuild}
    BY TypedVars DEF GuildJob
  <2>3. copyGid' \in [Players -> GuildIds \cup {NoGuild, Absent}]
    BY <1>5, <2>2, TypedVars
  <2>4. /\ gjob' \in [GuildJobs -> GuildJob] /\ gjob'[j].op = "idle"
        /\ \A k \in GuildJobs : k # j => gjob'[k] = gjob[k]
    BY <1>5, TypedVars DEF GuildIdle, GuildJob, NoGuild
  <2>5. g \in Listed => Saved(g)'
    <3>1. g \in Listed => Saved(g)
      BY SavedParts DEF GuildInv
    <3>2. \A k \in GuildJobs : gjob[k].op \in {"joined", "kick", "kicked"} => gjob'[k] = gjob[k]
      BY <1>1, <2>4
    <3> QED BY <1>1, <1>5, <3>1, <3>2 DEF Saved, InDocument
  <2>6. /\ dirtyGuilds' \in SUBSET GuildIds /\ dirtyGuilds \subseteq dirtyGuilds'
        /\ gid' \in [Players -> GuildIds \cup {NoGuild, Absent}]
        /\ UNCHANGED <<nGuilds, lists, guildDoc, charGid>>
    BY <1>1, TypedVars
  <2>7. \A k \in GuildJobs :
          gjob'[k] = gjob[k] \/ (gjob[k].g = g /\ gjob'[k].op = "idle")
    <3>1. gjob[j].g = g
      BY <1>0
    <3> QED BY <2>4, <3>1
  <2>8. g \in Listed => Led(guild[g]) /\ Saved(g)'
    BY <1>2, <2>5
  <2> HIDE DEF with
  <2> QED BY <1>2, <1>4, <2>1, <2>3, <2>4, <2>6, <2>7, <2>8, OneEditKeeps
<1>6. CASE /\ guild[g].genMemId < MaxMemId /\ guild' = [guild EXCEPT ![g] = with]
           /\ copyGid' = [copyGid EXCEPT ![a] = guild[g].id]
           /\ Waits(j, "joined", g, a, 0)
  <2>1. /\ with \in GuildDb /\ Distinct(with) /\ (Led(guild[g]) => Led(with))
        /\ with.id = guild[g].id /\ with.name = guild[g].name
    BY <1>2, <1>6, WithMemberFits
  <2> HIDE DEF with
  <2>2. /\ gjob' \in [GuildJobs -> GuildJob] /\ HandlerOf(gjob'[j], g) /\ gjob'[j].op = "joined"
        /\ gjob'[j].g = g /\ \A k \in GuildJobs : k # j => gjob'[k] = gjob[k]
    BY <1>2, <1>6, JobWaits DEF NoGuild
  <2>3. Saved(g)'
    BY <2>2 DEF Saved
  <2>4. copyGid' \in [Players -> GuildIds \cup {NoGuild, Absent}]
    BY <1>2, <1>6, TypedVars
  <2> QED BY <1>0, <1>1, <1>2, <1>4, <1>6, <2>1, <2>2, <2>3, <2>4, TypedVars, OneEditKeeps
<1> QED BY <1>3, <1>5, <1>6

(* After the mail the new member's other applications go.                  *)
LEMMA JoinedKeeps ==
  ASSUME GuildInv, NEW j \in GuildJobs, Joined(j) PROVE GuildInv'
<1>0. PICK f, a : f = gjob[j].g /\ a = gjob[j].acct
  OBVIOUS
<1>1. /\ gjob[j].op = "joined"
      /\ guild' = [g \in Guilds |-> IF g \in Listed THEN [guild[g] EXCEPT !.apply = @ \ {a}]
                                                    ELSE guild[g]]
      /\ dirtyGuilds' = dirtyGuilds \cup {guild[f].id}
      /\ gjob' = [gjob EXCEPT ![j] = GuildIdle]
      /\ UNCHANGED <<nGuilds, lists, guildDoc, chars, quitters>>
  BY <1>0 DEF Joined, SetDirty
<1>2. guild[f].id \in GuildIds
  BY <1>0, <1>1, BusyGuild DEF Busy, Creates
<1>3. /\ gjob' \in [GuildJobs -> GuildJob] /\ gjob'[j].op = "idle"
      /\ \A k \in GuildJobs : k # j => gjob'[k] = gjob[k]
  BY <1>1, IdleOp, TypedVars
<1>4. ASSUME NEW g \in Guilds PROVE Edited(g) /\ guild'[g] \in GuildDb
  <2>1. CASE g \notin Listed
    <3>1. guild'[g] = guild[g] /\ quitters'[g] = quitters[g]
      BY <1>1, <2>1
    <3> QED BY <2>1, <3>1, TypedVars DEF Edited, GuildInv, GuildShape, Formed
  <2>2. CASE g \in Listed
    <3> DEFINE d == [guild[g] EXCEPT !.apply = guild[g].apply \ {a}]
    <3>1. /\ g \in 1 .. nGuilds /\ guild[g] \in GuildDb /\ Distinct(guild[g]) /\ Led(guild[g])
          /\ \A k \in GuildJobs : Creates(k) => gjob[k].g # g
      BY <2>2, ListedGuild DEF GuildInv
    <3>2. guild[g].apply \ {a} \in SUBSET Players
      BY <3>1 DEF GuildDb
    <3>3. /\ d \in GuildDb /\ Distinct(d) /\ Led(d) /\ d.id = guild[g].id /\ d.name = guild[g].name
          /\ d.mem = guild[g].mem
      BY <3>1, <3>2, ApplyFits
    <3>4. guild'[g] = d
      BY <1>1, <2>2
    <3> HIDE DEF d
    <3>5. Saved(g)'
      <4>1. Saved(g)
        BY <2>2, SavedParts DEF GuildInv
      <4>2. gjob[j].g = g => Saved(g)'
        BY <1>0, <1>1, <3>3, <3>4 DEF Saved
      <4>3. ASSUME gjob[j].g # g PROVE Saved(g)'
        <5>1. \A k \in GuildJobs : gjob[k].g = g => gjob'[k] = gjob[k]
          BY <1>3, <4>3
        <5> QED BY <1>1, <3>3, <3>4, <4>1, <5>1 DEF Saved, InDocument
      <4> QED BY <4>2, <4>3
    <3>6. ~(g > nGuilds)
      BY <3>1, Ranges DEF GuildInv, GuildShape
    <3> QED BY <3>1, <3>3, <3>4, <3>5, <3>6 DEF Edited
  <2> QED BY <2>1, <2>2
<1>5. guild' \in [Guilds -> GuildDb]
  BY <1>1, <1>4
<1>6. quitters' \in [Guilds -> SUBSET Member] /\ dirtyGuilds' \in SUBSET GuildIds
  BY <1>1, <1>2, TypedVars
<1>7. GuildShape /\ \A g \in Guilds : Edited(g)
  BY <1>4 DEF GuildInv
<1> QED BY <1>1, <1>3, <1>5, <1>6, <1>7, TypedVars, EditKeeps DEF chars

(* The leader changes the ranks.                                           *)
RanksMay(g, changed) ==
  /\ changed \in SUBSET Member
  /\ \A c \in changed : \E m \in guild[g].mem : m.id = c.id /\ m.acct = c.acct
  /\ \A c, k \in changed : c.id = k.id => c = k
  /\ Led(Reranked(guild[g], changed))

LEMMA SetRanksKeep ==
  ASSUME GuildInv, NEW g \in Listed, NEW changed, RanksMay(g, changed), SetRanks(g, changed)
  PROVE  GuildInv'
<1> USE DEF RanksMay
<1> DEFINE d == Reranked(guild[g], changed)
<1>1. /\ g \in Guilds /\ g \in 1 .. nGuilds /\ guild[g] \in GuildDb /\ Distinct(guild[g])
      /\ guild[g].id \in GuildIds /\ guild[g].id # 0
      /\ \A j \in GuildJobs : Creates(j) => gjob[j].g # g
  BY ListedGuild DEF GuildInv, GuildIds
<1>2. /\ d \in GuildDb /\ Distinct(d) /\ d.id = guild[g].id /\ d.name = guild[g].name
  BY <1>1, RerankedFits
<1>3. /\ guild' = [guild EXCEPT ![g] = d] /\ dirtyGuilds' = dirtyGuilds \cup {guild[g].id}
      /\ UNCHANGED <<nGuilds, lists, guildDoc, chars, gjob, quitters>>
  BY <1>1, TypedVars DEF SetRanks, SetDirty, Reranked
<1> HIDE DEF d
<1>4. Led(d)
  BY DEF d
<1>5. quitters' = [quitters EXCEPT ![g] = quitters[g]] /\ quitters[g] \in SUBSET Member
  BY <1>1, <1>3, TypedVars
<1>6. guild'[g] = d
  BY <1>1, <1>3, TypedVars
<1>7. Saved(g)'
  BY <1>2, <1>3, <1>6 DEF Saved
<1>8. dirtyGuilds' \in SUBSET GuildIds
  BY <1>1, <1>3, TypedVars
<1> QED BY <1>1, <1>2, <1>3, <1>4, <1>5, <1>7, <1>8, TypedVars, OneEditKeeps DEF chars

(* The one whose rank is changed is not the leader.                        *)
LEMMA Operated ==
  ASSUME GuildInv, NEW h \in Players, NEW g \in Guilds, NEW m, MayOperate(h, g, m)
  PROVE  LET l == MemberByAccount(g, h)
         IN  /\ g \in Listed /\ l \in guild[g].mem /\ m \in guild[g].mem /\ m # l /\ m.id # l.id
             /\ l \in Member /\ m \in Member
             /\ l.pos = "leader" /\ \A k \in guild[g].mem : k.pos = "leader" => k = l
<1> DEFINE l == MemberByAccount(g, h)
<1>1. /\ Holds(h, g, {"leader"}) /\ m \in guild[g].mem /\ m # l
  BY DEF MayOperate
<1>2. /\ g \in Listed /\ guild[g] \in GuildDb /\ Distinct(guild[g]) /\ Led(guild[g])
      /\ l \in guild[g].mem /\ l.pos = "leader"
  BY <1>1, HoldsGuild
<1>3. l \in Member /\ m \in Member
  BY <1>1, <1>2 DEF GuildDb
<1>4. m.id # l.id
  BY <1>1, <1>2 DEF Distinct
<1>5. \A k \in guild[g].mem : k.pos = "leader" => k = l
  BY <1>2 DEF Led
<1> QED BY <1>1, <1>2, <1>3, <1>4, <1>5

LEMMA AppointMay ==
  ASSUME GuildInv, NEW h \in Players, NEW g \in Guilds, NEW m, MayOperate(h, g, m),
         NEW pos \in {"senior", "normal"}
  PROVE  g \in Listed /\ RanksMay(g, {[m EXCEPT !.pos = pos]})
<1> DEFINE c == [m EXCEPT !.pos = pos]
           l == MemberByAccount(g, h)
<1>1. /\ g \in Listed /\ l \in guild[g].mem /\ m \in guild[g].mem /\ m.id # l.id /\ m \in Member
      /\ l.pos = "leader" /\ \A k \in guild[g].mem : k.pos = "leader" => k = l
  BY Operated
<1>2. c \in Member /\ c.id = m.id /\ c.acct = m.acct /\ c.pos = pos
  BY <1>1 DEF Member
<1> HIDE DEF c, l
<1>3. guild[g] \in GuildDb /\ Distinct(guild[g])
  BY <1>1, ListedGuild DEF GuildInv
<1>4. Reranked(guild[g], {c}).mem = {k \in guild[g].mem : \A e \in {c} : e.id # k.id} \cup {c}
  BY <1>1, <1>2, <1>3, RerankedFits
<1>5. Led(Reranked(guild[g], {c}))
  BY <1>1, <1>2, <1>4 DEF Led
<1>6. {c} \in SUBSET Member
  BY <1>2
<1>7. /\ \A e \in {c} : \E k \in guild[g].mem : k.id = e.id /\ k.acct = e.acct
      /\ \A e, k \in {c} : e.id = k.id => e = k
  BY <1>1, <1>2
<1> QED BY <1>1, <1>5, <1>6, <1>7 DEF RanksMay, c

LEMMA PasstoMay ==
  ASSUME GuildInv, NEW h \in Players, NEW g \in Guilds, NEW m, MayOperate(h, g, m)
  PROVE  LET b == [MemberByAccount(g, h) EXCEPT !.pos = "normal"]
             c == [m EXCEPT !.pos = "leader"]
         IN  g \in Listed /\ RanksMay(g, {b, c})
<1> DEFINE l == MemberByAccount(g, h)
           b == [l EXCEPT !.pos = "normal"]
           c == [m EXCEPT !.pos = "leader"]
<1>1. /\ g \in Listed /\ l \in guild[g].mem /\ m \in guild[g].mem /\ m.id # l.id
      /\ m \in Member /\ l \in Member
      /\ \A k \in guild[g].mem : k.pos = "leader" => k = l
  BY Operated
<1>2. /\ b \in Member /\ b.id = l.id /\ b.acct = l.acct /\ b.pos = "normal"
      /\ c \in Member /\ c.id = m.id /\ c.acct = m.acct /\ c.pos = "leader"
  <2> HIDE DEF l
  <2> QED BY <1>1 DEF Member
<1> HIDE DEF b, c, l
<1>3. guild[g] \in GuildDb /\ Distinct(guild[g])
  BY <1>1, ListedGuild DEF GuildInv
<1>4. /\ \A e \in {b, c} : \E k \in guild[g].mem : k.id = e.id /\ k.acct = e.acct
      /\ \A e, k \in {b, c} : e.id = k.id => e = k
      /\ {b, c} \in SUBSET Member
  BY <1>1, <1>2
<1>5. Reranked(guild[g], {b, c}).mem = {k \in guild[g].mem : \A e \in {b, c} : e.id # k.id} \cup {b, c}
  BY <1>3, <1>4, RerankedFits
<1>6. Led(Reranked(guild[g], {b, c}))
  BY <1>1, <1>2, <1>5 DEF Led
<1> QED BY <1>1, <1>4, <1>6 DEF RanksMay, b, c, l

(* The three operations on ranks.                                          *)
LEMMA RanksChange ==
  ASSUME GuildInv, NEW h \in Players, NEW g \in Guilds, NEW m,
         Appoint(h, g, m) \/ Passto(h, g, m) \/ Remove(h, g, m)
  PROVE  g \in Listed /\ \E changed : RanksMay(g, changed) /\ SetRanks(g, changed)
<1>1. CASE Appoint(h, g, m)
  BY <1>1, AppointMay DEF Appoint
<1>2. CASE Passto(h, g, m)
  BY <1>2, PasstoMay DEF Passto
<1>3. CASE Remove(h, g, m)
  BY <1>3, AppointMay DEF Remove
<1> QED BY <1>1, <1>2, <1>3

LEMMA KickoffKeeps ==
  ASSUME GuildInv, NEW h \in Players, NEW g \in Guilds, NEW m, NEW j \in GuildJobs,
         Kickoff(h, g, m, j)
  PROVE  GuildInv'
<1> DEFINE d == [guild[g] EXCEPT !.mem = guild[g].mem \ {m}]
           op == IF gid[m.acct] = Absent /\ copyGid[m.acct] = Absent THEN "kick" ELSE "kicked"
<1>1. /\ gjob[j] = GuildIdle /\ MayOperate(h, g, m)
      /\ guild' = [guild EXCEPT ![g] = d] /\ Waits(j, op, g, m.acct, 0)
      /\ UNCHANGED <<nGuilds, lists, dirtyGuilds, guildDoc, charGid, quitters>>
  BY TypedVars DEF Kickoff
<1>2. \/ gid' = [gid EXCEPT ![m.acct] = NoGuild] /\ UNCHANGED copyGid
      \/ UNCHANGED gid /\ copyGid' = [copyGid EXCEPT ![m.acct] = NoGuild]
      \/ UNCHANGED <<gid, copyGid>>
  BY DEF Kickoff
<1>3. op \in {"accept", "joined", "kick", "kicked"} /\ op \in {"joined", "kick", "kicked"}
  OBVIOUS
<1> HIDE DEF op
<1>4. /\ g \in Listed /\ m \in guild[g].mem /\ m \in Member /\ m.pos # "leader"
  BY <1>1, Operated
<1>5. /\ g \in 1 .. nGuilds /\ guild[g] \in GuildDb /\ Distinct(guild[g]) /\ Led(guild[g])
      /\ guild[g].id \in GuildIds /\ guild[g].id # 0 /\ m.acct \in Players
      /\ \A k \in GuildJobs : Creates(k) => gjob[k].g # g
  BY <1>4, ListedGuild DEF GuildInv, GuildIds, Member
<1>6. d \in GuildDb /\ Distinct(d) /\ d.id = guild[g].id /\ d.name = guild[g].name /\ Led(d)
  BY <1>4, <1>5, WithoutFits
<1> HIDE DEF d
<1>7. /\ gjob' \in [GuildJobs -> GuildJob] /\ HandlerOf(gjob'[j], g) /\ gjob'[j].op = op
      /\ gjob'[j].g = g /\ \A k \in GuildJobs : k # j => gjob'[k] = gjob[k]
  BY <1>1, <1>3, <1>5, JobWaits DEF NoGuild
<1>8. Saved(g)'
  BY <1>3, <1>7 DEF Saved
<1>9. quitters' = [quitters EXCEPT ![g] = quitters[g]] /\ quitters[g] \in SUBSET Member
  BY <1>1, TypedVars
<1>10. /\ gid' \in [Players -> GuildIds \cup {NoGuild, Absent}]
       /\ copyGid' \in [Players -> GuildIds \cup {NoGuild, Absent}]
  BY <1>2, TypedVars
<1>11. gjob[j].op = "idle"
  BY <1>1, IdleOp
<1> QED BY <1>1, <1>5, <1>6, <1>7, <1>8, <1>9, <1>10, <1>11, TypedVars, OneEditKeeps

LEMMA KickLoadedKeeps ==
  ASSUME GuildInv, NEW j \in GuildJobs, KickLoaded(j) PROVE GuildInv'
<1>0. PICK g, a : g = gjob[j].g /\ a = gjob[j].acct
  OBVIOUS
<1>1. /\ gjob[j].op = "kick" /\ copyGid' = [copyGid EXCEPT ![a] = NoGuild]
      /\ gjob' = [gjob EXCEPT ![j].op = "kicked"]
      /\ UNCHANGED <<guild, nGuilds, lists, dirtyGuilds, guildDoc, gid, charGid, quitters>>
  BY <1>0 DEF KickLoaded
<1>2. /\ g \in Guilds /\ g \in 1 .. nGuilds /\ guild[g] \in GuildDb /\ Distinct(guild[g])
      /\ guild[g].id # 0 /\ a \in Players /\ (g \in Listed => Led(guild[g]))
      /\ \A k \in GuildJobs : Creates(k) => gjob[k].g # g
  BY <1>0, <1>1, BusyGuild DEF Busy, Creates
<1>3. /\ guild' = [guild EXCEPT ![g] = guild[g]] /\ quitters' = [quitters EXCEPT ![g] = quitters[g]]
      /\ quitters[g] \in SUBSET Member
  BY <1>1, <1>2, TypedVars
<1>4. copyGid' \in [Players -> GuildIds \cup {NoGuild, Absent}]
  BY <1>1, <1>2, TypedVars
<1>5. /\ gjob' \in [GuildJobs -> GuildJob] /\ gjob'[j].op = "kicked" /\ gjob'[j].g = g
      /\ HandlerOf(gjob'[j], g) /\ \A k \in GuildJobs : k # j => gjob'[k] = gjob[k]
  <2>1. gjob \in [GuildJobs -> GuildJob]
    BY TypedVars
  <2>2. PICK f : f = [gjob[j] EXCEPT !.op = "kicked"]
    OBVIOUS
  <2>3. f \in GuildJob /\ f.op = "kicked" /\ f.g = g /\ f.acct = a
    BY <1>0, <2>1, <2>2 DEF GuildJob
  <2>4. gjob' = [gjob EXCEPT ![j] = f]
    BY <1>1, <2>1, <2>2
  <2>5. /\ gjob' \in [GuildJobs -> GuildJob] /\ gjob'[j] = f
        /\ \A k \in GuildJobs : k # j => gjob'[k] = gjob[k]
    BY <2>1, <2>3, <2>4
  <2>6. HandlerOf(f, g)
    BY <1>2, <2>3 DEF HandlerOf
  <2> QED BY <2>3, <2>5, <2>6
<1>6. Saved(g)'
  BY <1>5 DEF Saved
<1> QED BY <1>0, <1>1, <1>2, <1>3, <1>4, <1>5, <1>6, TypedVars, OneEditKeeps

LEMMA KickedKeeps ==
  ASSUME GuildInv, NEW j \in GuildJobs, Kicked(j) PROVE GuildInv'
<1>0. PICK g : g = gjob[j].g
  OBVIOUS
<1>1. /\ gjob[j].op = "kicked" /\ dirtyGuilds' = dirtyGuilds \cup {guild[g].id}
      /\ gjob' = [gjob EXCEPT ![j] = GuildIdle]
      /\ UNCHANGED <<guild, nGuilds, lists, guildDoc, chars, quitters>>
  BY <1>0 DEF Kicked, SetDirty
<1>2. /\ g \in Guilds /\ g \in 1 .. nGuilds /\ guild[g] \in GuildDb /\ Distinct(guild[g])
      /\ guild[g].id \in GuildIds /\ guild[g].id # 0 /\ (g \in Listed => Led(guild[g]))
      /\ \A k \in GuildJobs : Creates(k) => gjob[k].g # g
  BY <1>0, <1>1, BusyGuild DEF Busy, Creates
<1>3. /\ guild' = [guild EXCEPT ![g] = guild[g]] /\ quitters' = [quitters EXCEPT ![g] = quitters[g]]
      /\ quitters[g] \in SUBSET Member
  BY <1>1, <1>2, TypedVars
<1>4. /\ gjob' \in [GuildJobs -> GuildJob] /\ gjob'[j].op = "idle"
      /\ \A k \in GuildJobs : k # j => gjob'[k] = gjob[k]
  BY <1>1, IdleOp, TypedVars
<1>5. Saved(g)' /\ dirtyGuilds' \in SUBSET GuildIds
  BY <1>1, <1>2, TypedVars DEF Saved
<1> QED BY <1>0, <1>1, <1>2, <1>3, <1>4, <1>5, TypedVars, OneEditKeeps DEF chars
-----------------------------------------------------------------------------
(* Then those that make guilds, list them, save them and load them.        *)

LEMMA NewGuildFits ==
  /\ NewGuild \in GuildDb /\ Distinct(NewGuild)
  /\ NewGuild.id = 0 /\ NewGuild.mem = {} /\ NewGuild.genMemId = 0
<1>1. 0 \in 0 .. MaxMemId
  BY GuildAssumption
<1> QED BY <1>1 DEF NewGuild, GuildDb, Distinct

LEMMA DbIds == \A e \in GuildDb : e.id \in Nat /\ (e.id # 0 => e.id \in GuildIds)
<1>1. \A i \in GuildIds : i \in Nat
  BY GuildAssumption DEF GuildIds
<1>2. \A e \in GuildDb : e.id \in GuildIds \/ e.id = 0
  BY DEF GuildDb
<1> QED BY <1>1, <1>2

(* A guild that is made has its creator as its leader.                     *)
LEMMA Named ==
  ASSUME NEW n \in GuildNames, NEW i \in GuildIds
  PROVE  LET e == [NewGuild EXCEPT !.name = n, !.id = i]
         IN  e \in GuildDb /\ e.name = n /\ e.id = i /\ e.mem = {} /\ e.genMemId = 0
BY NewGuildFits DEF GuildDb

LEMMA Founded ==
  ASSUME NEW e \in GuildDb, e.mem = {}, e.genMemId = 0, NEW a \in Players
  PROVE  LET d == WithMember(e, a, "leader")
         IN  /\ d \in GuildDb /\ Distinct(d) /\ Led(d) /\ d.id = e.id /\ d.name = e.name
             /\ \E m \in d.mem : m.acct = a
<1>1. 0 < MaxMemId
  BY GuildAssumption
<1>2. Distinct(e)
  BY DEF Distinct
<1> DEFINE d == WithMember(e, a, "leader")
<1>3. /\ d \in GuildDb /\ Distinct(d) /\ d.id = e.id /\ d.name = e.name
      /\ \E k \in d.mem : k.acct = a /\ k.pos = "leader" /\ d.mem = {} \cup {k}
  BY <1>1, <1>2, WithMemberFits
<1> HIDE DEF d
<1>4. Led(d)
  BY <1>3 DEF Led
<1> QED BY <1>3, <1>4 DEF d

LEMMA CreateGuildKeeps ==
  ASSUME GuildInv, NEW a \in Players, NEW n \in GuildNames, NEW j \in GuildJobs, NEW ok \in BOOLEAN,
         CreateGuild(a, n, j, ok)
  PROVE  GuildInv'
<1> DEFINE g == nGuilds + 1
           id == curMaxId + 1
           d == WithMember([NewGuild EXCEPT !.name = n, !.id = id], a, "leader")
<1> USE DEF GuildInv, GuildShape
<1>1. /\ gjob[j] = GuildIdle /\ nGuilds < MaxGuilds /\ nGuilds' = g
      /\ guild' = [guild EXCEPT ![g] = d] /\ gid' = [gid EXCEPT ![a] = id]
      /\ guildDoc' = IF ok THEN [guildDoc EXCEPT ![g] = guild'[g]] ELSE guildDoc
      /\ gjob' = [gjob EXCEPT ![j] = [op |-> "create", g |-> g, acct |-> a, gid |-> 0]]
      /\ UNCHANGED <<lists, dirtyGuilds, copyGid, charGid, quitters>>
  BY DEF CreateGuild
<1>2. /\ nGuilds \in Nat /\ curMaxId \in Nat /\ MaxGuilds \in Nat /\ curMaxId <= nGuilds
      /\ g \in Guilds /\ g > nGuilds /\ g \in 1 .. nGuilds' /\ id \in GuildIds /\ id <= g /\ id # 0
  BY <1>1, Ranges DEF Numbered, Guilds, GuildIds
<1>3. d \in GuildDb /\ Distinct(d) /\ Led(d) /\ d.id = id /\ d.name = n
  <2>1. PICK e : e = [NewGuild EXCEPT !.name = n, !.id = id]
    OBVIOUS
  <2>2. d = WithMember(e, a, "leader")
    BY <2>1
  <2> HIDE DEF d
  <2>3. e \in GuildDb /\ e.name = n /\ e.id = id /\ e.mem = {} /\ e.genMemId = 0
    <3> HIDE DEF id
    <3> QED BY <1>2, <2>1, Named
  <2> HIDE DEF id
  <2>4. LET w == WithMember(e, a, "leader")
        IN  w \in GuildDb /\ Distinct(w) /\ Led(w) /\ w.id = e.id /\ w.name = e.name
    BY <2>3, Founded
  <2> QED BY <2>2, <2>3, <2>4
<1> HIDE DEF d, id, g
<1>4. guild'[g] = d /\ \A h \in Guilds : h # g => guild'[h] = guild[h]
  BY <1>1, <1>2, TypedVars
<1>5. /\ guildDoc'[g] \in {d, guildDoc[g]} /\ \A h \in Guilds : h # g => guildDoc'[h] = guildDoc[h]
      /\ guildDoc' \in [Guilds -> GuildDb]
  <2>1. guildDoc \in [Guilds -> GuildDb]
    BY DEF GuildTypeOK
  <2> QED BY <1>1, <1>2, <1>3, <1>4, <2>1
<1>6. guild[g] = NewGuild /\ guildDoc[g] = NewGuild /\ quitters[g] = {}
  BY <1>2 DEF Unmade
<1>7. /\ idList' = idList /\ nameList' = nameList /\ curMaxId' = curMaxId
      /\ quitters' = quitters /\ Listed' = Listed
  BY <1>1 DEF lists, Listed
<1>8. \A h \in Guilds : h > nGuilds' => h # g /\ h > nGuilds
  BY <1>1, <1>2, Ranges DEF g
<1>9. /\ \A x \in Int : x <= nGuilds => x <= nGuilds'
      /\ 1 .. nGuilds \subseteq 1 .. nGuilds' /\ g \notin 1 .. nGuilds
  BY <1>1, <1>2 DEF g
<1>10. GuildTypeOK'
  <2>1. guild' \in [Guilds -> GuildDb] /\ gid' \in [Players -> GuildIds \cup {NoGuild, Absent}]
    BY <1>1, <1>2, <1>3, TypedVars
  <2>2. [op |-> "create", g |-> g, acct |-> a, gid |-> 0] \in GuildJob
    BY <1>2 DEF GuildJob, NoGuild
  <2>3. gjob' \in [GuildJobs -> GuildJob]
    BY <1>1, <2>2, TypedVars
  <2>4. nGuilds' \in 0 .. MaxGuilds
    BY <1>1, <1>2 DEF g
  <2> QED BY <1>1, <1>5, <1>7, <2>1, <2>3, <2>4 DEF GuildTypeOK, GuildJob
<1>11. Formed'
  BY <1>3, <1>4, <1>5 DEF Formed
<1>12. Unmade'
  BY <1>4, <1>5, <1>7, <1>8 DEF Unmade
<1>13. Numbered'
  <2>1. \A h \in Guilds : guild'[h].id <= nGuilds' /\ guildDoc'[h].id <= nGuilds'
    <3> SUFFICES ASSUME NEW h \in Guilds PROVE guild'[h].id <= nGuilds' /\ guildDoc'[h].id <= nGuilds'
      OBVIOUS
    <3>1. /\ guild[h].id \in Int /\ guildDoc[h].id \in Int
          /\ guild[h].id <= nGuilds /\ guildDoc[h].id <= nGuilds
      <4>1. guild[h] \in GuildDb /\ guildDoc[h] \in GuildDb
        BY DEF GuildTypeOK
      <4>2. guild[h].id \in Int /\ guildDoc[h].id \in Int
        BY <4>1, DbIds
      <4> QED BY <4>2 DEF Numbered
    <3>2. d.id <= nGuilds'
      BY <1>1, <1>2, <1>3
    <3> QED BY <1>4, <1>5, <1>9, <3>1, <3>2
  <2> QED BY <1>1, <1>2, <1>7, <2>1 DEF Numbered, g
<1>14. Indexed'
  <2> SUFFICES ASSUME NEW i \in GuildIds, idList[i] # 0
               PROVE  /\ idList[i] <= nGuilds' /\ i <= curMaxId
                      /\ guild'[idList[i]].id = i /\ Led(guild'[idList[i]])
    BY <1>7 DEF Indexed, Led
  <2>1. /\ idList[i] \in Guilds /\ idList[i] <= nGuilds /\ i <= curMaxId
        /\ guild[idList[i]].id = i /\ Led(guild[idList[i]])
    BY DEF Indexed, GuildTypeOK
  <2>2. idList[i] # g /\ idList[i] \in Int
    <3>1. idList[i] \in Int
      BY <2>1, Ranges
    <3> QED BY <1>2, <2>1, <3>1
  <2> QED BY <1>4, <1>9, <2>1, <2>2
<1>15. Documented'
  BY <1>3, <1>5 DEF Documented, Led
<1>16. JobsFit'
  <2>0. gjob[j].op = "idle"
    BY <1>1, IdleOp
  <2>1. /\ gjob'[j].op = "create" /\ gjob'[j].g = g /\ gjob'[j].acct = a
        /\ \A k \in GuildJobs : k # j => gjob'[k] = gjob[k]
    BY <1>1, TypedVars
  <2>2. \A k \in GuildJobs : Busy(k) => gjob[k].g # g /\ gjob[k].g \in Guilds
    BY <1>9, Ranges DEF JobsFit
  <2>3. \A i \in GuildIds : idList[i] # g
    <3> SUFFICES ASSUME NEW i \in GuildIds, idList[i] = g PROVE FALSE
      OBVIOUS
    <3>1. g # 0 /\ g <= nGuilds
      BY <1>2, Ranges DEF Indexed
    <3> QED BY <1>2, <3>1
  <2>4. guildDoc'[g].id # 0 => guildDoc'[g].mem = guild'[g].mem \cup quitters'[g]
    <3>1. guildDoc'[g] = d \/ guildDoc'[g].id = 0
      BY <1>5, <1>6, NewGuildFits
    <3> QED BY <1>4, <1>6, <1>7, <3>1
  <2> SUFFICES ASSUME NEW k \in GuildJobs, Busy(k)'
               PROVE  /\ gjob'[k].g \in 1 .. nGuilds' /\ gjob'[k].acct \in Players
                      /\ guild'[gjob'[k].g].id # 0
                      /\ gjob'[k].op = "create" =>
                           /\ Led(guild'[gjob'[k].g]) /\ guild'[gjob'[k].g].name \in GuildNames
                           /\ \A i \in GuildIds : idList[i] # gjob'[k].g
                           /\ \A x \in GuildJobs \ {k} : gjob'[x].op # "idle" => gjob'[x].g # gjob'[k].g
                           /\ guildDoc'[gjob'[k].g].id # 0 =>
                                guildDoc'[gjob'[k].g].mem
                                  = guild'[gjob'[k].g].mem \cup quitters'[gjob'[k].g]
    BY <1>7 DEF JobsFit, Creates, Busy, Led, InDocument
  <2>5. CASE k = j
    BY <1>2, <1>3, <1>4, <2>1, <2>2, <2>3, <2>4, <2>5 DEF Busy
  <2>6. CASE k # j
    <3>0. PICK f : f = gjob[k].g
      OBVIOUS
    <3>1. /\ f \in 1 .. nGuilds /\ gjob[k].acct \in Players /\ guild[f].id # 0 /\ f # g
          /\ f \in Guilds /\ gjob'[k] = gjob[k] /\ Busy(k)
      BY <2>1, <2>2, <2>6, <3>0 DEF JobsFit, Busy
    <3>2. guild'[f] = guild[f] /\ guildDoc'[f] = guildDoc[f] /\ quitters'[f] = quitters[f]
      BY <1>4, <1>5, <1>7, <3>1
    <3>3. ASSUME gjob'[k].op = "create"
          PROVE  /\ Led(guild'[f]) /\ guild'[f].name \in GuildNames
                 /\ \A i \in GuildIds : idList[i] # f
                 /\ \A x \in GuildJobs \ {k} : gjob'[x].op # "idle" => gjob'[x].g # f
                 /\ guildDoc'[f].id # 0 => guildDoc'[f].mem = guild'[f].mem \cup quitters'[f]
      <4>1. /\ Led(guild[f]) /\ guild[f].name \in GuildNames
            /\ \A i \in GuildIds : idList[i] # f
            /\ \A x \in GuildJobs \ {k} : Busy(x) => gjob[x].g # f
            /\ guildDoc[f].id # 0 => InDocument(f)
        BY <3>0, <3>1, <3>3 DEF JobsFit, Creates
      <4>2. \A x \in GuildJobs \ {k} : gjob'[x].op # "idle" => gjob'[x].g # f
        BY <2>1, <3>1, <4>1 DEF Busy
      <4> QED BY <3>2, <4>1, <4>2 DEF InDocument
    <3>4. gjob'[k].g = f
      BY <3>0, <3>1
    <3> QED BY <1>9, <3>1, <3>2, <3>3, <3>4
  <2> QED BY <2>5, <2>6
<1>17. SavedOrDirty'
  <2> SUFFICES ASSUME NEW h \in Listed PROVE Saved(h)'
    BY <1>7 DEF SavedOrDirty, Saved, InDocument
  <2>1. h \in 1 .. nGuilds /\ h \in Guilds /\ Saved(h)
    BY ListedGuild, SavedParts
  <2>2. h # g
    BY <1>9, <2>1
  <2>3. \A k \in GuildJobs : gjob[k].op \in {"joined", "kick", "kicked"} => gjob'[k] = gjob[k]
    BY <1>1, IdleOp, TypedVars
  <2> QED BY <1>1, <1>4, <1>5, <1>7, <2>1, <2>2, <2>3 DEF Saved, InDocument
<1> QED BY <1>10, <1>11, <1>12, <1>13, <1>14, <1>15, <1>16, <1>17

LEMMA CreatedKeeps ==
  ASSUME GuildInv, NEW j \in GuildJobs, Created(j) PROVE GuildInv'
<1> USE DEF GuildInv, GuildShape
<1>0. PICK g : g = gjob[j].g
  OBVIOUS
<1> DEFINE i == guild[g].id
<1>1. /\ gjob[j].op = "create" /\ gjob' = [gjob EXCEPT ![j] = GuildIdle]
      /\ UNCHANGED <<guild, nGuilds, dirtyGuilds, guildDoc, copyGid, charGid, quitters>>
  BY DEF Created
<1>2. \/ /\ guildDoc[g].id # 0 /\ idList' = [idList EXCEPT ![i] = g]
         /\ nameList' = nameList \cup {guild[g].name} /\ curMaxId' = RaisedId(i) /\ UNCHANGED gid
      \/ gid' = Dismissed(g) /\ UNCHANGED <<idList, nameList, curMaxId>>
  BY <1>0 DEF Created, lists
<1>3. /\ g \in 1 .. nGuilds /\ i # 0 /\ Led(guild[g]) /\ guild[g].name \in GuildNames
      /\ \A k \in GuildIds : idList[k] # g
      /\ \A k \in GuildJobs \ {j} : Busy(k) => gjob[k].g # g
      /\ guildDoc[g].id # 0 => InDocument(g)
  BY <1>0, <1>1 DEF JobsFit, Creates, Busy
<1>4. /\ g \in Guilds /\ g # 0 /\ guild[g] \in GuildDb /\ i \in GuildIds /\ i <= nGuilds /\ g <= nGuilds
  <2>1. g \in Guilds /\ g # 0 /\ g <= nGuilds
    BY <1>3, Ranges
  <2> QED BY <1>3, <2>1, DbIds, TypedVars DEF Numbered
<1> HIDE DEF i
<1>5. /\ nGuilds \in 0 .. MaxGuilds /\ curMaxId \in 0 .. MaxGuilds /\ MaxGuilds \in Nat
      /\ i \in 1 .. MaxGuilds
  BY <1>4, GuildAssumption DEF GuildTypeOK, GuildIds
<1>6. /\ idList' \in [GuildIds -> Guilds \cup {0}]
      /\ \A k \in GuildIds : idList'[k] = idList[k] \/ (guildDoc[g].id # 0 /\ k = i /\ idList'[k] = g)
      /\ i <= curMaxId' \/ idList' = idList
      /\ curMaxId <= curMaxId' /\ curMaxId' <= nGuilds /\ curMaxId' \in 0 .. MaxGuilds
      /\ nameList' \in SUBSET GuildNames
  <2>1. idList \in [GuildIds -> Guilds \cup {0}] /\ nameList \in SUBSET GuildNames
    BY DEF GuildTypeOK
  <2>2. CASE /\ guildDoc[g].id # 0 /\ idList' = [idList EXCEPT ![i] = g]
             /\ nameList' = nameList \cup {guild[g].name} /\ curMaxId' = RaisedId(i)
    <3>1. curMaxId' = i \/ (curMaxId' = curMaxId /\ i <= curMaxId)
      BY <1>5, <2>2 DEF RaisedId
    <3>2. curMaxId <= curMaxId' /\ i <= curMaxId'
      BY <1>5, <2>2 DEF RaisedId
    <3>3. curMaxId' <= nGuilds /\ curMaxId' \in 0 .. MaxGuilds
      BY <1>4, <1>5, <3>1 DEF Numbered
    <3>4. \A k \in GuildIds : idList'[k] = idList[k] \/ (guildDoc[g].id # 0 /\ k = i /\ idList'[k] = g)
      BY <2>1, <2>2
    <3>5. idList' \in [GuildIds -> Guilds \cup {0}] /\ nameList' \in SUBSET GuildNames
      BY <1>3, <1>4, <2>1, <2>2
    <3> QED BY <3>2, <3>3, <3>4, <3>5
  <2>3. CASE UNCHANGED <<idList, nameList, curMaxId>>
    BY <1>5, <2>1, <2>3 DEF Numbered
  <2> QED BY <1>2, <2>2, <2>3
<1>7. gid' \in [Players -> GuildIds \cup {NoGuild, Absent}]
  BY <1>2, TypedVars DEF Dismissed
<1>8. /\ gjob' \in [GuildJobs -> GuildJob] /\ gjob'[j].op = "idle"
      /\ \A k \in GuildJobs : k # j => gjob'[k] = gjob[k]
  BY <1>1, IdleOp, TypedVars
<1>9. GuildTypeOK'
  BY <1>1, <1>6, <1>7, <1>8 DEF GuildTypeOK, GuildJob
<1>10. Formed' /\ Unmade' /\ Documented'
  BY <1>1 DEF Formed, Unmade, Documented, Distinct, Led
<1>11. Numbered'
  BY <1>1, <1>6 DEF Numbered
<1>12. Indexed'
  <2> SUFFICES ASSUME NEW k \in GuildIds, idList'[k] # 0
               PROVE  /\ idList'[k] <= nGuilds /\ k <= curMaxId'
                      /\ guild[idList'[k]].id = k /\ Led(guild[idList'[k]])
    BY <1>1 DEF Indexed, Led
  <2>1. CASE idList'[k] = idList[k]
    <3>1. idList[k] <= nGuilds /\ k <= curMaxId /\ guild[idList[k]].id = k /\ Led(guild[idList[k]])
      BY <2>1 DEF Indexed
    <3>2. k \in Int /\ curMaxId' \in Int
      BY <1>5, <1>6 DEF GuildIds
    <3> QED BY <1>5, <1>6, <2>1, <3>1, <3>2
  <2>2. CASE k = i /\ idList'[k] = g /\ idList'[k] # idList[k]
    BY <1>3, <1>4, <1>6, <2>2 DEF i
  <2> QED BY <1>6, <2>1, <2>2
<1>13. JobsFit'
  <2>0. /\ guild' = guild /\ nGuilds' = nGuilds /\ guildDoc' = guildDoc
        /\ quitters' = quitters
    BY <1>1
  <2> SUFFICES ASSUME NEW k \in GuildJobs, Busy(k)'
               PROVE  /\ gjob'[k].g \in 1 .. nGuilds /\ gjob'[k].acct \in Players
                      /\ guild[gjob'[k].g].id # 0
                      /\ gjob'[k].op = "create" =>
                           /\ Led(guild[gjob'[k].g]) /\ guild[gjob'[k].g].name \in GuildNames
                           /\ \A n \in GuildIds : idList'[n] # gjob'[k].g
                           /\ \A x \in GuildJobs \ {k} : gjob'[x].op # "idle" => gjob'[x].g # gjob'[k].g
                           /\ guildDoc[gjob'[k].g].id # 0 =>
                                guildDoc[gjob'[k].g].mem
                                  = guild[gjob'[k].g].mem \cup quitters[gjob'[k].g]
    BY <2>0 DEF JobsFit, Creates, Busy, Led, InDocument
  <2>1. k # j /\ gjob'[k] = gjob[k] /\ Busy(k)
    BY <1>8 DEF Busy
  <2>2. gjob[k].g # g
    BY <1>3, <2>1
  <2>3. \A n \in GuildIds : idList[n] # gjob[k].g => idList'[n] # gjob[k].g
    BY <1>6, <2>2
  <2>4. \A x \in GuildJobs : gjob'[x].op # "idle" => gjob'[x] = gjob[x] /\ Busy(x)
    BY <1>8 DEF Busy
  <2> QED BY <2>1, <2>3, <2>4 DEF JobsFit, Creates, InDocument
<1>14. SavedOrDirty'
  <2> SUFFICES ASSUME NEW h \in Listed' PROVE Saved(h)'
    BY DEF SavedOrDirty, Saved, InDocument
  <2>1. PICK k \in GuildIds : h = idList'[k] /\ h # 0
    BY DEF Listed
  <2>2. CASE h = idList[k]
    <3>1. Saved(h)
      BY <2>1, <2>2, SavedParts DEF Listed
    <3>2. \A x \in GuildJobs : gjob[x].op \in {"joined", "kick", "kicked"} => gjob'[x] = gjob[x]
      BY <1>1, <1>8
    <3> QED BY <1>1, <3>1, <3>2 DEF Saved, InDocument
  <2>3. CASE h = g /\ guildDoc[g].id # 0
    BY <1>1, <1>3, <2>3 DEF Saved, InDocument
  <2> QED BY <1>6, <2>1, <2>2, <2>3
<1> QED BY <1>9, <1>10, <1>11, <1>12, <1>13, <1>14

LEMMA DestroyGuildKeeps ==
  ASSUME GuildInv, NEW a \in Players, NEW g \in Guilds, DestroyGuild(a, g) PROVE GuildInv'
<1> USE DEF GuildInv, GuildShape
<1> DEFINE i == guild[g].id
           d == [NewGuild EXCEPT !.id = i]
<1>1. /\ Holds(a, g, {"leader"})
      /\ idList' = [idList EXCEPT ![i] = 0] /\ nameList' = nameList \ {guild[g].name}
      /\ gid' = Dismissed(g)
      /\ guildDoc' = [guildDoc EXCEPT ![g] = NewGuild] /\ guild' = [guild EXCEPT ![g] = d]
      /\ UNCHANGED <<nGuilds, curMaxId, dirtyGuilds, copyGid, charGid, gjob, quitters>>
  BY DEF DestroyGuild
<1>2. /\ g \in Listed /\ g \in 1 .. nGuilds /\ guild[g] \in GuildDb /\ i \in GuildIds /\ i # 0
      /\ \A j \in GuildJobs : Creates(j) => gjob[j].g # g
  BY <1>1, HoldsGuild
<1>3. /\ \A k \in GuildIds : idList[k] = g => k = i
      /\ nGuilds \in Nat /\ g <= nGuilds /\ ~(g > nGuilds)
  BY <1>2, ListedGuild, Ranges
<1> HIDE DEF i
<1>4. d \in GuildDb /\ d.id = i /\ d.mem = {} /\ Distinct(d)
  <2>1. d \in GuildDb /\ d.id = i /\ d.mem = {}
    BY <1>2, NewGuildFits DEF GuildDb
  <2> QED BY <2>1 DEF Distinct
<1> HIDE DEF d
<1>5. /\ guild'[g] = d /\ guildDoc'[g] = NewGuild
      /\ \A h \in Guilds : h # g => guild'[h] = guild[h] /\ guildDoc'[h] = guildDoc[h]
      /\ guild' \in [Guilds -> GuildDb] /\ guildDoc' \in [Guilds -> GuildDb]
  <2>1. guildDoc \in [Guilds -> GuildDb] /\ guild \in [Guilds -> GuildDb]
    BY DEF GuildTypeOK
  <2> QED BY <1>1, <1>4, <2>1, NewGuildFits
<1>6. /\ idList' \in [GuildIds -> Guilds \cup {0}]
      /\ \A k \in GuildIds : idList'[k] # 0 => idList'[k] = idList[k] /\ idList[k] # g
  <2>1. idList \in [GuildIds -> Guilds \cup {0}]
    BY DEF GuildTypeOK
  <2> QED BY <1>1, <1>2, <1>3, <2>1
<1>7. GuildTypeOK'
  <2>1. gid' \in [Players -> GuildIds \cup {NoGuild, Absent}]
    BY <1>1, TypedVars DEF Dismissed
  <2> QED BY <1>1, <1>5, <1>6, <2>1 DEF GuildTypeOK
<1>8. Formed'
  BY <1>4, <1>5, NewGuildFits DEF Formed
<1>9. Unmade'
  BY <1>1, <1>3, <1>5 DEF Unmade
<1>10. Numbered'
  <2>1. d.id = guild[g].id /\ 0 <= nGuilds
    BY <1>3, <1>4 DEF i
  <2> QED BY <1>1, <1>5, <2>1, NewGuildFits DEF Numbered
<1>11. Indexed'
  <2> SUFFICES ASSUME NEW k \in GuildIds, idList'[k] # 0
               PROVE  /\ idList'[k] <= nGuilds /\ k <= curMaxId
                      /\ guild'[idList'[k]].id = k /\ Led(guild'[idList'[k]])
    BY <1>1 DEF Indexed, Led
  <2>1. idList'[k] = idList[k] /\ idList[k] # g /\ idList[k] \in Guilds /\ idList[k] # 0
    BY <1>6
  <2> QED BY <1>5, <2>1 DEF Indexed
<1>12. Documented'
  BY <1>5, NewGuildFits DEF Documented, Led
<1>13. JobsFit'
  <2> SUFFICES ASSUME NEW k \in GuildJobs, Busy(k)
               PROVE  /\ gjob[k].g \in 1 .. nGuilds /\ gjob[k].acct \in Players
                      /\ guild'[gjob[k].g].id # 0
                      /\ Creates(k) =>
                           /\ Led(guild'[gjob[k].g]) /\ guild'[gjob[k].g].name \in GuildNames
                           /\ \A n \in GuildIds : idList'[n] # gjob[k].g
                           /\ \A x \in GuildJobs \ {k} : Busy(x) => gjob[x].g # gjob[k].g
                           /\ guildDoc'[gjob[k].g].id # 0 =>
                                guildDoc'[gjob[k].g].mem
                                  = guild'[gjob[k].g].mem \cup quitters[gjob[k].g]
    BY <1>1 DEF JobsFit, Creates, Busy, Led, InDocument
  <2>0. PICK f : f = gjob[k].g
    OBVIOUS
  <2>1. f \in 1 .. nGuilds /\ gjob[k].acct \in Players /\ guild[f].id # 0
    BY <2>0 DEF JobsFit
  <2>2. f \in Guilds /\ f # 0
    BY <2>1, Ranges
  <2>3. guild'[f].id # 0
    BY <1>2, <1>4, <1>5, <2>1, <2>2
  <2>4. ASSUME Creates(k)
        PROVE  /\ Led(guild'[f]) /\ guild'[f].name \in GuildNames
               /\ \A n \in GuildIds : idList'[n] # f
               /\ \A x \in GuildJobs \ {k} : Busy(x) => gjob[x].g # f
               /\ guildDoc'[f].id # 0 => guildDoc'[f].mem = guild'[f].mem \cup quitters[f]
    <3>1. f # g
      BY <1>2, <2>0, <2>4
    <3>2. guild'[f] = guild[f] /\ guildDoc'[f] = guildDoc[f]
      BY <1>5, <2>2, <3>1
    <3>3. \A n \in GuildIds : idList[n] # f => idList'[n] # f
      BY <1>6, <2>2
    <3> QED BY <2>0, <2>4, <3>2, <3>3 DEF JobsFit, InDocument
  <2> QED BY <2>0, <2>1, <2>3, <2>4
<1>14. SavedOrDirty'
  <2> SUFFICES ASSUME NEW h \in Listed' PROVE Saved(h)'
    BY DEF SavedOrDirty, Saved, InDocument
  <2>1. h \in Listed /\ h # g
    BY <1>6 DEF Listed
  <2>2. Saved(h) /\ h \in Guilds
    BY <2>1, SavedParts, ListedGuild
  <2> QED BY <1>1, <1>5, <2>1, <2>2 DEF Saved, InDocument
<1> QED BY <1>7, <1>8, <1>9, <1>10, <1>11, <1>12, <1>13, <1>14

LEMMA SaveGuildKeeps ==
  ASSUME GuildInv, NEW i \in GuildIds, SaveGuild(i) PROVE GuildInv'
<1> USE DEF GuildInv, GuildShape
<1> DEFINE g == idList[i]
           d == [guild[g] EXCEPT !.apply = {}]
<1>1. /\ dirtyGuilds' = dirtyGuilds \ {i}
      /\ UNCHANGED <<guild, nGuilds, lists, chars, gjob>>
      /\ IF g = 0 THEN UNCHANGED <<guildDoc, quitters>>
         ELSE guildDoc' = [guildDoc EXCEPT ![g] = d] /\ quitters' = [quitters EXCEPT ![g] = {}]
  BY DEF SaveGuild
<1>2. /\ idList' = idList /\ nameList' = nameList /\ curMaxId' = curMaxId /\ Listed' = Listed
      /\ gid' = gid /\ copyGid' = copyGid /\ charGid' = charGid
  BY <1>1 DEF lists, chars, Listed
<1>3. guildDoc \in [Guilds -> GuildDb] /\ quitters \in [Guilds -> SUBSET Member]
  BY DEF GuildTypeOK
<1>4. ASSUME g # 0
      PROVE  /\ g \in Listed /\ g \in Guilds /\ g \in 1 .. nGuilds /\ guild[g].id = i /\ Led(guild[g])
             /\ d \in GuildDb /\ Distinct(d) /\ Led(d) /\ d.id = i /\ d.mem = guild[g].mem
             /\ i <= nGuilds
  <2>1. g \in Listed
    BY <1>4 DEF Listed
  <2>2. /\ g \in Guilds /\ g \in 1 .. nGuilds /\ guild[g].id = i /\ Led(guild[g])
        /\ guild[g] \in GuildDb /\ Distinct(guild[g])
    BY <2>1, ListedGuild
  <2>3. {} \in SUBSET Players
    OBVIOUS
  <2>4. d \in GuildDb /\ Distinct(d) /\ Led(d) /\ d.id = i /\ d.mem = guild[g].mem
    BY <2>2, <2>3, ApplyFits
  <2> QED BY <2>1, <2>2, <2>4 DEF Numbered
<1>5. \A j \in GuildJobs : Creates(j) /\ g # 0 => gjob[j].g # g
  BY <1>4, ListedGuild
<1> HIDE DEF g, d
<1>6. /\ guildDoc' \in [Guilds -> GuildDb] /\ quitters' \in [Guilds -> SUBSET Member]
      /\ \A h \in Guilds : h # g => guildDoc'[h] = guildDoc[h] /\ quitters'[h] = quitters[h]
      /\ g # 0 => guildDoc'[g] = d /\ quitters'[g] = {}
      /\ g = 0 => guildDoc' = guildDoc /\ quitters' = quitters
  <2>1. CASE g = 0
    BY <1>1, <1>3, <2>1
  <2>2. CASE g # 0
    BY <1>1, <1>3, <1>4, <2>2
  <2> QED BY <2>1, <2>2
<1>7. GuildTypeOK'
  BY <1>1, <1>2, <1>6 DEF GuildTypeOK
<1>8. Formed'
  BY <1>1, <1>4, <1>6 DEF Formed, Distinct
<1>9. Unmade'
  <2>1. g # 0 => ~(g > nGuilds)
    BY <1>4, Ranges
  <2> QED BY <1>1, <1>6, <2>1 DEF Unmade
<1>10. Numbered'
  BY <1>1, <1>2, <1>4, <1>6 DEF Numbered
<1>11. Indexed'
  BY <1>1, <1>2 DEF Indexed, Led
<1>12. Documented'
  BY <1>4, <1>6 DEF Documented, Led
<1>13. JobsFit'
  <2> SUFFICES ASSUME NEW k \in GuildJobs, Creates(k), guildDoc'[gjob[k].g].id # 0
               PROVE  guildDoc'[gjob[k].g].mem = guild[gjob[k].g].mem \cup quitters'[gjob[k].g]
    BY <1>1, <1>2 DEF JobsFit, Creates, Busy, Led, InDocument
  <2>1. gjob[k].g \in 1 .. nGuilds /\ (guildDoc[gjob[k].g].id # 0 => InDocument(gjob[k].g))
    BY DEF JobsFit, Creates, Busy
  <2>2. gjob[k].g \in Guilds /\ (g # 0 => gjob[k].g # g)
    BY <1>5, <2>1, Ranges
  <2> QED BY <1>6, <2>1, <2>2 DEF InDocument
<1>14. SavedOrDirty'
  <2> SUFFICES ASSUME NEW h \in Listed PROVE Saved(h)'
    BY <1>2 DEF SavedOrDirty, Saved, InDocument
  <2>1. Saved(h) /\ h \in Guilds /\ h # 0 /\ idList[guild[h].id] = h
    BY SavedParts, ListedGuild, Ranges
  <2>2. CASE h = g
    BY <1>1, <1>4, <1>6, <2>1, <2>2 DEF Saved, InDocument
  <2>3. CASE h # g
    <3>1. guild[h].id # i
      BY <2>1, <2>3 DEF g
    <3>2. guildDoc'[h] = guildDoc[h] /\ quitters'[h] = quitters[h]
      BY <1>6, <2>1, <2>3
    <3> QED BY <1>1, <2>1, <3>1, <3>2 DEF Saved, InDocument
  <2> QED BY <2>2, <2>3
<1> QED BY <1>7, <1>8, <1>9, <1>10, <1>11, <1>12, <1>13, <1>14

(* Characters that come and go.                                            *)
LEMMA CharsKeep ==
  ASSUME GuildInv, UNCHANGED <<guild, nGuilds, lists, dirtyGuilds, guildDoc, gjob, quitters>>,
         gid' \in [Players -> GuildIds \cup {NoGuild, Absent}],
         copyGid' \in [Players -> GuildIds \cup {NoGuild, Absent}],
         charGid' \in [Players -> GuildIds \cup {NoGuild}]
  PROVE  GuildInv'
<1> USE DEF GuildInv, GuildShape
<1>1. idList' = idList /\ nameList' = nameList /\ curMaxId' = curMaxId /\ Listed' = Listed
  BY DEF lists, Listed
<1>2. GuildTypeOK'
  BY <1>1 DEF GuildTypeOK
<1>3. Formed' /\ Unmade' /\ Numbered' /\ Documented'
  BY <1>1 DEF Formed, Unmade, Numbered, Documented, Distinct, Led
<1>4. Indexed'
  BY <1>1 DEF Indexed, Led
<1>5. JobsFit'
  BY <1>1 DEF JobsFit, Creates, Busy, Led, InDocument
<1>6. SavedOrDirty'
  BY <1>1 DEF SavedOrDirty
<1> QED BY <1>2, <1>3, <1>4, <1>5, <1>6

LEMMA LoginKeeps ==
  ASSUME GuildInv, NEW a \in Players, Login(a) PROVE GuildInv'
<1>1. PICK id : /\ id = (IF copyGid[a] # Absent THEN copyGid[a] ELSE charGid[a])
                /\ charGid' = [charGid EXCEPT ![a] = id]
                /\ gid' = [gid EXCEPT ![a] = CheckedGid(a, id)]
                /\ copyGid' = [copyGid EXCEPT ![a] = Absent]
  BY DEF Login
<1>2. id \in GuildIds \cup {NoGuild}
  BY <1>1, TypedVars
<1>3. CheckedGid(a, id) \in GuildIds \cup {NoGuild}
  BY <1>2 DEF CheckedGid
<1>4. /\ gid' \in [Players -> GuildIds \cup {NoGuild, Absent}]
      /\ copyGid' \in [Players -> GuildIds \cup {NoGuild, Absent}]
      /\ charGid' \in [Players -> GuildIds \cup {NoGuild}]
  BY <1>1, <1>2, <1>3, TypedVars
<1> QED BY <1>4, CharsKeep DEF Login

LEMMA LeavesKeep ==
  ASSUME GuildInv, NEW a \in Players, Logout(a) \/ SweepCopy(a) PROVE GuildInv'
<1>1. /\ gid' \in [Players -> GuildIds \cup {NoGuild, Absent}]
      /\ copyGid' \in [Players -> GuildIds \cup {NoGuild, Absent}]
      /\ charGid' \in [Players -> GuildIds \cup {NoGuild}]
  BY TypedVars DEF Logout, SweepCopy
<1> QED BY <1>1, CharsKeep DEF Logout, SweepCopy

(* loadDB finds the greatest id of the documents.                          *)
LEMMA GreatestId ==
  ASSUME GuildInv
  PROVE  \E m \in 0 .. MaxGuilds :
           /\ \A g \in Guilds : guildDoc[g].id <= m
           /\ m = 0 \/ \E g \in Guilds : guildDoc[g].id = m
<1> DEFINE above == {m \in Nat : m <= nGuilds /\ \A g \in Guilds : guildDoc[g].id <= m}
           less == {ss \in Nat \X Nat : ss[1] < ss[2]}
<1>1. nGuilds \in Nat /\ MaxGuilds \in Nat /\ nGuilds <= MaxGuilds
  BY Ranges DEF GuildInv, GuildShape
<1>2. \A g \in Guilds : guildDoc[g].id \in Nat /\ guildDoc[g].id <= nGuilds
  <2>1. \A g \in Guilds : guildDoc[g] \in GuildDb
    BY DEF GuildInv, GuildShape, GuildTypeOK
  <2> QED BY <2>1, DbIds DEF GuildInv, GuildShape, Numbered
<1>3. nGuilds \in above /\ above \subseteq Nat
  BY <1>1, <1>2
<1>4. PICK m \in above : \A k \in above : ~(<<k, m>> \in less)
  <2>1. IsWellFoundedOn(less, Nat)
    BY NatLessThanWellFounded, Zenon DEF OpToRel
  <2> HIDE DEF above, less
  <2> QED BY <1>3, <2>1, WFMin, Zenon
<1>5. m \in Nat /\ m <= nGuilds /\ m \in 0 .. MaxGuilds /\ \A g \in Guilds : guildDoc[g].id <= m
  BY <1>1
<1>6. ASSUME m # 0, \A g \in Guilds : guildDoc[g].id # m PROVE FALSE
  <2>1. m - 1 \in Nat /\ m - 1 <= nGuilds /\ <<m - 1, m>> \in less
    BY <1>1, <1>5, <1>6
  <2>2. \A g \in Guilds : guildDoc[g].id <= m - 1
    BY <1>2, <1>5, <1>6
  <2>3. m - 1 \in above
    BY <2>1, <2>2
  <2> QED BY <1>4, <2>1, <2>3
<1> QED BY <1>5, <1>6

LEMMA GuildRestartKeeps ==
  ASSUME GuildInv, GuildRestart PROVE GuildInv'
<1> USE DEF GuildInv, GuildShape
<1>1. PICK saved \in [Guilds -> SUBSET Players] :
        guild' = [g \in Guilds |-> IF guildDoc[g].id = 0 THEN NewGuild
                                   ELSE [guildDoc[g] EXCEPT !.apply = saved[g]]]
  BY DEF GuildRestart
<1>2. /\ idList' = [i \in GuildIds |->
            IF \E g \in Guilds : guildDoc[g].id = i THEN CHOOSE g \in Guilds : guildDoc[g].id = i ELSE 0]
      /\ nameList' = {guildDoc[g].name : g \in Guilds} \ {""}
      /\ dirtyGuilds' = {} /\ gid' = [a \in Players |-> Absent] /\ copyGid' = gid'
      /\ gjob' = [j \in GuildJobs |-> GuildIdle] /\ quitters' = [g \in Guilds |-> {}]
      /\ nGuilds' = nGuilds /\ guildDoc' = guildDoc /\ charGid' = charGid
  BY DEF GuildRestart
<1>3. /\ curMaxId' \in 0 .. MaxGuilds /\ \A g \in Guilds : guildDoc[g].id <= curMaxId'
      /\ curMaxId' = 0 \/ \E g \in Guilds : guildDoc[g].id = curMaxId'
  BY GreatestId DEF GuildRestart
<1>4. \A g \in Guilds : guildDoc[g] \in GuildDb /\ Distinct(guildDoc[g]) /\ guildDoc[g].id \in Nat
  <2>1. \A g \in Guilds : guildDoc[g] \in GuildDb /\ Distinct(guildDoc[g])
    BY DEF GuildTypeOK, Formed
  <2> QED BY <2>1, DbIds
<1>5. ASSUME NEW g \in Guilds
      PROVE  /\ guild'[g] \in GuildDb /\ Distinct(guild'[g]) /\ guild'[g].id = guildDoc[g].id
             /\ guildDoc[g].id = 0 => guild'[g] = NewGuild
             /\ guildDoc[g].id # 0 => guild'[g].mem = guildDoc[g].mem /\ Led(guild'[g])
  <2>1. CASE guildDoc[g].id = 0
    <3>1. guild'[g] = NewGuild
      BY <1>1, <2>1
    <3> QED BY <2>1, <3>1, NewGuildFits
  <2>2. CASE guildDoc[g].id # 0
    <3> DEFINE d == [guildDoc[g] EXCEPT !.apply = saved[g]]
    <3>1. guild'[g] = d /\ saved[g] \in SUBSET Players
      BY <1>1, <2>2
    <3>2. Led(guildDoc[g])
      BY <2>2 DEF Documented
    <3>3. /\ d \in GuildDb /\ Distinct(d) /\ Led(d) /\ d.id = guildDoc[g].id
          /\ d.mem = guildDoc[g].mem
      BY <1>4, <3>1, <3>2, ApplyFits
    <3> QED BY <2>2, <3>1, <3>3
  <2> QED BY <2>1, <2>2
<1>6. /\ nGuilds \in Nat /\ \A g \in Guilds : guildDoc[g].id <= nGuilds
  BY Ranges DEF Numbered
<1>7. \A i \in GuildIds :
        \/ idList'[i] = 0
        \/ idList'[i] \in Guilds /\ guildDoc[idList'[i]].id = i
  BY <1>2
<1>8. \A i \in GuildIds : i # 0
  BY DEF GuildIds
<1>9. GuildTypeOK'
  <2>1. guild' \in [Guilds -> GuildDb]
    BY <1>1, <1>5
  <2>2. idList' \in [GuildIds -> Guilds \cup {0}]
    BY <1>2, <1>7
  <2>3. nameList' \in SUBSET GuildNames
    <3>1. \A g \in Guilds : guildDoc[g].name \in GuildNames \cup {""}
      BY <1>4 DEF GuildDb
    <3> QED BY <1>2, <3>1
  <2>4. gjob' \in [GuildJobs -> GuildJob]
    BY <1>2, IdleOp
  <2>5. quitters' \in [Guilds -> SUBSET Member] /\ dirtyGuilds' \in SUBSET GuildIds
    BY <1>2
  <2>6. gid' \in [Players -> GuildIds \cup {NoGuild, Absent}] /\ copyGid' = gid'
    BY <1>2
  <2> QED BY <1>2, <1>3, <2>1, <2>2, <2>3, <2>4, <2>5, <2>6 DEF GuildTypeOK, GuildJob
<1>10. Formed'
  BY <1>2, <1>4, <1>5 DEF Formed
<1>11. Unmade'
  BY <1>2, <1>5, NewGuildFits DEF Unmade
<1>12. Numbered'
  <2>1. curMaxId' <= nGuilds
    BY <1>3, <1>6
  <2> QED BY <1>2, <1>5, <1>6, <2>1 DEF Numbered
<1>13. Indexed'
  <2> SUFFICES ASSUME NEW i \in GuildIds, idList'[i] # 0
               PROVE  /\ idList'[i] <= nGuilds /\ i <= curMaxId'
                      /\ guild'[idList'[i]].id = i /\ Led(guild'[idList'[i]])
    BY <1>2 DEF Indexed, Led
  <2>1. idList'[i] \in Guilds /\ guildDoc[idList'[i]].id = i /\ i # 0
    BY <1>7, <1>8
  <2>2. i <= curMaxId' /\ guild'[idList'[i]].id = i /\ Led(guild'[idList'[i]])
    BY <1>3, <1>5, <2>1
  <2>3. idList'[i] <= nGuilds
    <3>1. idList'[i] \in Nat /\ (idList'[i] > nGuilds => guildDoc[idList'[i]] = NewGuild)
      BY <2>1, Ranges DEF Unmade
    <3> QED BY <1>6, <2>1, <3>1, NewGuildFits
  <2> QED BY <2>2, <2>3
<1>14. Documented'
  BY <1>2 DEF Documented, Led
<1>15. JobsFit'
  BY <1>2, IdleOp DEF JobsFit, Busy
<1>16. SavedOrDirty'
  <2> SUFFICES ASSUME NEW g \in Listed' PROVE Saved(g)'
    BY DEF SavedOrDirty, Saved, InDocument
  <2>1. g \in Guilds /\ guildDoc[g].id # 0
    BY <1>7, <1>8 DEF Listed
  <2> QED BY <1>2, <1>5, <2>1 DEF Saved, InDocument
<1> QED BY <1>9, <1>10, <1>11, <1>12, <1>13, <1>14, <1>15, <1>16
-----------------------------------------------------------------------------

LEMMA GuildBegins == GuildInit => GuildInv
<1> SUFFICES ASSUME GuildInit PROVE GuildInv
  OBVIOUS
<1>1. /\ \A g \in Guilds : guild[g] = NewGuild /\ guildDoc[g] = NewGuild /\ quitters[g] = {}
      /\ \A i \in GuildIds : idList[i] = 0
      /\ \A j \in GuildJobs : gjob[j] = GuildIdle
      /\ nGuilds = 0 /\ curMaxId = 0
  BY DEF GuildInit
<1>2. GuildTypeOK
  <2>1. guild \in [Guilds -> GuildDb] /\ guildDoc \in [Guilds -> GuildDb]
    BY NewGuildFits DEF GuildInit
  <2>2. gjob \in [GuildJobs -> GuildJob]
    BY IdleOp DEF GuildInit
  <2>3. nGuilds \in 0 .. MaxGuilds /\ curMaxId \in 0 .. MaxGuilds
    BY <1>1, GuildAssumption
  <2> QED BY <2>1, <2>2, <2>3 DEF GuildInit, GuildTypeOK, GuildJob
<1>3. Formed /\ Unmade /\ Documented /\ Indexed
  BY <1>1, NewGuildFits DEF Formed, Unmade, Documented, Indexed
<1>4. Numbered
  BY <1>1, NewGuildFits DEF Numbered
<1>5. JobsFit
  BY <1>1, IdleOp DEF JobsFit, Busy
<1>6. SavedOrDirty
  BY <1>1 DEF SavedOrDirty, Listed
<1> QED BY <1>2, <1>3, <1>4, <1>5, <1>6 DEF GuildInv, GuildShape

LEMMA GuildStep == ASSUME GuildInv, [GuildNext]_guildVars PROVE GuildInv'
<1>1. CASE UNCHANGED guildVars
  BY <1>1, TypedVars, CharsKeep DEF guildVars, chars
<1>2. ASSUME NEW a \in Players, NEW n \in GuildNames, NEW j \in GuildJobs, NEW ok \in BOOLEAN,
             CreateGuild(a, n, j, ok)
      PROVE  GuildInv'
  BY <1>2, CreateGuildKeeps
<1>3. ASSUME NEW h \in Players, NEW g \in Guilds, GuildHandler(h, g) PROVE GuildInv'
  <2>1. CASE DestroyGuild(h, g)
    BY <2>1, DestroyGuildKeeps
  <2>2. CASE QuitGuild(h, g)
    BY <2>2, QuitGuildKeeps
  <2>3. CASE ApplyGuild(h, g) \/ ApplyGuildCancel(h, g)
    BY <2>3, ApplyGuildKeeps
  <2>4. ASSUME NEW a \in Players, RejectJoin(h, a, g) PROVE GuildInv'
    BY <2>4, RejectJoinKeeps
  <2>5. ASSUME NEW a \in Players, NEW j \in GuildJobs,
               AcceptJoin(h, a, g, j) \/ AcceptLoads(h, a, g, j)
        PROVE  GuildInv'
    BY <2>5, AcceptJoinKeeps, AcceptLoadsKeeps
  <2>6. ASSUME NEW m \in guild[g].mem, Appoint(h, g, m) \/ Passto(h, g, m) \/ Remove(h, g, m)
        PROVE  GuildInv'
    BY <2>6, RanksChange, SetRanksKeep
  <2>7. ASSUME NEW m \in guild[g].mem, NEW j \in GuildJobs, Kickoff(h, g, m, j) PROVE GuildInv'
    BY <2>7, KickoffKeeps
  <2> QED BY <1>3, <2>1, <2>2, <2>3, <2>4, <2>5, <2>6, <2>7 DEF GuildHandler
<1>4. ASSUME NEW j \in GuildJobs,
             Created(j) \/ AcceptLoaded(j) \/ Joined(j) \/ KickLoaded(j) \/ Kicked(j)
      PROVE  GuildInv'
  BY <1>4, CreatedKeeps, AcceptLoadedKeeps, JoinedKeeps, KickLoadedKeeps, KickedKeeps
<1>5. ASSUME NEW i \in GuildIds, SaveGuild(i) PROVE GuildInv'
  BY <1>5, SaveGuildKeeps
<1>6. ASSUME NEW a \in Players, Login(a) \/ Logout(a) \/ SweepCopy(a) PROVE GuildInv'
  BY <1>6, LoginKeeps, LeavesKeep
<1>7. CASE GuildRestart
  BY <1>7, GuildRestartKeeps
<1> QED BY <1>1, <1>2, <1>3, <1>4, <1>5, <1>6, <1>7 DEF GuildNext

LEMMA GuildInvariant == GuildSpec => []GuildInv
<1>1. GuildInv /\ [GuildNext]_guildVars => GuildInv'
  BY GuildStep
<1> QED BY <1>1, GuildBegins, PTL DEF GuildSpec

(* The variables of Guild keep their types.                                *)
THEOREM GuildTypeCorrect == GuildSpec => []GuildTypeOK
<1>1. GuildInv => GuildTypeOK
  BY DEF GuildInv, GuildShape
<1> QED BY <1>1, GuildInvariant, PTL

(* Every guild in the lists has exactly one leader.                        *)
THEOREM GuildsLed == GuildSpec => []OneLeader
<1>1. GuildInv => OneLeader
  <2> SUFFICES ASSUME GuildInv, NEW g \in Listed
               PROVE  Cardinality({m \in guild[g].mem : m.pos = "leader"}) = 1
    BY DEF OneLeader
  <2>1. Led(guild[g])
    BY ListedGuild DEF GuildInv
  <2>2. PICK l : {m \in guild[g].mem : m.pos = "leader"} = {l}
    BY <2>1 DEF Led
  <2> QED BY <2>2, FS_Singleton
<1> QED BY <1>1, GuildInvariant, PTL

(* What a crash would lose of a guild is known to a queue or a handler.    *)
THEOREM GuildsSavedOrDirty == GuildSpec => []SavedOrDirty
<1>1. GuildInv => SavedOrDirty
  BY DEF GuildInv
<1> QED BY <1>1, GuildInvariant, PTL
-----------------------------------------------------------------------------
(* A release works if one guild at most is created at a time.  An online   *)
(* character may hold the id of a guild that is not listed yet: it is the  *)
(* next id, of the one guild being created, and its creator is a member.   *)

OneAtATime == \A j, k \in GuildJobs : Creates(j) /\ Creates(k) => j = k
NextId == \A j \in GuildJobs : Creates(j) => guild[gjob[j].g].id = curMaxId + 1
Ahead ==
  \A a \in Players : gid[a] > curMaxId =>
    \E j \in GuildJobs : /\ Creates(j) /\ guild[gjob[j].g].id = gid[a]
                         /\ a \in MembersOf(gjob[j].g)

ReleaseInv == OneAtATime /\ NextId /\ Ahead /\ ReleaseWorks

LEMMA Leaving ==
  ASSUME GuildInv
  PROVE  ReleaseWorks <=>
           \A a \in Players, h \in Guilds :
             gid[a] > 0 /\ idList[gid[a]] = h => a \in MembersOf(h)
<1>1. \A a \in Players : gid[a] > 0 => idList[gid[a]] \in Guilds \cup {0}
  BY Ranges DEF GuildInv, GuildShape, GuildTypeOK
<1>2. \A h \in Guilds : h # 0
  BY Ranges DEF GuildInv, GuildShape
<1> QED BY <1>1, <1>2 DEF ReleaseWorks, CanLeave

(* Only who has no guild afterwards may cease to be a member; who gets a   *)
(* guild gets a listed one and is a member of it.                          *)
Rehoused(a) ==
  \/ gid'[a] = gid[a]
  \/ gid'[a] \in {NoGuild, Absent}
  \/ gid'[a] <= curMaxId /\ \A h \in Guilds : idList[gid'[a]] = h => a \in MembersOf(h)'

LEMMA EditReleases ==
  ASSUME GuildInv, ReleaseInv, GuildInv', UNCHANGED <<idList, curMaxId>>,
         \A g \in Guilds : guild'[g].id = guild[g].id,
         \A g \in Guilds : \A a \in MembersOf(g) : gid'[a] \in {NoGuild, Absent} \/ a \in MembersOf(g)',
         \A j \in GuildJobs : Creates(j)' => Creates(j),
         \A j \in GuildJobs : Creates(j) => gjob'[j] = gjob[j],
         \A a \in Players : Rehoused(a)
  PROVE  ReleaseInv'
<1>0. /\ \A j \in GuildJobs : Creates(j) => gjob[j].g \in Guilds
      /\ curMaxId \in Nat /\ \A a \in Players : gid[a] \in Int
  BY Ranges DEF GuildInv, GuildShape, JobsFit, Creates, Busy
<1>a. \A a \in Players : gid'[a] \in Int /\ (gid'[a] > 0 => idList[gid'[a]] \in Guilds \cup {0})
  <2>1. \A a \in Players : gid'[a] \in GuildIds \/ gid'[a] = 0 \/ gid'[a] = -1
    BY DEF GuildInv, GuildShape, GuildTypeOK, NoGuild, Absent
  <2>2. \A i \in GuildIds : i \in Int /\ idList[i] \in Guilds \cup {0}
    <3>1. \A i \in GuildIds : i \in Int
      BY GuildAssumption DEF GuildIds
    <3> QED BY <3>1 DEF GuildInv, GuildShape, GuildTypeOK
  <2> QED BY <2>1, <2>2
<1>1. OneAtATime'
  BY DEF OneAtATime, ReleaseInv
<1>2. NextId'
  <2> SUFFICES ASSUME NEW j \in GuildJobs, Creates(j)' PROVE guild'[gjob'[j].g].id = curMaxId + 1
    BY DEF NextId
  <2> QED BY <1>0 DEF NextId, ReleaseInv
<1>3. Ahead'
  <2> SUFFICES ASSUME NEW a \in Players, gid'[a] > curMaxId
               PROVE  \E j \in GuildJobs : /\ Creates(j)' /\ guild'[gjob'[j].g].id = gid'[a]
                                           /\ \E m \in guild'[gjob'[j].g].mem : m.acct = a
    BY DEF Ahead, MembersOf
  <2>1. gid'[a] \in Int /\ gid'[a] \notin {NoGuild, Absent} /\ ~(gid'[a] <= curMaxId)
    BY <1>0, <1>a DEF NoGuild, Absent
  <2>2. gid'[a] = gid[a]
    BY <2>1 DEF Rehoused
  <2>3. PICK j \in GuildJobs : /\ Creates(j) /\ guild[gjob[j].g].id = gid[a]
                               /\ a \in MembersOf(gjob[j].g)
    BY <2>2 DEF Ahead, ReleaseInv
  <2>4. PICK g : g = gjob[j].g
    OBVIOUS
  <2>5. g \in Guilds /\ a \in MembersOf(g)' /\ guild'[g].id = gid'[a]
    BY <1>0, <2>1, <2>2, <2>3, <2>4
  <2>6. gjob'[j] = gjob[j] /\ Creates(j)'
    BY <2>3 DEF Creates
  <2>7. \E m \in guild'[g].mem : m.acct = a
    BY <2>5 DEF MembersOf
  <2> QED BY <2>4, <2>5, <2>6, <2>7
<1>4. ReleaseWorks'
  <2> SUFFICES ASSUME NEW a \in Players, NEW h \in Guilds, gid'[a] > 0, idList[gid'[a]] = h
               PROVE  a \in MembersOf(h)'
    BY <1>a DEF ReleaseWorks, CanLeave, MembersOf
  <2>1. gid'[a] \notin {NoGuild, Absent}
    BY DEF NoGuild, Absent
  <2>2. CASE gid'[a] = gid[a]
    <3>1. a \in MembersOf(h)
      BY <2>2, Leaving DEF ReleaseInv
    <3> QED BY <2>1, <3>1
  <2> QED BY <2>1, <2>2 DEF Rehoused
<1> QED BY <1>1, <1>2, <1>3, <1>4 DEF ReleaseInv

(* One guild is edited.                                                    *)
LEMMA MembersAfter ==
  ASSUME GuildInv, NEW g \in Guilds, NEW d, d.id = guild[g].id, guild' = [guild EXCEPT ![g] = d],
         \A m \in guild[g].mem : gid'[m.acct] \in {NoGuild, Absent} \/ \E n \in d.mem : n.acct = m.acct
  PROVE  /\ guild'[g] = d
         /\ \A h \in Guilds : guild'[h].id = guild[h].id
         /\ \A h \in Guilds : \A a \in MembersOf(h) :
              gid'[a] \in {NoGuild, Absent} \/ a \in MembersOf(h)'
<1>1. guild'[g] = d /\ \A h \in Guilds : h # g => guild'[h] = guild[h]
  BY TypedVars
<1> QED BY <1>1 DEF MembersOf

LEMMA QuitGuildReleases ==
  ASSUME GuildInv, ReleaseInv, GuildInv', NEW a \in Players, NEW g \in Guilds, QuitGuild(a, g)
  PROVE  ReleaseInv'
<1> DEFINE m == MemberByAccount(g, a)
           d == [guild[g] EXCEPT !.mem = guild[g].mem \ {m}]
<1>1. /\ IsMember(a, g) /\ guild' = [guild EXCEPT ![g] = d] /\ gid' = [gid EXCEPT ![a] = NoGuild]
      /\ UNCHANGED <<nGuilds, lists, dirtyGuilds, guildDoc, copyGid, charGid, gjob>>
  BY TypedVars DEF QuitGuild, Holds
<1> HIDE DEF m
<1>2. m.acct = a /\ guild[g] \in GuildDb
  BY <1>1, MemberListed, TypedVars DEF GuildInv, m
<1>3. d.id = guild[g].id /\ d.mem = guild[g].mem \ {m}
  BY <1>2 DEF GuildDb
<1> HIDE DEF d
<1>4. gid'[a] = NoGuild /\ \A b \in Players : b # a => gid'[b] = gid[b]
  BY <1>1, TypedVars
<1>5. \A k \in guild[g].mem : gid'[k.acct] \in {NoGuild, Absent} \/ \E n \in d.mem : n.acct = k.acct
  BY <1>2, <1>3, <1>4
<1>6. \A b \in Players : Rehoused(b)
  BY <1>4 DEF Rehoused
<1> QED BY <1>1, <1>3, <1>5, <1>6, MembersAfter, EditReleases DEF lists, Creates

(* The members, the characters and the handlers that create stay.          *)
LEMMA SameMembersRelease ==
  ASSUME GuildInv, ReleaseInv, GuildInv', UNCHANGED <<lists, gid>>,
         \A g \in Guilds : guild'[g].id = guild[g].id /\ MembersOf(g) \subseteq MembersOf(g)',
         \A j \in GuildJobs : gjob'[j] = gjob[j] \/ (~Creates(j) /\ ~Creates(j)')
  PROVE  ReleaseInv'
<1>1. \A a \in Players : Rehoused(a)
  BY DEF Rehoused
<1> QED BY <1>1, EditReleases DEF lists, Creates

LEMMA ApplicationsRelease ==
  ASSUME GuildInv, ReleaseInv, GuildInv', NEW g \in Guilds, NEW S,
         guild' = [guild EXCEPT ![g].apply = S],
         UNCHANGED <<lists, gid>>,
         \A j \in GuildJobs : gjob'[j] = gjob[j] \/ (~Creates(j) /\ ~Creates(j)')
  PROVE  ReleaseInv'
<1>1. \A h \in Guilds : guild'[h].id = guild[h].id /\ guild'[h].mem = guild[h].mem
  BY TypedVars DEF GuildDb
<1> QED BY <1>1, SameMembersRelease DEF MembersOf

LEMMA AcceptJoinReleases ==
  ASSUME GuildInv, ReleaseInv, GuildInv', NEW h \in Players, NEW a \in Players, NEW g \in Guilds,
         NEW j \in GuildJobs, AcceptJoin(h, a, g, j)
  PROVE  ReleaseInv'
<1> DEFINE without == [guild[g] EXCEPT !.apply = guild[g].apply \ {a}]
           with == WithMember(without, a, "normal")
<1>1. /\ gjob[j] = GuildIdle /\ Holds(h, g, {"leader", "senior"})
      /\ guild[g].genMemId < MaxMemId
      /\ UNCHANGED lists
  BY DEF AcceptJoin, AcceptBegins, MayAccept, SpareMember
<1>2. \/ guild' = [guild EXCEPT ![g] = without] /\ UNCHANGED <<gid, copyGid, gjob>>
      \/ /\ guild' = [guild EXCEPT ![g] = with]
         /\ UNCHANGED gid \/ gid' = [gid EXCEPT ![a] = guild[g].id]
         /\ Waits(j, "joined", g, a, 0)
  BY TypedVars DEF AcceptJoin
<1>3. /\ g \in Listed /\ guild[g] \in GuildDb /\ Distinct(guild[g]) /\ guild[g].id <= curMaxId
      /\ guild[g].id \in GuildIds /\ idList[guild[g].id] = g
  BY <1>1, HoldsGuild, ListedGuild DEF GuildInv
<1>4. guild[g].apply \ {a} \in SUBSET Players
  BY <1>3 DEF GuildDb
<1>5. /\ without \in GuildDb /\ Distinct(without) /\ without.id = guild[g].id
      /\ without.mem = guild[g].mem /\ without.genMemId = guild[g].genMemId
  BY <1>3, <1>4, ApplyFits
<1> HIDE DEF without
<1>6. /\ with.id = guild[g].id
      /\ \E n \in with.mem : n.acct = a /\ with.mem = guild[g].mem \cup {n}
  BY <1>1, <1>5, WithMemberFits
<1> HIDE DEF with
<1>7. CASE guild' = [guild EXCEPT ![g] = without] /\ UNCHANGED <<gid, copyGid, gjob>>
  <2>1. /\ \A f \in Guilds : guild'[f].id = guild[f].id
        /\ \A f \in Guilds : MembersOf(f) \subseteq MembersOf(f)'
    BY <1>5, <1>7, TypedVars DEF MembersOf
  <2> QED BY <1>1, <1>7, <2>1, SameMembersRelease DEF lists
<1>8. CASE /\ guild' = [guild EXCEPT ![g] = with]
           /\ UNCHANGED gid \/ gid' = [gid EXCEPT ![a] = guild[g].id]
           /\ Waits(j, "joined", g, a, 0)
  <2>1. \A m \in guild[g].mem : \E n \in with.mem : n.acct = m.acct
    BY <1>6
  <2>2. /\ guild'[g] = with /\ \A f \in Guilds : guild'[f].id = guild[f].id
        /\ \A f \in Guilds : \A b \in MembersOf(f) : gid'[b] \in {NoGuild, Absent} \/ b \in MembersOf(f)'
    BY <1>6, <1>8, <2>1, MembersAfter
  <2>3. gjob'[j].op = "joined" /\ \A k \in GuildJobs : k # j => gjob'[k] = gjob[k]
    BY <1>8, JobWaits DEF NoGuild
  <2>4. gjob[j].op = "idle"
    BY <1>1, IdleOp
  <2>5. /\ \A k \in GuildJobs : Creates(k)' => Creates(k)
        /\ \A k \in GuildJobs : Creates(k) => gjob'[k] = gjob[k]
    BY <2>3, <2>4 DEF Creates
  <2>6. a \in MembersOf(g)'
    BY <1>6, <2>2 DEF MembersOf
  <2>7. ASSUME NEW b \in Players PROVE Rehoused(b)
    <3>1. gid'[b] = gid[b] \/ (b = a /\ gid'[b] = guild[g].id)
      BY <1>8, TypedVars
    <3> QED BY <1>3, <2>6, <3>1 DEF Rehoused
  <2> QED BY <1>1, <2>2, <2>5, <2>7, EditReleases DEF lists
<1> QED BY <1>2, <1>7, <1>8

LEMMA AcceptLoadedReleases ==
  ASSUME GuildInv, ReleaseInv, GuildInv', NEW j \in GuildJobs, AcceptLoaded(j) PROVE ReleaseInv'
<1>0. PICK g, a : g = gjob[j].g /\ a = gjob[j].acct
  OBVIOUS
<1> DEFINE with == WithMember(guild[g], a, "normal")
<1>1. gjob[j].op = "accept" /\ UNCHANGED <<lists, gid>>
  BY DEF AcceptLoaded
<1>2. g \in Guilds /\ guild[g] \in GuildDb /\ Distinct(guild[g]) /\ a \in Players
  BY <1>0, <1>1, BusyGuild DEF Busy, Creates
<1>3. \/ gjob' = [gjob EXCEPT ![j] = GuildIdle] /\ UNCHANGED guild
      \/ /\ guild[g].genMemId < MaxMemId /\ guild' = [guild EXCEPT ![g] = with]
         /\ Waits(j, "joined", g, a, 0)
  BY <1>0, TypedVars DEF AcceptLoaded, SpareMember
<1>4. \A f \in Guilds : guild'[f].id = guild[f].id /\ MembersOf(f) \subseteq MembersOf(f)'
  <2>1. CASE UNCHANGED guild
    BY <2>1 DEF MembersOf
  <2>2. CASE guild[g].genMemId < MaxMemId /\ guild' = [guild EXCEPT ![g] = with]
    <3>1. with.id = guild[g].id /\ \E n \in with.mem : with.mem = guild[g].mem \cup {n}
      BY <1>2, <2>2, WithMemberFits
    <3> HIDE DEF with
    <3>2. guild'[g] = with /\ \A f \in Guilds : f # g => guild'[f] = guild[f]
      BY <1>2, <2>2, TypedVars
    <3> QED BY <3>1, <3>2 DEF MembersOf
  <2> QED BY <1>3, <2>1, <2>2
<1>5. /\ gjob'[j].op \in {"idle", "joined"} /\ \A k \in GuildJobs : k # j => gjob'[k] = gjob[k]
  <2>1. CASE gjob' = [gjob EXCEPT ![j] = GuildIdle]
    BY <2>1, IdleOp, TypedVars
  <2>2. CASE Waits(j, "joined", g, a, 0)
    BY <1>2, <2>2, JobWaits DEF NoGuild
  <2> QED BY <1>3, <2>1, <2>2
<1>6. \A k \in GuildJobs : gjob'[k] = gjob[k] \/ (~Creates(k) /\ ~Creates(k)')
  BY <1>1, <1>5 DEF Creates
<1> QED BY <1>1, <1>4, <1>6, SameMembersRelease

LEMMA RanksRelease ==
  ASSUME GuildInv, ReleaseInv, GuildInv', NEW g \in Listed, NEW changed,
         RanksMay(g, changed), SetRanks(g, changed)
  PROVE  ReleaseInv'
<1> DEFINE d == Reranked(guild[g], changed)
<1>1. g \in Guilds /\ guild[g] \in GuildDb /\ Distinct(guild[g])
  BY ListedGuild DEF GuildInv
<1>2. d.id = guild[g].id /\ {m.acct : m \in d.mem} = {m.acct : m \in guild[g].mem}
  BY <1>1, RerankedFits DEF RanksMay
<1>3. guild' = [guild EXCEPT ![g] = d] /\ UNCHANGED <<lists, gid, gjob>>
  BY <1>1, TypedVars DEF SetRanks, Reranked, chars
<1> HIDE DEF d
<1>4. guild'[g] = d /\ \A f \in Guilds : f # g => guild'[f] = guild[f]
  BY <1>1, <1>3, TypedVars
<1>5. \A f \in Guilds : guild'[f].id = guild[f].id /\ MembersOf(f) \subseteq MembersOf(f)'
  BY <1>2, <1>4 DEF MembersOf
<1> QED BY <1>3, <1>5, SameMembersRelease

LEMMA KickoffReleases ==
  ASSUME GuildInv, ReleaseInv, GuildInv', NEW h \in Players, NEW g \in Guilds, NEW m,
         NEW j \in GuildJobs, Kickoff(h, g, m, j)
  PROVE  ReleaseInv'
<1> DEFINE d == [guild[g] EXCEPT !.mem = guild[g].mem \ {m}]
           op == IF gid[m.acct] = Absent /\ copyGid[m.acct] = Absent THEN "kick" ELSE "kicked"
<1>1. /\ gjob[j] = GuildIdle /\ MayOperate(h, g, m)
      /\ guild' = [guild EXCEPT ![g] = d] /\ Waits(j, op, g, m.acct, 0) /\ UNCHANGED lists
  BY TypedVars DEF Kickoff
<1>2. \/ gid' = [gid EXCEPT ![m.acct] = NoGuild]
      \/ UNCHANGED gid /\ gid[m.acct] = Absent
  BY DEF Kickoff
<1>3. op \in {"accept", "joined", "kick", "kicked"} /\ op # "create"
  OBVIOUS
<1> HIDE DEF op
<1>4. m \in guild[g].mem /\ m.acct \in Players /\ guild[g] \in GuildDb
  BY <1>1, Operated, TypedVars DEF Member
<1>5. d.id = guild[g].id /\ d.mem = guild[g].mem \ {m}
  BY <1>4 DEF GuildDb
<1> HIDE DEF d
<1>6. gid'[m.acct] \in {NoGuild, Absent} /\ \A b \in Players : b # m.acct => gid'[b] = gid[b]
  BY <1>2, <1>4, TypedVars
<1>7. \A k \in guild[g].mem : gid'[k.acct] \in {NoGuild, Absent} \/ \E n \in d.mem : n.acct = k.acct
  BY <1>5, <1>6
<1>8. \A b \in Players : Rehoused(b)
  BY <1>6 DEF Rehoused
<1>9. gjob'[j].op = op /\ \A k \in GuildJobs : k # j => gjob'[k] = gjob[k]
  BY <1>1, <1>3, <1>4, JobWaits DEF NoGuild
<1>10. gjob[j].op = "idle"
  BY <1>1, IdleOp
<1>11. /\ \A k \in GuildJobs : Creates(k)' => Creates(k)
       /\ \A k \in GuildJobs : Creates(k) => gjob'[k] = gjob[k]
  BY <1>3, <1>9, <1>10 DEF Creates
<1> QED BY <1>1, <1>5, <1>7, <1>8, <1>11, MembersAfter, EditReleases DEF lists

LEMMA WaitersRelease ==
  ASSUME GuildInv, ReleaseInv, GuildInv', NEW j \in GuildJobs,
         Joined(j) \/ KickLoaded(j) \/ Kicked(j)
  PROVE  ReleaseInv'
<1>1. UNCHANGED <<lists, gid>>
  BY DEF Joined, KickLoaded, Kicked, chars
<1>2. \A f \in Guilds : guild'[f].id = guild[f].id /\ guild'[f].mem = guild[f].mem
  <2>1. CASE UNCHANGED guild
    BY <2>1
  <2>2. CASE Joined(j)
    <3> SUFFICES ASSUME NEW f \in Guilds
                 PROVE  guild'[f].id = guild[f].id /\ guild'[f].mem = guild[f].mem
      OBVIOUS
    <3>1. guild[f] \in GuildDb
      BY TypedVars
    <3>2. guild'[f] = guild[f] \/ guild'[f] = [guild[f] EXCEPT !.apply = @ \ {gjob[j].acct}]
      BY <2>2 DEF Joined
    <3> QED BY <3>1, <3>2 DEF GuildDb
  <2> QED BY <2>1, <2>2 DEF KickLoaded, Kicked
<1>3. ~Creates(j)
  BY DEF Joined, KickLoaded, Kicked, Creates
<1>4. gjob'[j].op \in {"idle", "kicked"} /\ \A k \in GuildJobs : k # j => gjob'[k] = gjob[k]
  <2>1. CASE gjob' = [gjob EXCEPT ![j] = GuildIdle]
    BY <2>1, IdleOp, TypedVars
  <2>2. CASE gjob' = [gjob EXCEPT ![j].op = "kicked"]
    BY <2>2, TypedVars DEF GuildJob
  <2> QED BY <2>1, <2>2 DEF Joined, KickLoaded, Kicked
<1>5. \A k \in GuildJobs : gjob'[k] = gjob[k] \/ (~Creates(k) /\ ~Creates(k)')
  BY <1>3, <1>4 DEF Creates
<1> QED BY <1>1, <1>2, <1>5, SameMembersRelease DEF MembersOf

LEMMA HandlerReleases ==
  ASSUME GuildInv, ReleaseInv, GuildInv', NEW h \in Players, NEW g \in Guilds, GuildHandler(h, g),
         ~DestroyGuild(h, g)
  PROVE  ReleaseInv'
<1>1. CASE QuitGuild(h, g)
  BY <1>1, QuitGuildReleases
<1>2. CASE ApplyGuild(h, g) \/ ApplyGuildCancel(h, g)
  BY <1>2, ApplicationsRelease DEF ApplyGuild, ApplyGuildCancel, chars
<1>3. ASSUME NEW a \in Players, RejectJoin(h, a, g) PROVE ReleaseInv'
  BY <1>3, ApplicationsRelease DEF RejectJoin, chars
<1>4. ASSUME NEW a \in Players, NEW j \in GuildJobs, AcceptJoin(h, a, g, j) PROVE ReleaseInv'
  BY <1>4, AcceptJoinReleases
<1>5. ASSUME NEW a \in Players, NEW j \in GuildJobs, AcceptLoads(h, a, g, j) PROVE ReleaseInv'
  <2>1. /\ gjob[j] = GuildIdle /\ guild' = [guild EXCEPT ![g].apply = @ \ {a}]
        /\ Waits(j, "accept", g, a, charGid[a]) /\ UNCHANGED <<lists, gid>>
    BY <1>5 DEF AcceptLoads, AcceptBegins, chars
  <2>2. charGid[a] \in GuildIds \cup {NoGuild}
    BY TypedVars
  <2>3. gjob'[j].op = "accept" /\ \A k \in GuildJobs : k # j => gjob'[k] = gjob[k]
    BY <2>1, <2>2, JobWaits
  <2>4. \A k \in GuildJobs : gjob'[k] = gjob[k] \/ (~Creates(k) /\ ~Creates(k)')
    BY <2>1, <2>3, IdleOp DEF Creates
  <2> QED BY <2>1, <2>4, ApplicationsRelease
<1>6. ASSUME NEW m \in guild[g].mem, Appoint(h, g, m) \/ Passto(h, g, m) \/ Remove(h, g, m)
      PROVE  ReleaseInv'
  BY <1>6, RanksChange, RanksRelease
<1>7. ASSUME NEW m \in guild[g].mem, NEW j \in GuildJobs, Kickoff(h, g, m, j) PROVE ReleaseInv'
  BY <1>7, KickoffReleases
<1> QED BY <1>1, <1>2, <1>3, <1>4, <1>5, <1>6, <1>7 DEF GuildHandler

LEMMA DestroyGuildReleases ==
  ASSUME GuildInv, ReleaseInv, GuildInv', NEW a \in Players, NEW g \in Guilds, DestroyGuild(a, g)
  PROVE  ReleaseInv'
<1>1. /\ Holds(a, g, {"leader"}) /\ idList' = [idList EXCEPT ![guild[g].id] = 0]
      /\ gid' = Dismissed(g) /\ guild' = [guild EXCEPT ![g] = [NewGuild EXCEPT !.id = guild[g].id]]
      /\ curMaxId' = curMaxId /\ gjob' = gjob
  BY DEF DestroyGuild
<1>2. /\ g \in Listed /\ guild[g].id \in GuildIds /\ idList[guild[g].id] = g
      /\ \A i \in GuildIds : idList[i] = g => i = guild[g].id
      /\ \A j \in GuildJobs : Creates(j) => gjob[j].g # g /\ gjob[j].g \in Guilds
  <2>1. \A j \in GuildJobs : Creates(j) => gjob[j].g \in Guilds
    BY Ranges DEF GuildInv, GuildShape, JobsFit, Creates, Busy
  <2> QED BY <1>1, <2>1, HoldsGuild, ListedGuild DEF GuildInv
<1>3. \A h \in Guilds : h # g => guild'[h] = guild[h]
  BY <1>1, TypedVars
<1>4. \A b \in Players : gid'[b] = gid[b] \/ gid'[b] = 0
  BY <1>1 DEF Dismissed, NoGuild
<1>5. /\ \A i \in GuildIds, h \in Guilds : idList'[i] = h => idList[i] = h /\ h # g
      /\ \A b \in Players : gid[b] \in Int /\ (gid[b] > 0 => gid[b] \in GuildIds)
      /\ curMaxId \in Nat
  <2>1. /\ idList \in [GuildIds -> Guilds \cup {0}] /\ \A h \in Guilds : h # 0
        /\ \A b \in Players : gid[b] \in Int /\ (gid[b] > 0 => gid[b] \in GuildIds)
        /\ curMaxId \in Nat
    BY Ranges DEF GuildInv, GuildShape, GuildTypeOK
  <2> QED BY <1>1, <1>2, <2>1
<1>6. OneAtATime' /\ NextId'
  BY <1>1, <1>2, <1>3 DEF OneAtATime, NextId, ReleaseInv, Creates
<1>7. Ahead'
  <2> SUFFICES ASSUME NEW b \in Players, gid'[b] > curMaxId
               PROVE  \E j \in GuildJobs : /\ Creates(j) /\ guild'[gjob[j].g].id = gid'[b]
                                           /\ \E m \in guild'[gjob[j].g].mem : m.acct = b
    BY <1>1 DEF Ahead, MembersOf, Creates
  <2>1. gid'[b] = gid[b]
    BY <1>4, <1>5
  <2>2. PICK j \in GuildJobs : /\ Creates(j) /\ guild[gjob[j].g].id = gid[b]
                               /\ b \in MembersOf(gjob[j].g)
    BY <2>1 DEF Ahead, ReleaseInv
  <2> QED BY <1>2, <1>3, <2>1, <2>2 DEF MembersOf
<1>8. ReleaseWorks'
  <2> SUFFICES ASSUME NEW b \in Players, gid'[b] > 0, idList'[gid'[b]] # 0
               PROVE  \E m \in guild'[idList'[gid'[b]]].mem : m.acct = b
    BY DEF ReleaseWorks, CanLeave, MembersOf
  <2>1. gid'[b] = gid[b] /\ gid[b] \in GuildIds
    BY <1>4, <1>5
  <2>2. PICK h : h = idList'[gid'[b]]
    OBVIOUS
  <2>3. h \in Guilds
    BY <2>1, <2>2 DEF GuildInv, GuildShape, GuildTypeOK
  <2>4. idList[gid[b]] = h /\ h # g
    BY <1>5, <2>1, <2>2, <2>3
  <2>5. b \in MembersOf(h)
    BY <2>1, <2>3, <2>4, Leaving DEF ReleaseInv
  <2> QED BY <1>3, <2>2, <2>3, <2>4, <2>5 DEF MembersOf
<1> QED BY <1>6, <1>7, <1>8 DEF ReleaseInv

LEMMA CreateGuildReleases ==
  ASSUME GuildInv, ReleaseInv, GuildInv', Creators <= 1,
         NEW a \in Players, NEW n \in GuildNames, NEW j \in GuildJobs, NEW ok \in BOOLEAN,
         CreateGuild(a, n, j, ok)
  PROVE  ReleaseInv'
<1> DEFINE g == nGuilds + 1
           id == curMaxId + 1
           d == WithMember([NewGuild EXCEPT !.name = n, !.id = id], a, "leader")
<1>1. /\ Cardinality({k \in GuildJobs : gjob[k].op = "create"}) < Creators /\ nGuilds < MaxGuilds
      /\ guild' = [guild EXCEPT ![g] = d] /\ gid' = [gid EXCEPT ![a] = id]
      /\ gjob' = [gjob EXCEPT ![j] = [op |-> "create", g |-> g, acct |-> a, gid |-> 0]]
      /\ idList' = idList /\ curMaxId' = curMaxId
  BY DEF CreateGuild, lists
<1>2. \A k \in GuildJobs : ~Creates(k)
  <2> DEFINE creating == {k \in GuildJobs : gjob[k].op = "create"}
  <2>1. IsFiniteSet(creating)
    BY GuildAssumption, FS_Subset
  <2>2. Cardinality(creating) \in Nat
    BY <2>1, FS_CardinalityType
  <2>3. Cardinality(creating) < Creators /\ Creators \in Nat
    BY <1>1, GuildAssumption
  <2> HIDE DEF creating
  <2>4. Cardinality(creating) = 0
    BY <2>2, <2>3
  <2>5. creating = {}
    BY <2>1, <2>4, FS_EmptySet
  <2> QED BY <2>5 DEF creating, Creates
<1>3. /\ g \in Guilds /\ g > nGuilds /\ nGuilds \in Nat /\ curMaxId \in Nat
      /\ id \in Nat /\ id > curMaxId /\ id \in GuildIds
      /\ \A b \in Players : gid[b] \in Int /\ (gid[b] > 0 => gid[b] \in GuildIds)
  <2>1. /\ nGuilds \in Nat /\ curMaxId \in Nat /\ MaxGuilds \in Nat /\ curMaxId <= nGuilds
        /\ \A b \in Players : gid[b] \in Int /\ (gid[b] > 0 => gid[b] \in GuildIds)
    BY Ranges DEF GuildInv, GuildShape, Numbered
  <2> QED BY <1>1, <2>1 DEF Guilds, GuildIds
<1>4. d.id = id /\ \E m \in d.mem : m.acct = a
  <2>1. PICK e : e = [NewGuild EXCEPT !.name = n, !.id = id]
    OBVIOUS
  <2>2. d = WithMember(e, a, "leader")
    BY <2>1
  <2> HIDE DEF d
  <2>3. e \in GuildDb /\ e.name = n /\ e.id = id /\ e.mem = {} /\ e.genMemId = 0
    <3> HIDE DEF id
    <3> QED BY <1>3, <2>1, Named
  <2> HIDE DEF id
  <2>4. LET w == WithMember(e, a, "leader")
        IN  w.id = e.id /\ \E m \in w.mem : m.acct = a
    BY <2>3, Founded
  <2> QED BY <2>2, <2>3, <2>4
<1> HIDE DEF d, g, id
<1>5. /\ guild'[g] = d /\ \A h \in Guilds : h # g => guild'[h] = guild[h]
      /\ gid'[a] = id /\ \A b \in Players : b # a => gid'[b] = gid[b]
      /\ gjob'[j].op = "create" /\ gjob'[j].g = g /\ \A k \in GuildJobs : k # j => gjob'[k] = gjob[k]
  BY <1>1, <1>3, TypedVars
<1>6. OneAtATime'
  BY <1>2, <1>5 DEF OneAtATime, Creates
<1>7. NextId'
  <2> SUFFICES ASSUME NEW k \in GuildJobs, gjob'[k].op = "create"
               PROVE  guild'[gjob'[k].g].id = curMaxId + 1
    BY <1>1 DEF NextId, Creates
  <2>1. k = j
    BY <1>2, <1>5 DEF Creates
  <2> QED BY <1>4, <1>5, <2>1 DEF id
<1>8. Ahead'
  <2> SUFFICES ASSUME NEW b \in Players, gid'[b] > curMaxId
               PROVE  \E k \in GuildJobs : /\ gjob'[k].op = "create" /\ guild'[gjob'[k].g].id = gid'[b]
                                           /\ \E m \in guild'[gjob'[k].g].mem : m.acct = b
    BY <1>1 DEF Ahead, MembersOf, Creates
  <2>1. b = a
    BY <1>2, <1>5 DEF Ahead, ReleaseInv
  <2> QED BY <1>4, <1>5, <2>1
<1>9. ReleaseWorks'
  <2> SUFFICES ASSUME NEW b \in Players, gid'[b] > 0, idList[gid'[b]] # 0
               PROVE  \E m \in guild'[idList[gid'[b]]].mem : m.acct = b
    BY <1>1 DEF ReleaseWorks, CanLeave, MembersOf
  <2>1. PICK h : h = idList[gid'[b]]
    OBVIOUS
  <2>2. gid'[b] \in GuildIds
    <3>1. CASE b = a
      BY <1>3, <1>5, <3>1
    <3>2. CASE b # a
      BY <1>3, <1>5, <3>2
    <3> QED BY <3>1, <3>2
  <2>3. h \in Guilds /\ h <= nGuilds /\ gid'[b] <= curMaxId
    <3>1. h \in Guilds
      BY <2>1, <2>2 DEF GuildInv, GuildShape, GuildTypeOK
    <3> QED BY <2>1, <2>2, <3>1 DEF GuildInv, GuildShape, Indexed
  <2>4. b # a /\ gid'[b] = gid[b]
    <3>1. ~(id <= curMaxId)
      BY <1>3
    <3> QED BY <1>5, <2>3, <3>1
  <2>5. h # g
    <3>1. h \in Nat /\ g \in Nat
      BY <1>3, <2>3, Ranges DEF GuildInv, GuildShape
    <3> QED BY <1>3, <2>3, <3>1
  <2>6. b \in MembersOf(h)
    BY <2>1, <2>3, <2>4, Leaving DEF ReleaseInv
  <2> QED BY <1>5, <2>1, <2>3, <2>5, <2>6 DEF MembersOf
<1> QED BY <1>6, <1>7, <1>8, <1>9 DEF ReleaseInv

LEMMA CreatedReleases ==
  ASSUME GuildInv, ReleaseInv, GuildInv', NEW j \in GuildJobs, Created(j) PROVE ReleaseInv'
<1>0. PICK g : g = gjob[j].g
  OBVIOUS
<1>1. /\ Creates(j) /\ gjob' = [gjob EXCEPT ![j] = GuildIdle] /\ guild' = guild
      /\ \/ /\ idList' = [idList EXCEPT ![guild[g].id] = g] /\ curMaxId' = RaisedId(guild[g].id)
            /\ gid' = gid
         \/ gid' = Dismissed(g) /\ idList' = idList /\ curMaxId' = curMaxId
  BY <1>0 DEF Created, Creates, lists
<1>2. g \in Guilds /\ guild[g].id = curMaxId + 1 /\ \A k \in GuildJobs : k # j => ~Creates(k)
  <2>1. g \in Guilds
    BY <1>0, <1>1, Ranges DEF GuildInv, GuildShape, JobsFit, Creates, Busy
  <2> QED BY <1>0, <1>1, <2>1 DEF ReleaseInv, NextId, OneAtATime
<1>3. \A k \in GuildJobs : ~Creates(k)'
  <2>1. gjob'[j].op = "idle" /\ \A k \in GuildJobs : k # j => gjob'[k] = gjob[k]
    BY <1>1, IdleOp, TypedVars
  <2> QED BY <1>2, <2>1 DEF Creates
<1>4. OneAtATime' /\ NextId'
  BY <1>3 DEF OneAtATime, NextId
<1>5. /\ curMaxId \in Nat /\ idList \in [GuildIds -> Guilds \cup {0}]
      /\ \A b \in Players : gid[b] \in Int /\ (gid[b] > 0 => gid[b] \in GuildIds)
  BY Ranges DEF GuildInv, GuildShape, GuildTypeOK
(* Who holds a greater id is a member of the guild.                        *)
<1>6. ASSUME NEW b \in Players, gid[b] > curMaxId
      PROVE  gid[b] = curMaxId + 1 /\ b \in MembersOf(g)
  <2>1. PICK k \in GuildJobs : /\ Creates(k) /\ guild[gjob[k].g].id = gid[b]
                               /\ b \in MembersOf(gjob[k].g)
    BY <1>6 DEF Ahead, ReleaseInv
  <2>2. k = j
    BY <1>2, <2>1
  <2> QED BY <1>0, <1>2, <2>1, <2>2
<1>7. CASE /\ idList' = [idList EXCEPT ![guild[g].id] = g] /\ curMaxId' = RaisedId(guild[g].id)
           /\ gid' = gid
  <2>1. curMaxId' = curMaxId + 1
    BY <1>2, <1>5, <1>7 DEF RaisedId
  <2>2. Ahead'
    <3> SUFFICES ASSUME NEW b \in Players, gid[b] > curMaxId + 1 PROVE FALSE
      BY <1>7, <2>1 DEF Ahead
    <3>1. gid[b] \in Int /\ gid[b] > curMaxId
      BY <1>5
    <3> QED BY <1>5, <1>6, <3>1
  <2>3. ReleaseWorks'
    <3> SUFFICES ASSUME NEW b \in Players, gid[b] > 0, idList'[gid[b]] # 0
                 PROVE  \E m \in guild[idList'[gid[b]]].mem : m.acct = b
      BY <1>1, <1>7 DEF ReleaseWorks, CanLeave, MembersOf
    <3>1. gid[b] \in GuildIds /\ gid[b] \in Int
      BY <1>5
    <3>2. CASE gid[b] = curMaxId + 1
      <4>1. gid[b] > curMaxId
        BY <1>5, <3>2
      <4>2. b \in MembersOf(g)
        BY <1>6, <4>1
      <4>3. idList'[gid[b]] = g
        BY <1>2, <1>5, <1>7, <3>1, <3>2
      <4> QED BY <4>2, <4>3 DEF MembersOf
    <3>3. CASE gid[b] # curMaxId + 1
      <4>1. idList'[gid[b]] = idList[gid[b]]
        BY <1>2, <1>5, <1>7, <3>1, <3>3
      <4>2. idList[gid[b]] \in Guilds
        BY <1>5, <3>1, <4>1
      <4>3. b \in MembersOf(idList[gid[b]])
        BY <4>2, Leaving DEF ReleaseInv
      <4> QED BY <4>1, <4>3 DEF MembersOf
    <3> QED BY <3>2, <3>3
  <2> QED BY <1>4, <2>2, <2>3 DEF ReleaseInv
<1>8. CASE gid' = Dismissed(g) /\ idList' = idList /\ curMaxId' = curMaxId
  <2>1. \A b \in Players :
          gid'[b] = 0 \/ (gid'[b] = gid[b] /\ (b \notin MembersOf(g) \/ gid[b] = Absent))
    BY <1>8 DEF Dismissed, NoGuild
  <2>2. Ahead'
    <3> SUFFICES ASSUME NEW b \in Players, gid'[b] > curMaxId PROVE FALSE
      BY <1>8 DEF Ahead
    <3>1. gid'[b] = gid[b] /\ (b \notin MembersOf(g) \/ gid[b] = Absent)
      BY <1>5, <2>1
    <3>2. gid[b] # Absent
      BY <1>5, <3>1 DEF Absent
    <3> QED BY <1>6, <3>1, <3>2
  <2>3. ReleaseWorks'
    <3> SUFFICES ASSUME NEW b \in Players, gid'[b] > 0, idList[gid'[b]] # 0
                 PROVE  \E m \in guild[idList[gid'[b]]].mem : m.acct = b
      BY <1>1, <1>8 DEF ReleaseWorks, CanLeave, MembersOf
    <3>1. gid'[b] = gid[b]
      BY <2>1
    <3>2. idList[gid[b]] \in Guilds
      BY <1>5, <3>1
    <3>3. b \in MembersOf(idList[gid[b]])
      BY <3>1, <3>2, Leaving DEF ReleaseInv
    <3> QED BY <3>1, <3>3 DEF MembersOf
  <2> QED BY <1>4, <2>2, <2>3 DEF ReleaseInv
<1> QED BY <1>1, <1>7, <1>8

LEMMA LoginReleases ==
  ASSUME GuildInv, ReleaseInv, GuildInv', NEW a \in Players, Login(a) PROVE ReleaseInv'
<1>1. PICK id : /\ id = (IF copyGid[a] # Absent THEN copyGid[a] ELSE charGid[a])
                /\ gid' = [gid EXCEPT ![a] = CheckedGid(a, id)]
                /\ UNCHANGED <<guild, lists, gjob>>
  BY DEF Login
<1>2. id \in GuildIds \cup {NoGuild}
  BY <1>1, TypedVars
<1>3. CASE CheckedGid(a, id) = NoGuild
  <2>1. \A b \in Players : Rehoused(b)
    BY <1>1, <1>3, TypedVars DEF Rehoused
  <2> QED BY <1>1, <2>1, EditReleases DEF lists, MembersOf, Creates
<1>4. CASE CheckedGid(a, id) # NoGuild
  <2>1. id \in GuildIds /\ CheckedGid(a, id) = id /\ idList[id] # 0 /\ a \in MembersOf(idList[id])
    BY <1>2, <1>4 DEF CheckedGid
  <2>2. id <= curMaxId
    BY <2>1 DEF GuildInv, GuildShape, Indexed
  <2>3. a \in MembersOf(idList[id]) /\ \A h \in Guilds : MembersOf(h)' = MembersOf(h)
    BY <1>1, <2>1 DEF MembersOf
  <2>4. gid'[a] = id /\ \A b \in Players : b # a => gid'[b] = gid[b]
    BY <1>1, <2>1, TypedVars
  <2>5. \A b \in Players : Rehoused(b)
    BY <2>2, <2>3, <2>4 DEF Rehoused
  <2> QED BY <1>1, <2>3, <2>5, EditReleases DEF lists, Creates
<1> QED BY <1>3, <1>4

LEMMA LeavesRelease ==
  ASSUME GuildInv, ReleaseInv, GuildInv', NEW a \in Players, Logout(a) \/ SweepCopy(a)
  PROVE  ReleaseInv'
<1>1. UNCHANGED <<guild, lists, gjob>> /\ (UNCHANGED gid \/ gid' = [gid EXCEPT ![a] = Absent])
  BY DEF Logout, SweepCopy
<1>2. \A b \in Players : Rehoused(b)
  BY <1>1, TypedVars DEF Rehoused
<1> QED BY <1>1, <1>2, EditReleases DEF lists, MembersOf, Creates

LEMMA NobodyOnline ==
  ASSUME GuildTypeOK, \A b \in Players : gid[b] = Absent, \A k \in GuildJobs : gjob[k] = GuildIdle
  PROVE  ReleaseInv
<1>1. \A b \in Players : ~(gid[b] > curMaxId) /\ ~(gid[b] > 0)
  BY Ranges DEF Absent
<1>2. \A k \in GuildJobs : ~Creates(k)
  BY IdleOp DEF Creates
<1> QED BY <1>1, <1>2 DEF ReleaseInv, OneAtATime, NextId, Ahead, ReleaseWorks, CanLeave

LEMMA ReleaseStep ==
  ASSUME GuildInv, ReleaseInv, GuildInv', Creators <= 1, [GuildNext]_guildVars PROVE ReleaseInv'
<1>1. CASE UNCHANGED guildVars
  BY <1>1, SameMembersRelease DEF guildVars, chars, MembersOf
<1>2. ASSUME NEW a \in Players, NEW n \in GuildNames, NEW j \in GuildJobs, NEW ok \in BOOLEAN,
             CreateGuild(a, n, j, ok)
      PROVE  ReleaseInv'
  BY <1>2, CreateGuildReleases
<1>3. ASSUME NEW h \in Players, NEW g \in Guilds, GuildHandler(h, g) PROVE ReleaseInv'
  BY <1>3, HandlerReleases, DestroyGuildReleases
<1>4. ASSUME NEW j \in GuildJobs,
             Created(j) \/ AcceptLoaded(j) \/ Joined(j) \/ KickLoaded(j) \/ Kicked(j)
      PROVE  ReleaseInv'
  BY <1>4, CreatedReleases, AcceptLoadedReleases, WaitersRelease
<1>5. ASSUME NEW i \in GuildIds, SaveGuild(i) PROVE ReleaseInv'
  BY <1>5, SameMembersRelease DEF SaveGuild, chars, MembersOf
<1>6. ASSUME NEW a \in Players, Login(a) \/ Logout(a) \/ SweepCopy(a) PROVE ReleaseInv'
  BY <1>6, LoginReleases, LeavesRelease
<1>7. CASE GuildRestart
  <2>0. curMaxId' \in Nat
    <3>1. curMaxId' \in 0 .. MaxGuilds /\ MaxGuilds \in Nat
      BY GuildAssumption DEF GuildInv, GuildShape, GuildTypeOK
    <3> QED BY <3>1
  <2>1. /\ \A b \in Players : gid'[b] = Absent
        /\ \A k \in GuildJobs : gjob'[k] = GuildIdle
    BY <1>7 DEF GuildRestart
  <2>2. \A b \in Players : ~(gid'[b] > curMaxId') /\ ~(gid'[b] > 0)
    BY <2>0, <2>1 DEF Absent
  <2>3. \A k \in GuildJobs : ~Creates(k)'
    BY <2>1, IdleOp DEF Creates
  <2> QED BY <2>2, <2>3 DEF ReleaseInv, OneAtATime, NextId, Ahead, ReleaseWorks, CanLeave
<1> QED BY <1>1, <1>2, <1>3, <1>4, <1>5, <1>6, <1>7 DEF GuildNext

(* If one createGuild at most waits for the database, a character that is  *)
(* online with a guild is a member of it, so that its release works.       *)
THEOREM ReleasesWork == ASSUME Creators <= 1 PROVE GuildSpec => []ReleaseWorks
<1>1. GuildInit => ReleaseInv
  <2> SUFFICES ASSUME GuildInit PROVE ReleaseInv
    OBVIOUS
  <2>1. \A b \in Players : gid[b] = Absent /\ \A k \in GuildJobs : gjob[k] = GuildIdle
    BY DEF GuildInit
  <2>2. GuildTypeOK
    BY GuildBegins DEF GuildInv, GuildShape
  <2> QED BY <2>1, <2>2, NobodyOnline DEF GuildInit
<1>2. GuildInv /\ GuildInv' /\ ReleaseInv /\ [GuildNext]_guildVars => ReleaseInv'
  BY ReleaseStep
<1>3. ReleaseInv => ReleaseWorks
  BY DEF ReleaseInv
<1> QED BY <1>1, <1>2, <1>3, GuildInvariant, PTL DEF GuildSpec
=============================================================================
