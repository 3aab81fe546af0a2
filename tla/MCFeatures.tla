----------------------------- MODULE MCFeatures -----------------------------
(* Guild, Arena, Mail, Treasure, AdminHttp and Crontab for TLC.  They      *)
(* share no state in the model, so one run checks them side by side: a     *)
(* behaviour is one of any of the six, which part tells, while the others  *)
(* keep still.                                                             *)
EXTENDS Guild, Arena, Mail, Treasure, AdminHttp, Crontab, TLC
CONSTANTS p1, p2, r1, r2, r3, m1
VARIABLE part
MCAccounts == {p1, p2}
MCFighters == {r1, r2, r3}
MCMines    == {m1}
MCCrontab  == {0, 2}

(* No part has both accounts and fighters in it: it is enough to swap the  *)
(* accounts whenever two of the fighters are swapped.                      *)
MCSymmetry ==
  {f \in Permutations(MCAccounts \cup MCFighters) :
     /\ \A p \in MCAccounts : f[p] \in MCAccounts
     /\ f[p1] = p2 <=> Cardinality({r \in MCFighters : f[r] = r}) = 1}

MCInit ==
  /\ GuildInit /\ ArenaInit /\ MailInit /\ TreasureInit /\ AdminInit
  /\ part \in {"guild", "arena", "mail", "treasure", "admin", "crontab"}
  /\ CronInit /\ (part # "crontab" => clock = 0)

MCNext ==
  /\ UNCHANGED part
  /\ part # "guild" => UNCHANGED guildVars
  /\ part # "arena" => UNCHANGED arenaVars
  /\ part # "mail" => UNCHANGED mailVars
  /\ part # "treasure" => UNCHANGED treasureVars
  /\ part # "admin" => UNCHANGED adminVars
  /\ part # "crontab" => UNCHANGED cronVars
  /\ \/ part = "guild" /\ GuildNext
     \/ part = "arena" /\ ArenaNext
     \/ part = "mail" /\ MailNext
     \/ part = "treasure" /\ TreasureNext
     \/ part = "admin" /\ AdminNext
     \/ part = "crontab" /\ CronNext

MCSpec ==
  MCInit /\ [][MCNext]_<<part, guildVars, arenaVars, mailVars, treasureVars, adminVars, cronVars>>

(* The type invariants of the six.                                         *)
MCTypeOK ==
  /\ GuildTypeOK /\ ArenaTypeOK /\ MailTypeOK /\ TreasureTypeOK /\ AdminTypeOK /\ CronTypeOK
=============================================================================
