----------------------------- MODULE MailProofs -----------------------------
(***************************************************************************)
(* Proofs about Mail, for every number of handlers, of mails, of boxes and *)
(* of starts.                                                              *)
(***************************************************************************)
EXTENDS Mail, TLAPS, FiniteSetTheorems

MailDoc == [genId : Nat, inbox : [Mails -> 0 .. MaxMails]]
Box == [doc : Nat, db : MailDoc, timer : {"none", "runs", "saving"}, late : BOOLEAN]
Waiting == [at : {"idle", "find", "insert"}, box : 0 .. MaxBoxes,
            for : {"nothing", "send", "take", "list"}, n : 0 .. MaxMails]

Typed ==
  /\ mailBox \in [Boxes -> Box] /\ nBoxes \in 0 .. MaxBoxes /\ listed \in 0 .. nBoxes
  /\ getting \in [Handlers -> Waiting]
  /\ mailDoc \in [Docs -> MailDoc] /\ nDocs \in Nat
  /\ nMails \in 0 .. MaxMails /\ given \in [Mails -> Nat]
  /\ mailPhase \in {"runs", "exits"} /\ nBoots \in 0 .. MaxBoots /\ mishap \in BOOLEAN

(* Handlers wait with a box of their own, and send mails of their own.     *)
Waits(h) == getting[h].at # "idle"
Sends(h, m) == Waits(h) /\ getting[h].for = "send" /\ getting[h].n = m

Does(for, n) == for \in {"send", "take", "list"} /\ (for \in {"send", "take"} => n \in Mails)

Separate ==
  /\ \A h \in Handlers :
       /\ ~Waits(h) => getting[h] = NotGetting
       /\ Waits(h) => getting[h].box \in 1 .. nBoxes /\ getting[h].box # listed
       /\ Waits(h) => Does(getting[h].for, getting[h].n)
       /\ Waits(h) /\ getting[h].for = "send" => getting[h].n <= nMails
  /\ \A h, k \in Handlers : Waits(h) /\ Waits(k) /\ h # k =>
       /\ getting[h].box # getting[k].box
       /\ ~(getting[h].for = "send" /\ getting[k].for = "send" /\ getting[h].n = getting[k].n)

(* Every document is made by a box that had none.                          *)
Undocumented == {b \in 1 .. nBoxes : mailBox[b].doc = 0}

Documented ==
  /\ nDocs + Cardinality(Undocumented) <= nBoxes + MaxBoxes * nBoots
  /\ \A b \in Boxes : mailBox[b].doc <= nDocs
  /\ \A d \in Docs : d > nDocs => mailDoc[d] = NoDoc
  /\ \A h \in Handlers : Waits(h) /\ mailBox[getting[h].box].doc = 0 =>
       mailBox[getting[h].box].db = NoDoc
  /\ listed # 0 => mailBox[listed].doc # 0

(* What an account has: the mails that were added and not given, each of   *)
(* them once.                                                              *)
Added == {m \in 1 .. nMails : \A h \in Handlers : ~Sends(h, m)}
Current == IF listed # 0 THEN mailBox[listed].db ELSE mailDoc[1]

Content(c, gv, added) ==
  /\ \A i \in Mails : c.inbox[i] # 0 =>
       i <= c.genId /\ c.inbox[i] \in added /\ gv[c.inbox[i]] = 0
  /\ \A i, j \in Mails : c.inbox[i] # 0 /\ c.inbox[i] = c.inbox[j] => i = j
  /\ c.genId <= Cardinality(added)
  /\ \A m \in Mails : gv[m] <= 1 /\ (m \notin added => gv[m] = 0)
  /\ \A m \in added : gv[m] = 0 => \E i \in Mails : c.inbox[i] = m

(* Without a mishap.  A box that is not listed yet is the document; if it  *)
(* is another document, one handler still waits with the first.            *)
Live(b) == (listed # 0 /\ b = listed) \/ \E h \in Handlers : Waits(h) /\ getting[h].box = b

Whole ==
  /\ \A b \in Boxes : b # listed => mailBox[b].timer = "none"
  /\ listed = 0 => \A h \in Handlers : Waits(h) =>
       LET x == mailBox[getting[h].box]
       IN  x.db = mailDoc[1] /\ (x.doc # 0 => mailDoc[x.doc] = x.db)
  /\ \A b \in Boxes : Live(b) /\ mailBox[b].doc # 1 /\ nDocs # 0 =>
       \E k \in Boxes : Live(k) /\ mailBox[k].doc = 1
  /\ Unsaved => mailBox[listed].timer = "runs" \/ mailBox[listed].late
  /\ Content(Current, given, Added)

MailInv == Typed /\ Separate /\ Documented /\ (~mishap => Whole)
-----------------------------------------------------------------------------
(* The content of a box.                                                   *)

LEMMA MailsCount ==
  ASSUME NEW A \in SUBSET Mails
  PROVE  /\ IsFiniteSet(A) /\ Cardinality(A) \in Nat /\ Cardinality(A) <= MaxMails
         /\ \A m \in Mails \ A : Cardinality(A \cup {m}) = Cardinality(A) + 1
<1>1. IsFiniteSet(Mails) /\ Cardinality(Mails) = MaxMails
  BY MailAssumption, FS_Interval DEF Mails
<1>2. IsFiniteSet(A) /\ Cardinality(A) \in Nat /\ Cardinality(A) <= MaxMails
  BY <1>1, FS_Subset, FS_CardinalityType
<1> QED
  BY <1>2, FS_AddElement

LEMMA SendContent ==
  ASSUME NEW c \in MailDoc, NEW gv \in [Mails -> Nat], NEW A \in SUBSET Mails, Content(c, gv, A),
         NEW m \in Mails \ A
  PROVE  LET d == [c EXCEPT !.genId = @ + 1, !.inbox[c.genId + 1] = m]
         IN  d \in MailDoc /\ Content(d, gv, A \cup {m})
<1> DEFINE g == c.genId + 1
           d == [c EXCEPT !.genId = @ + 1, !.inbox[c.genId + 1] = m]
<1>1. /\ Cardinality(A \cup {m}) = Cardinality(A) + 1 /\ Cardinality(A) \in Nat
      /\ Cardinality(A) + 1 <= MaxMails
  BY MailsCount
<1>2. c.genId \in Nat /\ c.inbox \in [Mails -> 0 .. MaxMails] /\ g \in Mails
  <2>1. c.genId \in Nat /\ c.inbox \in [Mails -> 0 .. MaxMails]
    BY DEF MailDoc
  <2>2. c.genId <= Cardinality(A)
    BY DEF Content
  <2> QED
    BY <1>1, <2>1, <2>2, MailAssumption DEF Mails
<1>3. d.genId = g /\ d.inbox = [c.inbox EXCEPT ![g] = m]
  BY <1>2 DEF MailDoc
<1>4. d.inbox \in [Mails -> 0 .. MaxMails] /\ d \in MailDoc
  <2>1. [c.inbox EXCEPT ![g] = m] \in [Mails -> 0 .. MaxMails]
    BY <1>2, MailAssumption DEF Mails
  <2>2. d = [f \in {"genId", "inbox"} |-> d[f]]
    BY DEF MailDoc
  <2>3. d.genId \in Nat /\ d.inbox \in [Mails -> 0 .. MaxMails]
    BY <1>2, <1>3, <2>1
  <2> HIDE DEF d
  <2> QED
    BY <2>2, <2>3 DEF MailDoc
<1>5. \A i \in Mails : /\ d.inbox[i] = (IF i = g THEN m ELSE c.inbox[i])
                       /\ i # g /\ c.inbox[i] # 0 => i < g
                       /\ i \in Nat /\ i # 0
  <2> HIDE DEF d
  <2>1. \A i \in Mails : d.inbox[i] = (IF i = g THEN m ELSE c.inbox[i])
    BY <1>2, <1>3
  <2>2. \A i \in Mails : c.inbox[i] # 0 => i <= c.genId
    BY DEF Content
  <2>3. \A i \in Mails : i \in Nat /\ i # 0
    BY MailAssumption DEF Mails
  <2> QED
    BY <1>2, <2>1, <2>2, <2>3
<1> HIDE DEF d, g
<1>6. c.inbox[g] = 0
  BY <1>2 DEF Content, g
<1>7. \A i \in Mails : c.inbox[i] # 0 =>
        i <= c.genId /\ c.inbox[i] \in A /\ gv[c.inbox[i]] = 0
  BY DEF Content
<1>8. m \in Mails /\ m \notin A /\ gv[m] = 0 /\ g \in Nat
  BY <1>2 DEF Content, Mails
<1>9. \A i \in Mails : d.inbox[i] # 0 =>
        i <= d.genId /\ d.inbox[i] \in A \cup {m} /\ gv[d.inbox[i]] = 0
  BY <1>2, <1>3, <1>5, <1>7, <1>8 DEF g
<1>10. \A i, j \in Mails : d.inbox[i] # 0 /\ d.inbox[i] = d.inbox[j] => i = j
  BY <1>5, <1>7, <1>8 DEF Content
<1>11. d.genId <= Cardinality(A \cup {m})
  BY <1>1, <1>2, <1>3 DEF Content, g
<1>12. \A p \in A \cup {m} : gv[p] = 0 => \E i \in Mails : d.inbox[i] = p
  <2> SUFFICES ASSUME NEW p \in A \cup {m}, gv[p] = 0 PROVE \E i \in Mails : d.inbox[i] = p
    OBVIOUS
  <2>1. CASE p = m
    BY <1>2, <1>5, <2>1
  <2>2. CASE p \in A
    <3>1. PICK i \in Mails : c.inbox[i] = p
      BY <2>2 DEF Content
    <3>2. i # g
      BY <1>6, <1>5, <2>2, <3>1 DEF Mails
    <3> QED
      BY <1>5, <3>1, <3>2
  <2> QED
    BY <2>1, <2>2
<1> QED
  BY <1>4, <1>9, <1>10, <1>11, <1>12 DEF Content, d

LEMMA TakeContent ==
  ASSUME NEW c \in MailDoc, NEW gv \in [Mails -> Nat], NEW A \in SUBSET Mails, Content(c, gv, A),
         NEW i \in Mails
  PROVE  LET d == [c EXCEPT !.inbox[i] = 0]
             gt == [m \in Mails |-> IF c.inbox[i] = m THEN gv[m] + 1 ELSE gv[m]]
         IN  d \in MailDoc /\ gt \in [Mails -> Nat] /\ Content(d, gt, A)
<1> DEFINE d == [c EXCEPT !.inbox[i] = 0]
           gt == [m \in Mails |-> IF c.inbox[i] = m THEN gv[m] + 1 ELSE gv[m]]
<1>1. /\ c.inbox \in [Mails -> 0 .. MaxMails] /\ c.genId \in Nat
      /\ d.inbox = [c.inbox EXCEPT ![i] = 0] /\ d.genId = c.genId
  BY DEF MailDoc
<1>2. d.inbox \in [Mails -> 0 .. MaxMails] /\ d \in MailDoc /\ gt \in [Mails -> Nat]
  <2>1. [c.inbox EXCEPT ![i] = 0] \in [Mails -> 0 .. MaxMails]
    BY <1>1, MailAssumption
  <2>2. d = [genId |-> c.genId, inbox |-> [c.inbox EXCEPT ![i] = 0]]
    BY DEF MailDoc
  <2> QED
    BY <1>1, <2>1, <2>2 DEF MailDoc
<1>3. /\ \A j \in Mails : d.inbox[j] = (IF j = i THEN 0 ELSE c.inbox[j])
      /\ \A m \in Mails : gt[m] = (IF c.inbox[i] = m THEN gv[m] + 1 ELSE gv[m])
      /\ \A m \in Mails : m # 0
  <2>1. 0 \notin Mails
    BY MailAssumption DEF Mails
  <2> QED
    BY <1>1, <2>1
<1> HIDE DEF d, gt
<1>4. /\ \A j \in Mails : c.inbox[j] # 0 =>
           j <= c.genId /\ c.inbox[j] \in A /\ gv[c.inbox[j]] = 0
      /\ \A j, k \in Mails : c.inbox[j] # 0 /\ c.inbox[j] = c.inbox[k] => j = k
      /\ c.genId <= Cardinality(A)
      /\ \A m \in Mails : gv[m] <= 1 /\ (m \notin A => gv[m] = 0)
      /\ \A m \in A : gv[m] = 0 => \E j \in Mails : c.inbox[j] = m
      /\ A \subseteq Mails
  BY DEF Content
<1>5. \A j \in Mails : d.inbox[j] # 0 =>
        j <= d.genId /\ d.inbox[j] \in A /\ gt[d.inbox[j]] = 0
  BY <1>1, <1>3, <1>4
<1>6. \A j, k \in Mails : d.inbox[j] # 0 /\ d.inbox[j] = d.inbox[k] => j = k
  BY <1>3, <1>4
<1>7. \A m \in Mails : gt[m] <= 1 /\ (m \notin A => gt[m] = 0)
  BY <1>3, <1>4
<1>8. \A m \in A : gt[m] = 0 => \E j \in Mails : d.inbox[j] = m
  <2> SUFFICES ASSUME NEW m \in A, gt[m] = 0 PROVE \E j \in Mails : d.inbox[j] = m
    OBVIOUS
  <2>1. m \in Mails /\ gv[m] \in Nat /\ c.inbox[i] # m /\ gv[m] = 0
    BY <1>3, <1>4
  <2>2. PICK j \in Mails : c.inbox[j] = m
    BY <1>4, <2>1
  <2> QED
    BY <1>3, <2>1, <2>2
<1> QED
  BY <1>1, <1>2, <1>4, <1>5, <1>6, <1>7, <1>8 DEF Content, d, gt
-----------------------------------------------------------------------------
(* What a handler does with a box.                                         *)

LEMMA RaisedBox ==
  ASSUME NEW x \in Box
  PROVE  /\ Raised(x) \in Box /\ Raised(x).db = x.db /\ Raised(x).doc = x.doc
         /\ Raised(x).timer = "runs" \/ Raised(x).late
<1>1. CASE x.timer = "none"
  BY <1>1 DEF Raised, Box
<1>2. CASE x.timer = "saving"
  BY <1>2 DEF Raised, Box
<1>3. CASE x.timer = "runs"
  BY <1>3 DEF Raised, Box
<1> QED
  BY <1>1, <1>2, <1>3 DEF Box

LEMMA DocWithMail ==
  ASSUME NEW c \in MailDoc, NEW m \in Mails
  PROVE  [c EXCEPT !.genId = @ + 1, !.inbox[c.genId + 1] = m] \in MailDoc
<1> DEFINE d == [c EXCEPT !.genId = @ + 1, !.inbox[c.genId + 1] = m]
<1>1. d = [f \in {"genId", "inbox"} |-> d[f]]
  BY DEF MailDoc
<1>2. c.inbox \in [Mails -> 0 .. MaxMails] /\ c.genId \in Nat /\ m \in 0 .. MaxMails
  BY MailAssumption DEF MailDoc, Mails
<1>3. d.genId = c.genId + 1 /\ d.inbox = [c.inbox EXCEPT ![c.genId + 1] = m]
  <2>1. d.genId = c.genId + 1
    BY <1>2 DEF MailDoc
  <2>2. d.inbox = [c.inbox EXCEPT ![c.genId + 1] = m]
    BY <1>2 DEF MailDoc
  <2> QED
    BY <2>1, <2>2
<1>4. d.genId \in Nat /\ d.inbox \in [Mails -> 0 .. MaxMails]
  <2>1. ASSUME NEW k PROVE [c.inbox EXCEPT ![k] = m] \in [Mails -> 0 .. MaxMails]
    BY <1>2
  <2> HIDE DEF d
  <2> QED
    BY <1>2, <1>3, <2>1
<1> HIDE DEF d
<1>5. d \in MailDoc
  BY <1>1, <1>4 DEF MailDoc
<1> QED
  BY <1>5 DEF d

LEMMA WithMailBox ==
  ASSUME NEW x \in Box, NEW m \in Mails
  PROVE  LET y == WithMail(x, m)
         IN  /\ y \in Box /\ y.doc = x.doc /\ (y.timer = "runs" \/ y.late)
             /\ y.db = [x.db EXCEPT !.genId = @ + 1, !.inbox[x.db.genId + 1] = m]
<1> DEFINE d == [x.db EXCEPT !.genId = @ + 1, !.inbox[x.db.genId + 1] = m]
           z == [x EXCEPT !.db.genId = @ + 1, !.db.inbox[x.db.genId + 1] = m]
<1>1. z = [x EXCEPT !.db = d]
  BY DEF Box
<1>2. x.db \in MailDoc
  BY DEF Box
<1>3. d \in MailDoc
  BY <1>2, DocWithMail
<1> HIDE DEF d
<1>4. [x EXCEPT !.db = d] \in Box /\ [x EXCEPT !.db = d].db = d /\ [x EXCEPT !.db = d].doc = x.doc
  BY <1>3 DEF Box
<1>5. WithMail(x, m) = Raised([x EXCEPT !.db = d])
  BY <1>1 DEF WithMail
<1> QED
  BY <1>4, <1>5, RaisedBox DEF d

LEMMA WithoutMailBox ==
  ASSUME NEW x \in Box, NEW i \in Mails
  PROVE  LET y == WithoutMail(x, i)
         IN  /\ y \in Box /\ y.doc = x.doc /\ (y = x \/ y.timer = "runs" \/ y.late)
             /\ y.db = [x.db EXCEPT !.inbox[i] = 0]
<1> DEFINE d == [x.db EXCEPT !.inbox[i] = 0]
           z == [x EXCEPT !.db.inbox[i] = 0]
<1>1. z = [x EXCEPT !.db = d]
  BY DEF Box
<1>2. x.db \in MailDoc /\ x.db.inbox \in [Mails -> 0 .. MaxMails]
  BY DEF Box, MailDoc
<1>3. d \in MailDoc
  <2>1. [x.db.inbox EXCEPT ![i] = 0] \in [Mails -> 0 .. MaxMails]
    BY <1>2, MailAssumption
  <2> QED
    BY <1>2, <2>1 DEF MailDoc
<1>4. x.db.inbox[i] = 0 => d = x.db
  <2>1. x.db.inbox[i] = 0 => [x.db.inbox EXCEPT ![i] = 0] = x.db.inbox
    BY <1>2
  <2> QED
    BY <1>2, <2>1 DEF MailDoc
<1> HIDE DEF d
<1>5. [x EXCEPT !.db = d] \in Box /\ [x EXCEPT !.db = d].db = d /\ [x EXCEPT !.db = d].doc = x.doc
  BY <1>3 DEF Box
<1>6. WithoutMail(x, i) = IF x.db.inbox[i] = 0 THEN x ELSE Raised([x EXCEPT !.db = d])
  BY <1>1 DEF WithoutMail
<1>7. WithoutMail(x, i).db = d
  BY <1>4, <1>5, <1>6, RaisedBox
<1> QED
  BY <1>5, <1>6, <1>7, RaisedBox DEF d

LEMMA UseBox ==
  ASSUME Typed, NEW b \in Boxes, NEW x \in Box, NEW for, NEW n, Does(for, n), Use(b, x, for, n)
  PROVE  /\ mailBox' \in [Boxes -> Box] /\ mailBox'[b].doc = x.doc
         /\ \A k \in Boxes : k # b => mailBox'[k] = mailBox[k]
         /\ mailBox'[b] = x \/ mailBox'[b].timer = "runs" \/ mailBox'[b].late
         /\ given' \in [Mails -> Nat]
<1>1. mailBox \in [Boxes -> Box] /\ given \in [Mails -> Nat]
  BY DEF Typed
<1>2. given' \in [Mails -> Nat]
  BY <1>1 DEF Use
<1>3. CASE for = "send"
  <2>1. mailBox' = [mailBox EXCEPT ![b] = WithMail(x, n)] /\ n \in Mails
    BY <1>3 DEF Use, Does
  <2> QED
    BY <1>1, <1>2, <2>1, WithMailBox
<1>4. CASE for = "take"
  <2>1. mailBox' = [mailBox EXCEPT ![b] = WithoutMail(x, n)] /\ n \in Mails
    BY <1>4 DEF Use, Does
  <2> QED
    BY <1>1, <1>2, <2>1, WithoutMailBox
<1>5. CASE for = "list"
  <2>1. mailBox' = [mailBox EXCEPT ![b] = x]
    BY <1>5 DEF Use
  <2> QED
    BY <1>1, <1>2, <2>1
<1> QED
  BY <1>3, <1>4, <1>5 DEF Does

LEMMA UseContent ==
  ASSUME Typed, NEW b \in Boxes, NEW x \in Box, NEW for, NEW n, Does(for, n), Use(b, x, for, n),
         NEW A \in SUBSET Mails, Content(x.db, given, A)
  PROVE  /\ for = "send" /\ n \notin A => Content(mailBox'[b].db, given', A \cup {n})
         /\ for # "send" => Content(mailBox'[b].db, given', A)
<1>1. mailBox \in [Boxes -> Box] /\ given \in [Mails -> Nat] /\ x.db \in MailDoc
  BY DEF Typed, Box
<1>2. for # "take" => given' = given
  <2>1. for # "take" => given' = [m \in Mails |-> given[m]]
    BY DEF Use
  <2> QED
    BY <1>1, <2>1
<1>3. ASSUME for = "send", n \notin A PROVE Content(mailBox'[b].db, given', A \cup {n})
  <2>1. mailBox' = [mailBox EXCEPT ![b] = WithMail(x, n)] /\ n \in Mails \ A
    BY <1>3 DEF Use, Does
  <2>2. Content([x.db EXCEPT !.genId = @ + 1, !.inbox[x.db.genId + 1] = n], given, A \cup {n})
    BY <1>1, <2>1, SendContent
  <2>3. mailBox'[b].db = [x.db EXCEPT !.genId = @ + 1, !.inbox[x.db.genId + 1] = n]
    BY <1>1, <2>1, WithMailBox
  <2>4. given' = given
    BY <1>2, <1>3
  <2> QED
    BY <2>2, <2>3, <2>4
<1>4. ASSUME for = "take" PROVE Content(mailBox'[b].db, given', A)
  <2>1. mailBox' = [mailBox EXCEPT ![b] = WithoutMail(x, n)] /\ n \in Mails
    BY <1>4 DEF Use, Does
  <2>2. given' = [m \in Mails |-> IF x.db.inbox[n] = m THEN given[m] + 1 ELSE given[m]]
    BY <1>4 DEF Use, Attached
  <2>3. Content([x.db EXCEPT !.inbox[n] = 0],
                [m \in Mails |-> IF x.db.inbox[n] = m THEN given[m] + 1 ELSE given[m]], A)
    BY <1>1, <2>1, TakeContent
  <2>4. mailBox'[b].db = [x.db EXCEPT !.inbox[n] = 0]
    BY <1>1, <2>1, WithoutMailBox
  <2> QED
    BY <2>2, <2>3, <2>4
<1>5. ASSUME for = "list" PROVE Content(mailBox'[b].db, given', A)
  <2>1. mailBox' = [mailBox EXCEPT ![b] = x]
    BY <1>5 DEF Use
  <2>2. mailBox'[b].db = x.db /\ given' = given
    BY <1>1, <1>2, <1>5, <2>1
  <2> QED
    BY <2>2
<1> QED
  BY <1>3, <1>4, <1>5 DEF Does
-----------------------------------------------------------------------------
(* The steps.                                                              *)

LEMMA Room ==
  ASSUME Typed, Documented
  PROVE  /\ IsFiniteSet(Undocumented) /\ Cardinality(Undocumented) \in Nat
         /\ nDocs <= MaxBoxes * (nBoots + 1)
         /\ Undocumented # {} => nDocs + 1 \in Docs
         /\ 1 \in Docs /\ MaxBoxes * nBoots + MaxBoxes = MaxBoxes * (nBoots + 1)
         /\ MaxBoxes * nBoots \in Nat
<1>1. /\ nBoots \in Nat /\ nBoots <= MaxBoots /\ nBoxes \in Nat /\ nBoxes <= MaxBoxes
      /\ MaxBoxes \in Nat /\ MaxBoxes >= 1 /\ MaxBoots \in Nat /\ nDocs \in Nat
  BY MailAssumption DEF Typed
<1>2. /\ MaxBoxes * nBoots \in Nat /\ MaxBoxes * nBoots + MaxBoxes = MaxBoxes * (nBoots + 1)
      /\ MaxBoxes * (nBoots + 1) <= MaxBoxes * (MaxBoots + 1)
      /\ 1 <= MaxBoxes * (MaxBoots + 1) /\ MaxBoxes * (MaxBoots + 1) \in Nat
  <2>1. \A a, b, c \in Nat : b <= c => a * b <= a * c
    OBVIOUS
  <2>2. \A a, b \in Nat : a * b \in Nat /\ a * b + a = a * (b + 1)
    OBVIOUS
  <2>3. MaxBoxes * (nBoots + 1) <= MaxBoxes * (MaxBoots + 1)
    BY <1>1, <2>1
  <2> QED
    BY <1>1, <2>2, <2>3
<1>3. IsFiniteSet(Undocumented) /\ Cardinality(Undocumented) \in Nat
  <2>1. IsFiniteSet(1 .. nBoxes)
    BY <1>1, FS_Interval
  <2> QED
    BY <2>1, FS_Subset, FS_CardinalityType DEF Undocumented
<1>4. Undocumented # {} => Cardinality(Undocumented) >= 1
  BY <1>3, FS_EmptySet
<1>5. nDocs + Cardinality(Undocumented) <= nBoxes + MaxBoxes * nBoots
  BY DEF Documented
<1> HIDE DEF Undocumented
<1>6. nDocs <= MaxBoxes * (nBoots + 1)
  BY <1>1, <1>2, <1>3, <1>5
<1>7. Undocumented # {} => nDocs + 1 <= MaxBoxes * (nBoots + 1)
  BY <1>1, <1>2, <1>3, <1>4, <1>5
<1> QED
  BY <1>1, <1>2, <1>3, <1>6, <1>7 DEF Docs

LEMMA AddedMails == ASSUME Typed PROVE Added \in SUBSET Mails
  BY MailAssumption DEF Typed, Added, Mails

\* The listed box is used at once.
LEMMA ListedUsed ==
  ASSUME MailInv, listed # 0, NEW for, NEW n, Does(for, n),
         Use(listed, mailBox[listed], for, n),
         \/ for = "send" /\ n = nMails + 1 /\ nMails' = n
         \/ for # "send" /\ nMails' = nMails,
         UNCHANGED <<nBoxes, listed, getting, mailDoc, nDocs, mailPhase, nBoots, mishap>>
  PROVE  MailInv'
<1>1. Typed /\ Separate /\ Documented /\ (~mishap => Whole)
  BY DEF MailInv
<1>2. /\ listed \in Boxes /\ mailBox[listed] \in Box /\ nMails \in 0 .. MaxMails /\ nBoxes \in Nat
      /\ 1 .. nBoxes \subseteq Boxes
  BY <1>1, MailAssumption DEF Typed, Boxes
<1> DEFINE x == mailBox[listed]
           y == mailBox'[listed]
<1>3. /\ mailBox' \in [Boxes -> Box] /\ y.doc = x.doc
      /\ \A k \in Boxes : k # listed => mailBox'[k] = mailBox[k]
      /\ y = x \/ y.timer = "runs" \/ y.late
      /\ given' \in [Mails -> Nat]
      /\ Content(x.db, given, Added) =>
           /\ for = "send" /\ n \notin Added => Content(y.db, given', Added \cup {n})
           /\ for # "send" => Content(y.db, given', Added)
  <2>1. /\ mailBox' \in [Boxes -> Box] /\ mailBox'[listed].doc = mailBox[listed].doc
        /\ \A k \in Boxes : k # listed => mailBox'[k] = mailBox[k]
        /\ \/ mailBox'[listed] = mailBox[listed]
           \/ mailBox'[listed].timer = "runs" \/ mailBox'[listed].late
        /\ given' \in [Mails -> Nat]
    BY <1>1, <1>2, UseBox
  <2>2. ASSUME Content(mailBox[listed].db, given, Added)
        PROVE  /\ for = "send" /\ n \notin Added =>
                    Content(mailBox'[listed].db, given', Added \cup {n})
               /\ for # "send" => Content(mailBox'[listed].db, given', Added)
    <3> DEFINE X == mailBox[listed]
               A == Added
    <3>1. /\ Typed /\ listed \in Boxes /\ X \in Box /\ A \in SUBSET Mails
          /\ Use(listed, X, for, n) /\ Content(X.db, given, A)
      BY <1>1, <1>2, <2>2, AddedMails
    <3> HIDE DEF X, A
    <3>2. /\ for = "send" /\ n \notin A => Content(mailBox'[listed].db, given', A \cup {n})
          /\ for # "send" => Content(mailBox'[listed].db, given', A)
      BY <3>1, UseContent
    <3> QED
      BY <3>2 DEF A
  <2> QED
    BY <2>1, <2>2
<1>4. nMails' \in 0 .. MaxMails /\ nMails' >= nMails
  BY <1>2, MailAssumption DEF Does, Mails
<1> HIDE DEF x, y
<1>5. Typed'
  BY <1>1, <1>3, <1>4 DEF Typed
<1>6. Separate'
  <2>1. \A h \in Handlers : Waits(h)' <=> Waits(h)
    BY DEF Waits
  <2>2. \A h \in Handlers : getting[h].n \in Nat
    <3>1. \A w \in Waiting : w.n \in Nat
      BY MailAssumption DEF Waiting
    <3> QED
      BY <1>1, <3>1 DEF Typed
  <2>3. \A h \in Handlers : getting[h].n <= nMails => getting[h].n <= nMails'
    BY <1>2, <1>4, <2>2
  <2> QED
    BY <1>1, <2>1, <2>3 DEF Separate
<1>7. /\ \A b \in Boxes : mailBox'[b].doc = mailBox[b].doc
      /\ \A h \in Handlers : Waits(h) =>
           getting[h].box \in Boxes /\ mailBox'[getting[h].box] = mailBox[getting[h].box]
  BY <1>1, <1>2, <1>3 DEF Separate, x, y
<1>8. Documented'
  <2>1. Undocumented' = Undocumented
    BY <1>2, <1>7 DEF Undocumented
  <2> QED
    BY <1>1, <1>2, <1>7, <2>1 DEF Documented, Waits
<1>9. ASSUME ~mishap' PROVE Whole'
  <2>1. Whole
    BY <1>1, <1>9
  <2>2. \A b \in Boxes : b # listed' => mailBox'[b].timer = "none"
    BY <1>3, <2>1 DEF Whole
  <2>3. \A b \in Boxes : Live(b)' <=> Live(b)
    BY DEF Live, Waits
  <2>4. Unsaved' => y.timer = "runs" \/ y.late
    BY <1>3, <2>1 DEF Whole, Unsaved, x, y
  <2>5. Content(Current, given, Added)'
    <3>1. Content(x.db, given, Added) /\ Current' = y.db
      BY <2>1 DEF Whole, Current, x, y
    <3>2. Added \in SUBSET Mails
      BY <1>1, AddedMails
    <3>3. CASE for = "send"
      <4>1. \A h \in Handlers : ~Sends(h, n)'
        BY <1>1, <1>2, <3>3 DEF Separate, Sends, Waits
      <4>2. Added' = Added \cup {n} /\ n \notin Added
        BY <1>2, <3>3, <4>1 DEF Added, Sends, Waits
      <4> QED
        BY <1>3, <3>1, <3>2, <3>3, <4>2 DEF Content
    <3>4. CASE for # "send"
      <4>1. Added' = Added
        BY <3>4 DEF Added, Sends, Waits
      <4> QED
        BY <1>3, <3>1, <3>2, <3>4, <4>1 DEF Content
    <3> QED
      BY <3>3, <3>4
  <2>6. \A b \in Boxes : Live(b)' /\ mailBox'[b].doc # 1 /\ nDocs' # 0 =>
          \E k \in Boxes : Live(k)' /\ mailBox'[k].doc = 1
    BY <1>7, <2>1, <2>3 DEF Whole
  <2> QED
    BY <2>2, <2>4, <2>5, <2>6 DEF Whole, y
<1> QED
  BY <1>5, <1>6, <1>8, <1>9 DEF MailInv

\* A box of its own for a handler.
LEMMA BoxFound ==
  ASSUME MailInv, listed = 0, NEW h \in Handlers, NEW for, NEW n, Does(for, n), Find(h, for, n),
         \/ for = "send" /\ n = nMails + 1 /\ nMails' = n
         \/ for # "send" /\ n \in 0 .. MaxMails /\ nMails' = nMails,
         UNCHANGED <<mailDoc, nDocs, mailPhase, nBoots, mishap>>
  PROVE  MailInv'
<1>1. Typed /\ Separate /\ Documented /\ (~mishap => Whole)
  BY DEF MailInv
<1> DEFINE b == nBoxes + 1
           x == IF nDocs = 0 THEN NewBox ELSE [NewBox EXCEPT !.doc = 1, !.db = mailDoc[1]]
           w == [at |-> "find", box |-> b, for |-> for, n |-> n]
<1>2. /\ b \in Boxes /\ nBoxes \in Nat /\ nBoxes' = b /\ 0 \notin Boxes
      /\ mailBox' = [mailBox EXCEPT ![b] = x] /\ getting' = [getting EXCEPT ![h] = w]
      /\ getting[h] = NotGetting /\ listed' = 0 /\ given' = given
  BY <1>1, MailAssumption DEF Typed, Find, Boxes
<1>3. 1 \in Docs /\ MaxBoxes * nBoots \in Nat /\ nDocs \in Nat /\ nMails \in Nat
  BY <1>1, Room DEF Typed
<1>4. /\ x \in Box /\ x.timer = "none" /\ (nDocs = 0 => x.doc = 0 /\ x.db = NoDoc)
      /\ (nDocs # 0 => x.doc = 1 /\ x.db = mailDoc[1])
  <2>1. NoDoc \in MailDoc
    BY MailAssumption DEF NoDoc, MailDoc
  <2>2. mailDoc[1] \in MailDoc
    BY <1>1, <1>3 DEF Typed
  <2> QED
    BY <2>1, <2>2 DEF NewBox, Box
<1>5. w \in Waiting /\ w # NotGetting /\ nMails' \in 0 .. MaxMails /\ nMails' >= nMails
  <2>1. n \in 0 .. MaxMails
    BY MailAssumption DEF Does, Mails
  <2>2. nMails' \in 0 .. MaxMails /\ nMails' >= nMails
    BY <1>1, <1>3, <2>1 DEF Typed
  <2>3. b \in 0 .. MaxBoxes
    BY <1>2, MailAssumption DEF Boxes
  <2> QED
    BY <2>1, <2>2, <2>3 DEF Waiting, Does, NotGetting
<1>6. w.at = "find" /\ w.box = b /\ w.for = for /\ w.n = n
  OBVIOUS
<1> HIDE DEF b, x, w
<1>7. /\ mailBox'[b] = x /\ \A k \in Boxes : k # b => mailBox'[k] = mailBox[k]
      /\ getting'[h] = w /\ \A k \in Handlers : k # h => getting'[k] = getting[k]
  BY <1>1, <1>2 DEF Typed
<1>8. Typed'
  <2>1. mailBox' \in [Boxes -> Box]
    BY <1>1, <1>2, <1>4 DEF Typed
  <2>2. getting' \in [Handlers -> Waiting]
    BY <1>1, <1>2, <1>5 DEF Typed
  <2>3. nBoxes' \in 0 .. MaxBoxes /\ listed' \in 0 .. nBoxes'
    BY <1>2, MailAssumption DEF Boxes
  <2> QED
    BY <1>1, <1>2, <1>5, <2>1, <2>2, <2>3 DEF Typed
<1>9. ~Waits(h) /\ Waits(h)' /\ \A k \in Handlers : k # h => (Waits(k)' <=> Waits(k))
  <2>1. getting[h].at = "idle" /\ getting'[h].at = "find"
    BY <1>2, <1>6, <1>7 DEF NotGetting
  <2>2. \A k \in Handlers : k # h => (Waits(k)' <=> Waits(k))
    BY <1>7 DEF Waits
  <2> QED
    BY <2>1, <2>2 DEF Waits
<1>10. \A k \in Handlers : Waits(k) => getting[k].box \in Boxes /\ getting[k].box # b
  <2>1. \A k \in Handlers : Waits(k) => getting[k].box \in 1 .. nBoxes
    BY <1>1 DEF Separate
  <2>2. \A i \in 1 .. nBoxes : i \in Boxes /\ i # b
    BY <1>2, MailAssumption DEF Boxes, b
  <2> QED
    BY <2>1, <2>2
<1>11. Separate'
  <2>1. \A k \in Handlers : getting[k].n \in Nat
    <3>1. \A v \in Waiting : v.n \in Nat
      BY MailAssumption DEF Waiting
    <3> QED
      BY <1>1, <3>1 DEF Typed
  <2>2. \A k \in Handlers : Waits(k)' =>
          getting'[k].box \in 1 .. nBoxes' /\ getting'[k].box # listed'
    BY <1>1, <1>2, <1>6, <1>7, <1>9, <1>10 DEF Separate, b
  <2>3. \A k \in Handlers : Waits(k)' => Does(getting'[k].for, getting'[k].n)
    BY <1>1, <1>6, <1>7, <1>9 DEF Separate
  <2>4. \A k \in Handlers : Waits(k)' /\ getting'[k].for = "send" => getting'[k].n <= nMails'
    BY <1>1, <1>3, <1>5, <1>6, <1>7, <1>9, <2>1 DEF Separate
  <2>5. \A k \in Handlers : ~Waits(k)' => getting'[k] = NotGetting
    BY <1>1, <1>7, <1>9 DEF Separate
  <2>6. \A k \in Handlers : Waits(k) /\ getting[k].for = "send" /\ for = "send" =>
          getting[k].n # n
    BY <1>1, <1>3, <2>1 DEF Separate
  <2>7. \A k \in Handlers : k # h /\ Waits(k)' =>
          getting'[k].box # b /\ ~(getting'[k].for = "send" /\ for = "send" /\ getting'[k].n = n)
    BY <1>7, <1>9, <1>10, <2>6
  <2>8. \A k, l \in Handlers : Waits(k)' /\ Waits(l)' /\ k # l =>
          /\ getting'[k].box # getting'[l].box
          /\ ~(/\ getting'[k].for = "send" /\ getting'[l].for = "send"
               /\ getting'[k].n = getting'[l].n)
    BY <1>1, <1>6, <1>7, <1>9, <2>7 DEF Separate
  <2> QED
    BY <2>2, <2>3, <2>4, <2>5, <2>8 DEF Separate
<1>12. Documented'
  <2>1. nDocs' + Cardinality(Undocumented') <= nBoxes' + MaxBoxes * nBoots'
    <3>1. IsFiniteSet(Undocumented) /\ Cardinality(Undocumented) \in Nat
      BY <1>1, Room
    <3>2. Undocumented' \subseteq Undocumented \cup {b}
      BY <1>2, <1>7, MailAssumption DEF Undocumented, b, Boxes
    <3>3. /\ IsFiniteSet(Undocumented \cup {b})
          /\ Cardinality(Undocumented \cup {b}) <= Cardinality(Undocumented) + 1
          /\ Cardinality(Undocumented \cup {b}) \in Nat
      BY <3>1, FS_AddElement, FS_CardinalityType
    <3>4. /\ Cardinality(Undocumented') \in Nat
          /\ Cardinality(Undocumented') <= Cardinality(Undocumented) + 1
      BY <3>1, <3>2, <3>3, FS_Subset, FS_CardinalityType
    <3>5. nDocs + Cardinality(Undocumented) <= nBoxes + MaxBoxes * nBoots
      BY <1>1 DEF Documented
    <3> HIDE DEF Undocumented
    <3>6. ASSUME NEW p \in Nat, NEW q \in Nat, NEW r \in Nat,
                 q <= p + 1, nDocs + p <= nBoxes + r
          PROVE  nDocs + q <= b + r
      BY <1>2, <1>3, <3>6 DEF b
    <3> QED
      BY <1>2, <1>3, <3>1, <3>4, <3>5, <3>6
  <2>2. \A k \in Boxes : mailBox'[k].doc <= nDocs'
    BY <1>1, <1>3, <1>4, <1>7 DEF Documented
  <2>3. \A k \in Handlers : Waits(k)' /\ mailBox'[getting'[k].box].doc = 0 =>
          mailBox'[getting'[k].box].db = NoDoc
    BY <1>1, <1>4, <1>6, <1>7, <1>9, <1>10 DEF Documented
  <2> QED
    BY <1>1, <1>2, <2>1, <2>2, <2>3 DEF Documented
<1>13. ASSUME ~mishap' PROVE Whole'
  <2>1. Whole
    BY <1>1, <1>13
  <2>2. \A k \in Boxes : mailBox'[k].timer = "none"
    BY <1>2, <1>4, <1>7, <2>1 DEF Whole
  <2>3. x.db = mailDoc[1] /\ (x.doc # 0 => mailDoc[x.doc] = x.db)
    <3>1. nDocs = 0 => mailDoc[1] = NoDoc
      BY <1>1, <1>3 DEF Documented
    <3> QED
      BY <1>4, <3>1
  <2>4. \A k \in Handlers : Waits(k)' =>
          LET y == mailBox'[getting'[k].box]
          IN  y.db = mailDoc'[1] /\ (y.doc # 0 => mailDoc'[y.doc] = y.db)
    BY <1>6, <1>7, <1>9, <1>10, <2>1, <2>3 DEF Whole
  <2>5. \A k \in Boxes : Live(k)' <=> Live(k) \/ k = b
    BY <1>2, <1>6, <1>7, <1>9 DEF Live
  <2>6. \A k \in Boxes : Live(k)' /\ mailBox'[k].doc # 1 /\ nDocs' # 0 =>
          \E l \in Boxes : Live(l)' /\ mailBox'[l].doc = 1
    <3>1. ~Live(b)
      BY <1>2, <1>10 DEF Live
    <3> QED
      BY <1>2, <1>4, <1>7, <2>1, <2>5, <3>1 DEF Whole
  <2>7. Added' = Added
    <3>1. \A k \in Handlers, m \in Nat :
            Sends(k, m)' <=> Sends(k, m) \/ (k = h /\ for = "send" /\ m = n)
      BY <1>6, <1>7, <1>9 DEF Sends
    <3>2. for = "send" => \A m \in 1 .. nMails : m # n
      BY <1>3
    <3> QED
      BY <1>3, <3>1, <3>2 DEF Added
  <2>8. Content(Current, given, Added)'
    BY <1>2, <2>1, <2>7 DEF Whole, Content, Current
  <2> QED
    BY <1>2, <2>2, <2>4, <2>6, <2>8 DEF Whole, Unsaved
<1> QED
  BY <1>8, <1>11, <1>12, <1>13 DEF MailInv

\* What every waiting handler has.
LEMMA WaitingBox ==
  ASSUME MailInv, NEW h \in Handlers, Waits(h)
  PROVE  /\ getting[h] \in Waiting /\ getting[h].box \in Boxes /\ getting[h].box # listed
         /\ getting[h].box \in 1 .. nBoxes /\ mailBox[getting[h].box] \in Box
         /\ Does(getting[h].for, getting[h].n) /\ getting[h].n \in 0 .. MaxMails
<1>1. Typed /\ Separate
  BY DEF MailInv
<1>2. getting[h].box \in 1 .. nBoxes /\ getting[h].box # listed /\ getting[h] \in Waiting
  BY <1>1 DEF Separate, Typed
<1>3. getting[h].box \in Boxes
  BY <1>1, <1>2, MailAssumption DEF Typed, Boxes
<1>4. getting[h].n \in 0 .. MaxMails /\ Does(getting[h].for, getting[h].n)
  BY <1>1, <1>2 DEF Waiting, Separate
<1> QED
  BY <1>1, <1>2, <1>3, <1>4 DEF Typed

LEMMA BoxInserted ==
  ASSUME MailInv, NEW h \in Handlers, InsertBox(h)
  PROVE  MailInv'
<1>1. Typed /\ Separate /\ Documented /\ (~mishap => Whole)
  BY DEF MailInv
<1> DEFINE b == getting[h].box
           x == mailBox[b]
<1>2. /\ Waits(h) /\ b \in Boxes /\ b # listed /\ b \in 1 .. nBoxes /\ x \in Box /\ x.doc = 0
      /\ getting[h] \in Waiting
  <2>1. Waits(h) /\ x.doc = 0
    BY DEF InsertBox, Waits
  <2> QED
    BY <2>1, WaitingBox
<1>3. nDocs + 1 \in Docs /\ 1 \in Docs /\ nDocs \in Nat /\ MaxBoxes * nBoots \in Nat
  <2>1. b \in Undocumented
    BY <1>2 DEF Undocumented
  <2> QED
    BY <1>1, <2>1, Room DEF Typed
<1>4. mailDoc[nDocs + 1] = NoDoc /\ x.db = NoDoc
  BY <1>1, <1>2, <1>3 DEF Documented
<1> DEFINE y == [x EXCEPT !.doc = nDocs + 1]
           w == [getting[h] EXCEPT !.at = "insert"]
<1>5. /\ nDocs' = nDocs + 1 /\ mailBox' = [mailBox EXCEPT ![b] = y]
      /\ getting' = [getting EXCEPT ![h] = w]
      /\ UNCHANGED <<nBoxes, listed, mailDoc, nMails, given, mailPhase, nBoots, mishap>>
  BY <1>1, <1>2 DEF InsertBox, Typed
<1>6. y \in Box /\ y.doc = nDocs + 1 /\ y.db = x.db /\ y.timer = x.timer
  BY <1>2, <1>3 DEF Box
<1>7. /\ w \in Waiting /\ w.at = "insert" /\ w.box = b
      /\ w.for = getting[h].for /\ w.n = getting[h].n
  BY <1>2 DEF Waiting
<1> HIDE DEF b, x, y, w
<1>8. /\ mailBox'[b] = y /\ \A k \in Boxes : k # b => mailBox'[k] = mailBox[k]
      /\ getting'[h] = w /\ \A k \in Handlers : k # h => getting'[k] = getting[k]
  BY <1>1, <1>2, <1>5 DEF Typed
<1>9. Typed'
  <2>1. mailBox' \in [Boxes -> Box]
    BY <1>1, <1>5, <1>6 DEF Typed
  <2>2. getting' \in [Handlers -> Waiting]
    BY <1>1, <1>5, <1>7 DEF Typed
  <2> QED
    BY <1>1, <1>3, <1>5, <2>1, <2>2 DEF Typed
<1>10. /\ \A k \in Handlers : Waits(k)' <=> Waits(k)
       /\ \A k \in Handlers : /\ getting'[k].box = getting[k].box
                              /\ getting'[k].for = getting[k].for /\ getting'[k].n = getting[k].n
       /\ \A k \in Handlers : Waits(k) /\ k # h => getting[k].box # b
       /\ \A k \in Handlers : Waits(k) => getting[k].box \in Boxes
  <2>1. Waits(h)'
    BY <1>7, <1>8 DEF Waits
  <2>2. \A k \in Handlers : Waits(k)' <=> Waits(k)
    BY <1>2, <1>8, <2>1 DEF Waits
  <2>3. \A k \in Handlers : Waits(k) /\ k # h => getting[k].box # b
    BY <1>1, <1>2 DEF Separate, b
  <2>4. \A k \in Handlers : /\ getting'[k].box = getting[k].box
                            /\ getting'[k].for = getting[k].for /\ getting'[k].n = getting[k].n
    BY <1>7, <1>8 DEF b
  <2> QED
    BY <2>2, <2>3, <2>4, WaitingBox
<1>11. Separate'
  <2>1. \A k \in Handlers : ~Waits(k) => getting'[k] = NotGetting
    BY <1>1, <1>2, <1>8 DEF Separate
  <2> QED
    BY <1>1, <1>5, <1>10, <2>1 DEF Separate
<1>12. Documented'
  <2>1. nDocs' + Cardinality(Undocumented') <= nBoxes' + MaxBoxes * nBoots'
    <3>1. IsFiniteSet(Undocumented) /\ Cardinality(Undocumented) \in Nat
      BY <1>1, Room
    <3>2. Undocumented' = Undocumented \ {b} /\ b \in Undocumented
      <4>1. \A k \in 1 .. nBoxes : k \in Boxes
        BY <1>1, MailAssumption DEF Typed, Boxes
      <4>2. y.doc # 0
        BY <1>3, <1>6
      <4>3. mailBox[b].doc = 0
        BY <1>2 DEF x
      <4> QED
        BY <1>2, <1>5, <1>8, <4>1, <4>2, <4>3 DEF Undocumented
    <3>3. Cardinality(Undocumented') = Cardinality(Undocumented) - 1
      BY <3>1, <3>2, FS_RemoveElement
    <3>4. nDocs + Cardinality(Undocumented) <= nBoxes + MaxBoxes * nBoots
      BY <1>1 DEF Documented
    <3>5. nBoxes \in Nat
      BY <1>1 DEF Typed
    <3> HIDE DEF Undocumented
    <3>6. ASSUME NEW p \in Nat, NEW r \in Nat, nDocs + p <= nBoxes + r
          PROVE  nDocs + 1 + (p - 1) <= nBoxes + r
      BY <1>3, <3>5, <3>6
    <3> QED
      BY <1>3, <1>5, <3>1, <3>3, <3>4, <3>6
  <2>2. \A k \in Boxes : mailBox'[k].doc <= nDocs'
    <3>1. \A k \in Boxes : mailBox[k].doc \in Nat /\ mailBox[k].doc <= nDocs
      BY <1>1 DEF Documented, Typed, Box
    <3> QED
      BY <1>3, <1>5, <1>6, <1>8, <3>1
  <2>3. \A d \in Docs : d > nDocs' => mailDoc'[d] = NoDoc
    <3>1. \A d \in Docs : d \in Nat
      BY MailAssumption DEF Docs
    <3> QED
      BY <1>1, <1>3, <1>5, <3>1 DEF Documented
  <2>4. ASSUME NEW k \in Handlers, Waits(k), mailBox'[getting[k].box].doc = 0
        PROVE  mailBox'[getting[k].box].db = NoDoc
    <3>1. CASE getting[k].box = b
      BY <1>4, <1>6, <1>8, <3>1
    <3>2. CASE getting[k].box # b
      BY <1>1, <1>8, <1>10, <2>4, <3>2 DEF Documented
    <3> QED
      BY <3>1, <3>2
  <2>5. listed' # 0 => mailBox'[listed'].doc # 0
    BY <1>1, <1>2, <1>5, <1>8, MailAssumption DEF Documented, Typed, Boxes
  <2> QED
    BY <1>10, <2>1, <2>2, <2>3, <2>4, <2>5 DEF Documented
<1>13. ASSUME ~mishap' PROVE Whole'
  <2>1. Whole
    BY <1>1, <1>5, <1>13
  <2>2. listed # 0 => listed \in Boxes /\ mailBox'[listed] = mailBox[listed]
    BY <1>1, <1>2, <1>8, MailAssumption DEF Typed, Boxes
  <2>3. \A k \in Boxes : k # listed => mailBox'[k].timer = "none"
    BY <1>2, <1>6, <1>8, <2>1 DEF Whole, x
  <2>4. listed = 0 => \A k \in Handlers : Waits(k) =>
          LET v == mailBox'[getting[k].box]
          IN  v.db = mailDoc[1] /\ (v.doc # 0 => mailDoc[v.doc] = v.db)
    <3> SUFFICES ASSUME listed = 0, NEW k \in Handlers, Waits(k)
                 PROVE  LET v == mailBox'[getting[k].box]
                        IN  v.db = mailDoc[1] /\ (v.doc # 0 => mailDoc[v.doc] = v.db)
      OBVIOUS
    <3>1. CASE k = h
      <4>1. x.db = mailDoc[1]
        BY <1>2, <2>1 DEF Whole, x, b
      <4> QED
        BY <1>4, <1>6, <1>8, <3>1, <4>1 DEF b
    <3>2. CASE k # h
      BY <1>8, <1>10, <2>1, <3>2 DEF Whole
    <3> QED
      BY <3>1, <3>2
  <2>5. \A k \in Boxes : Live(k)' <=> Live(k)
    BY <1>5, <1>10 DEF Live
  <2>6. \A k \in Boxes : Live(k) /\ mailBox'[k].doc # 1 /\ nDocs' # 0 =>
          \E l \in Boxes : Live(l) /\ mailBox'[l].doc = 1
    <3>1. Live(b)
      BY <1>2 DEF Live, b
    <3>2. mailBox[b].doc = 0
      BY <1>2 DEF x
    <3>3. CASE nDocs = 0
      BY <1>2, <1>6, <1>8, <3>1, <3>3
    <3>4. CASE nDocs # 0
      <4>1. PICK l \in Boxes : Live(l) /\ mailBox[l].doc = 1
        BY <1>2, <2>1, <3>1, <3>2, <3>4 DEF Whole
      <4>2. l # b
        BY <3>2, <4>1
      <4> QED
        BY <1>8, <4>1, <4>2
    <3> QED
      BY <3>3, <3>4
  <2>7. Added' = Added
    BY <1>5, <1>10 DEF Added, Sends
  <2>8. Content(Current, given, Added)'
    BY <1>5, <2>1, <2>2, <2>7 DEF Whole, Content, Current
  <2>9. Unsaved' => mailBox'[listed].timer = "runs" \/ mailBox'[listed].late
    BY <1>5, <2>1, <2>2 DEF Whole, Unsaved
  <2> QED
    BY <1>5, <1>10, <2>3, <2>4, <2>5, <2>6, <2>8, <2>9 DEF Whole
<1> QED
  BY <1>9, <1>11, <1>12, <1>13 DEF MailInv

LEMMA BoxListed ==
  ASSUME MailInv, NEW h \in Handlers, ListBox(h)
  PROVE  MailInv'
<1>1. Typed /\ Separate /\ Documented /\ (~mishap => Whole)
  BY DEF MailInv
<1> DEFINE g == getting[h]
           b == g.box
           x == mailBox[b]
           y == mailBox'[b]
<1>2. /\ Waits(h) /\ g \in Waiting /\ b \in Boxes /\ b # listed /\ b \in 1 .. nBoxes /\ x \in Box
      /\ Does(g.for, g.n) /\ x.doc # 0
  <2>1. Waits(h) /\ x.doc # 0
    BY DEF ListBox, Waits
  <2> QED
    BY <2>1, WaitingBox
<1>3. /\ listed' = b /\ mishap' = (mishap \/ listed # 0) /\ Use(b, x, g.for, g.n)
      /\ getting' = [getting EXCEPT ![h] = NotGetting]
      /\ UNCHANGED <<nBoxes, mailDoc, nDocs, nMails, mailPhase, nBoots>>
  BY DEF ListBox, store
<1> HIDE DEF g, x, y
<1>4. /\ mailBox' \in [Boxes -> Box] /\ y.doc = x.doc
      /\ \A k \in Boxes : k # b => mailBox'[k] = mailBox[k]
      /\ y = x \/ y.timer = "runs" \/ y.late
      /\ given' \in [Mails -> Nat]
  <2>1. /\ mailBox' \in [Boxes -> Box] /\ mailBox'[b].doc = x.doc
        /\ \A k \in Boxes : k # b => mailBox'[k] = mailBox[k]
        /\ mailBox'[b] = x \/ mailBox'[b].timer = "runs" \/ mailBox'[b].late
        /\ given' \in [Mails -> Nat]
    <3> HIDE DEF b
    <3> QED
      BY <1>1, <1>2, <1>3, UseBox
  <2> QED
    BY <2>1 DEF y
<1>5. /\ getting'[h] = NotGetting /\ \A k \in Handlers : k # h => getting'[k] = getting[k]
      /\ getting' \in [Handlers -> Waiting] /\ NotGetting.at = "idle"
  <2>1. NotGetting \in Waiting
    BY MailAssumption DEF NotGetting, Waiting
  <2> QED
    BY <1>1, <1>3, <2>1 DEF Typed, NotGetting
<1>6. ~Waits(h)' /\ \A k \in Handlers : Waits(k)' <=> Waits(k) /\ k # h
  BY <1>5 DEF Waits
<1>7. \A k \in Handlers : Waits(k)' => getting[k].box # b /\ getting[k].box \in Boxes
                                       /\ getting[k].box \in 1 .. nBoxes
  BY <1>1, <1>2, <1>6, WaitingBox DEF Separate, g
<1> HIDE DEF b
<1>8. Typed'
  BY <1>1, <1>2, <1>3, <1>4, <1>5, MailAssumption DEF Typed
<1>9. Separate'
  <2>1. \A k \in Handlers : ~Waits(k)' => getting'[k] = NotGetting
    BY <1>1, <1>5, <1>6 DEF Separate
  <2> QED
    BY <1>1, <1>3, <1>5, <1>6, <1>7, <2>1 DEF Separate
<1>10. \A k \in Boxes : mailBox'[k].doc = mailBox[k].doc
  BY <1>4 DEF x, y
<1>11. Documented'
  <2>1. Undocumented' = Undocumented
    <3>1. \A k \in 1 .. nBoxes : k \in Boxes
      BY <1>1, MailAssumption DEF Typed, Boxes
    <3> QED
      BY <1>3, <1>10, <3>1 DEF Undocumented
  <2>2. \A k \in Handlers : Waits(k)' => getting'[k] = getting[k]
                                         /\ mailBox'[getting[k].box] = mailBox[getting[k].box]
    BY <1>4, <1>5, <1>6, <1>7
  <2>3. \A k \in Handlers : Waits(k)' /\ mailBox'[getting'[k].box].doc = 0 =>
          mailBox'[getting'[k].box].db = NoDoc
    BY <1>1, <1>6, <2>2 DEF Documented
  <2>4. mailBox'[listed'].doc # 0
    BY <1>2, <1>3, <1>10 DEF x
  <2> QED
    BY <1>1, <1>3, <1>10, <2>1, <2>3, <2>4 DEF Documented
<1>12. ASSUME ~mishap' PROVE Whole'
  <2>1. Whole /\ listed = 0
    BY <1>1, <1>3, <1>12
  <2>2. \A k \in Boxes : k # listed' => mailBox'[k].timer = "none"
    BY <1>2, <1>3, <1>4, <2>1, MailAssumption DEF Whole, Boxes
  <2>3. listed' # 0
    BY <1>2, <1>3
  <2>4. \A k \in Boxes : Live(k)' <=> Live(k)
    <3>1. b = getting[h].box
      BY DEF b, g
    <3> QED
      BY <1>2, <1>3, <1>5, <1>6, <2>1, <2>3, <3>1 DEF Live
  <2>5. x.db = mailDoc[1] /\ mailDoc[x.doc] = x.db
    BY <1>2, <2>1 DEF Whole, x, b, g
  <2>6. Unsaved' => y.timer = "runs" \/ y.late
    BY <1>3, <1>4, <2>5 DEF Unsaved, y
  <2>7. Content(x.db, given, Added) /\ Current' = y.db
    BY <1>3, <2>1, <2>3, <2>5 DEF Whole, Current, y
  <2>8. Content(Current, given, Added)'
    <3> DEFINE A == Added
    <3>1. A \in SUBSET Mails /\ Content(x.db, given, A)
      BY <1>1, <2>7, AddedMails
    <3> HIDE DEF A
    <3>2. /\ g.for = "send" /\ g.n \notin A => Content(mailBox'[b].db, given', A \cup {g.n})
          /\ g.for # "send" => Content(mailBox'[b].db, given', A)
      BY <1>1, <1>2, <1>3, <3>1, UseContent
    <3>3. \A k \in Handlers : k # h => (\A m : Sends(k, m)' <=> Sends(k, m))
      BY <1>5, <1>6 DEF Sends
    <3>4. \A m : ~Sends(h, m)'
      BY <1>6 DEF Sends
    <3>5. CASE g.for = "send"
      <4>1. \A m : Sends(h, m) <=> m = g.n
        BY <1>2, <3>5 DEF Sends, g
      <4>2. \A k \in Handlers : k # h => ~Sends(k, g.n)
        BY <1>1, <1>2, <3>5 DEF Separate, Sends, g
      <4>3. g.n \in 1 .. nMails
        <5>1. g.n \in Mails /\ g.n <= nMails
          BY <1>1, <1>2, <3>5 DEF Separate, Does, g
        <5> QED
          BY <1>1, <5>1, MailAssumption DEF Mails, Typed
      <4>4. Added' = Added \cup {g.n} /\ g.n \notin Added
        BY <1>2, <1>3, <3>3, <3>4, <4>1, <4>2, <4>3 DEF Added
      <4>5. Content(y.db, given', Added \cup {g.n})
        BY <3>2, <3>5, <4>4 DEF A, y
      <4> QED
        BY <2>7, <4>4, <4>5 DEF Content
    <3>6. CASE g.for # "send"
      <4>1. Added' = Added
        BY <1>3, <3>3, <3>4, <3>6 DEF Added, Sends, g
      <4>2. Content(y.db, given', Added)
        BY <3>2, <3>6 DEF A, y
      <4> QED
        BY <2>7, <4>1, <4>2 DEF Content
    <3> QED
      BY <3>5, <3>6
  <2>9. \A k \in Boxes : Live(k)' /\ mailBox'[k].doc # 1 /\ nDocs' # 0 =>
          \E l \in Boxes : Live(l)' /\ mailBox'[l].doc = 1
    BY <1>3, <1>10, <2>1, <2>4 DEF Whole
  <2> QED
    BY <1>3, <2>2, <2>3, <2>6, <2>8, <2>9 DEF Whole, y
<1> QED
  BY <1>8, <1>9, <1>11, <1>12 DEF MailInv

\* The document of a box is written.
LEMMA DocOfBox ==
  ASSUME MailInv, NEW b \in Boxes
  PROVE  /\ [mailDoc EXCEPT ![mailBox[b].doc] = mailBox[b].db] \in [Docs -> MailDoc]
         /\ mailBox[b].doc # 0 =>
              /\ mailBox[b].doc \in Docs
              /\ [mailDoc EXCEPT ![mailBox[b].doc] = mailBox[b].db][mailBox[b].doc] = mailBox[b].db
         /\ \A d \in Docs : d > nDocs =>
              [mailDoc EXCEPT ![mailBox[b].doc] = mailBox[b].db][d] = NoDoc
<1>1. Typed /\ Documented
  BY DEF MailInv
<1> DEFINE x == mailBox[b]
<1>2. x \in Box /\ x.db \in MailDoc /\ x.doc \in Nat /\ mailDoc \in [Docs -> MailDoc]
  BY <1>1 DEF Typed, Box
<1>3. x.doc # 0 => x.doc \in Docs
  <2>1. x.doc <= nDocs /\ nDocs \in Nat
    BY <1>1 DEF Documented, Typed
  <2>2. nDocs <= MaxBoxes * (nBoots + 1) /\ nBoots \in Nat /\ nBoots <= MaxBoots
    BY <1>1, Room DEF Typed
  <2>3. \A p, q, r \in Nat : q <= r => p * (q + 1) <= p * (r + 1) /\ p * (q + 1) \in Nat
                                       /\ p * (r + 1) \in Nat
    OBVIOUS
  <2>4. /\ MaxBoxes * (nBoots + 1) <= MaxBoxes * (MaxBoots + 1)
        /\ MaxBoxes * (nBoots + 1) \in Nat /\ MaxBoxes * (MaxBoots + 1) \in Nat
    BY <2>2, <2>3, MailAssumption
  <2> QED
    BY <1>2, <2>1, <2>2, <2>4 DEF Docs
<1>4. \A d \in Docs : d > nDocs => mailDoc[d] = NoDoc /\ d # x.doc
  <2>1. x.doc <= nDocs /\ nDocs \in Nat /\ \A d \in Docs : d \in Nat
    BY <1>1, MailAssumption DEF Documented, Typed, Docs
  <2> QED
    BY <1>1, <1>2, <2>1 DEF Documented
<1> HIDE DEF x
<1>5. /\ [mailDoc EXCEPT ![x.doc] = x.db] \in [Docs -> MailDoc]
      /\ x.doc # 0 =>
           x.doc \in Docs /\ [mailDoc EXCEPT ![x.doc] = x.db][x.doc] = x.db
      /\ \A d \in Docs : d > nDocs => [mailDoc EXCEPT ![x.doc] = x.db][d] = NoDoc
  BY <1>2, <1>3, <1>4
<1> QED
  BY <1>5 DEF x

\* Whatever only the timers and the documents of listed boxes tell apart.
LEMMA SavesKeep ==
  ASSUME MailInv,
         mailBox' \in [Boxes -> Box], mailDoc' \in [Docs -> MailDoc],
         \A k \in Boxes : mailBox'[k].doc = mailBox[k].doc /\ mailBox'[k].db = mailBox[k].db,
         \A d \in Docs : d > nDocs => mailDoc'[d] = NoDoc,
         mailPhase' \in {"runs", "exits"},
         UNCHANGED <<nBoxes, listed, getting, nDocs, nMails, given, nBoots, mishap>>
  PROVE  /\ Typed' /\ Separate' /\ Documented' /\ Added' = Added
         /\ \A k \in Boxes : Live(k)' <=> Live(k)
<1>1. Typed /\ Separate /\ Documented
  BY DEF MailInv
<1>2. Typed'
  BY <1>1 DEF Typed
<1>3. \A h \in Handlers : Waits(h)' <=> Waits(h)
  BY DEF Waits
<1>4. Separate'
  BY <1>1, <1>3 DEF Separate
<1>5. Undocumented' = Undocumented
  <2>1. \A k \in 1 .. nBoxes : k \in Boxes
    BY <1>1, MailAssumption DEF Typed, Boxes
  <2> QED
    BY <2>1 DEF Undocumented
<1>6. Documented'
  <2>1. \A h \in Handlers : Waits(h) => getting[h].box \in Boxes
    BY WaitingBox
  <2>2. listed # 0 => listed \in Boxes
    BY <1>1, MailAssumption DEF Typed, Boxes
  <2> QED
    BY <1>1, <1>3, <1>5, <2>1, <2>2 DEF Documented
<1>7. Added' = Added
  BY <1>3 DEF Added, Sends
<1>8. \A k \in Boxes : Live(k)' <=> Live(k)
  BY <1>3 DEF Live
<1> QED
  BY <1>2, <1>4, <1>6, <1>7, <1>8

LEMMA BoxWritten ==
  ASSUME MailInv, NEW b \in Boxes, SaveBox(b)
  PROVE  MailInv'
<1>1. Typed /\ Separate /\ Documented /\ (~mishap => Whole)
  BY DEF MailInv
<1> DEFINE x == mailBox[b]
           y == [x EXCEPT !.timer = "saving", !.late = FALSE]
<1>2. /\ x \in Box /\ x.timer = "runs" /\ mailBox' = [mailBox EXCEPT ![b] = y]
      /\ mailDoc' = [mailDoc EXCEPT ![x.doc] = x.db]
      /\ UNCHANGED <<nBoxes, listed, getting, nDocs, nMails, given, mailPhase, nBoots, mishap>>
  BY <1>1 DEF SaveBox, Typed
<1>3. y \in Box /\ y.doc = x.doc /\ y.db = x.db
  BY <1>2 DEF Box
<1>4. /\ mailDoc' \in [Docs -> MailDoc] /\ (x.doc # 0 => mailDoc'[x.doc] = x.db)
      /\ \A d \in Docs : d > nDocs => mailDoc'[d] = NoDoc
  BY <1>2, DocOfBox
<1> HIDE DEF x, y
<1>5. /\ mailBox' \in [Boxes -> Box] /\ mailBox'[b] = y
      /\ \A k \in Boxes : k # b => mailBox'[k] = mailBox[k]
  BY <1>1, <1>2, <1>3 DEF Typed
<1>6. \A k \in Boxes : mailBox'[k].doc = mailBox[k].doc /\ mailBox'[k].db = mailBox[k].db
  BY <1>3, <1>5 DEF x
<1>7. /\ Typed' /\ Separate' /\ Documented' /\ Added' = Added
      /\ \A k \in Boxes : Live(k)' <=> Live(k)
  BY <1>1, <1>2, <1>4, <1>5, <1>6, SavesKeep DEF Typed
<1>8. ASSUME ~mishap' PROVE Whole'
  <2>1. Whole /\ listed = b /\ listed # 0
    BY <1>1, <1>2, <1>8, MailAssumption DEF Whole, x, Boxes
  <2>2. x.doc # 0
    BY <1>1, <2>1 DEF Documented, x
  <2>3. ~Unsaved'
    BY <1>2, <1>4, <1>6, <2>1, <2>2 DEF Unsaved, x
  <2>4. \A k \in Boxes : k # listed => mailBox'[k].timer = "none"
    BY <1>5, <2>1 DEF Whole
  <2>5. Content(Current, given, Added)'
    BY <1>2, <1>6, <1>7, <2>1 DEF Whole, Content, Current
  <2>6. \A k \in Boxes : Live(k)' /\ mailBox'[k].doc # 1 /\ nDocs' # 0 =>
          \E l \in Boxes : Live(l)' /\ mailBox'[l].doc = 1
    BY <1>2, <1>6, <1>7, <2>1 DEF Whole
  <2> QED
    BY <1>2, <2>1, <2>3, <2>4, <2>5, <2>6 DEF Whole
<1> QED
  BY <1>7, <1>8 DEF MailInv

LEMMA BoxSaveEnds ==
  ASSUME MailInv, NEW b \in Boxes, BoxSaved(b)
  PROVE  MailInv'
<1>1. Typed /\ Separate /\ Documented /\ (~mishap => Whole)
  BY DEF MailInv
<1> DEFINE x == mailBox[b]
           y == [x EXCEPT !.timer = "none"]
<1>2. /\ x \in Box /\ x.timer = "saving" /\ mailBox' = [mailBox EXCEPT ![b] = y]
      /\ UNCHANGED <<nBoxes, listed, getting, mailDoc, nDocs, nMails, given, mailPhase, nBoots,
                     mishap>>
  BY <1>1 DEF BoxSaved, Typed, store
<1>3. y \in Box /\ y.doc = x.doc /\ y.db = x.db /\ y.late = x.late
  BY <1>2 DEF Box
<1> HIDE DEF x, y
<1>4. /\ mailBox' \in [Boxes -> Box] /\ mailBox'[b] = y
      /\ \A k \in Boxes : k # b => mailBox'[k] = mailBox[k]
  BY <1>1, <1>2, <1>3 DEF Typed
<1>5. \A k \in Boxes : mailBox'[k].doc = mailBox[k].doc /\ mailBox'[k].db = mailBox[k].db
  BY <1>3, <1>4 DEF x
<1>6. /\ Typed' /\ Separate' /\ Documented' /\ Added' = Added
      /\ \A k \in Boxes : Live(k)' <=> Live(k)
  BY <1>1, <1>2, <1>4, <1>5, SavesKeep DEF Typed, Documented
<1>7. ASSUME ~mishap' PROVE Whole'
  <2>1. Whole /\ listed = b /\ listed # 0
    BY <1>1, <1>2, <1>7, MailAssumption DEF Whole, x, Boxes
  <2>2. Unsaved' => mailBox'[listed].late
    BY <1>2, <1>3, <1>4, <1>5, <2>1 DEF Whole, Unsaved, x
  <2>3. \A k \in Boxes : k # listed => mailBox'[k].timer = "none"
    BY <1>4, <2>1 DEF Whole
  <2>4. Content(Current, given, Added)'
    BY <1>2, <1>5, <1>6, <2>1 DEF Whole, Content, Current
  <2>5. \A k \in Boxes : Live(k)' /\ mailBox'[k].doc # 1 /\ nDocs' # 0 =>
          \E l \in Boxes : Live(l)' /\ mailBox'[l].doc = 1
    BY <1>2, <1>5, <1>6, <2>1 DEF Whole
  <2> QED
    BY <1>2, <2>1, <2>2, <2>3, <2>4, <2>5 DEF Whole
<1> QED
  BY <1>6, <1>7 DEF MailInv

LEMMA AllSaved ==
  ASSUME MailInv, SaveAll
  PROVE  MailInv'
<1>1. Typed /\ Separate /\ Documented /\ (~mishap => Whole)
  BY DEF MailInv
<1> DEFINE saves == listed # 0 /\ mailBox[listed].timer # "none"
<1>2. /\ saves => mailDoc' = [mailDoc EXCEPT ![mailBox[listed].doc] = mailBox[listed].db]
      /\ ~saves => mailDoc' = mailDoc
      /\ mailPhase' = "exits"
      /\ UNCHANGED <<mailBox, nBoxes, listed, getting, nDocs, nMails, given, nBoots, mishap>>
  BY DEF SaveAll, boxes
<1>3. listed # 0 => listed \in Boxes /\ mailBox[listed].doc # 0
  BY <1>1, MailAssumption DEF Typed, Documented, Boxes
<1>4. /\ mailDoc' \in [Docs -> MailDoc]
      /\ \A d \in Docs : d > nDocs => mailDoc'[d] = NoDoc
      /\ saves => mailDoc'[mailBox[listed].doc] = mailBox[listed].db
  <2>1. CASE saves
    BY <1>2, <1>3, <2>1, DocOfBox
  <2>2. CASE ~saves
    BY <1>1, <1>2, <2>2 DEF Typed, Documented
  <2> QED
    BY <2>1, <2>2
<1>5. /\ Typed' /\ Separate' /\ Documented' /\ Added' = Added
      /\ \A k \in Boxes : Live(k)' <=> Live(k)
  BY <1>1, <1>2, <1>4, SavesKeep DEF Typed
<1>6. ASSUME ~mishap' PROVE Whole'
  <2>1. Whole
    BY <1>1, <1>2, <1>6
  <2>2. Unsaved' => Unsaved
    BY <1>2, <1>4 DEF Unsaved
  <2>3. Content(Current, given, Added)'
    BY <1>2, <1>5, <2>1 DEF Whole, Content, Current
  <2>4. \A k \in Boxes : Live(k)' /\ mailBox'[k].doc # 1 /\ nDocs' # 0 =>
          \E l \in Boxes : Live(l)' /\ mailBox'[l].doc = 1
    BY <1>2, <1>5, <2>1 DEF Whole
  <2>5. listed' = 0 => \A h \in Handlers : Waits(h)' =>
          LET x == mailBox'[getting'[h].box]
          IN  x.db = mailDoc'[1] /\ (x.doc # 0 => mailDoc'[x.doc] = x.db)
    BY <1>2, <2>1 DEF Whole, Waits
  <2> QED
    BY <1>2, <2>1, <2>2, <2>3, <2>4, <2>5 DEF Whole
<1> QED
  BY <1>5, <1>6 DEF MailInv

LEMMA Rebooted ==
  ASSUME MailInv, Reboot
  PROVE  MailInv'
<1>1. Typed /\ Separate /\ Documented /\ (~mishap => Whole)
  BY DEF MailInv
<1>2. /\ mailBox' = [k \in Boxes |-> NewBox] /\ nBoxes' = 0 /\ listed' = 0
      /\ getting' = [h \in Handlers |-> NotGetting]
      /\ mailPhase' = "runs" /\ nBoots' = nBoots + 1 /\ nBoots < MaxBoots
      /\ mishap' = (mishap \/ Unsaved \/ \E h \in Handlers : getting[h] # NotGetting)
      /\ UNCHANGED <<mailDoc, nDocs, nMails, given>>
  BY DEF Reboot, store
<1>3. NewBox \in Box /\ NotGetting \in Waiting /\ NewBox.doc = 0 /\ NewBox.timer = "none"
      /\ NotGetting.at = "idle"
  <2>1. NoDoc \in MailDoc
    BY MailAssumption DEF NoDoc, MailDoc
  <2> QED
    BY <2>1, MailAssumption DEF NewBox, Box, NotGetting, Waiting
<1>4. Typed'
  <2>1. 0 \in 0 .. MaxBoxes /\ nBoots + 1 \in 0 .. MaxBoots /\ mishap' \in BOOLEAN
    BY <1>1, <1>2, MailAssumption DEF Typed
  <2> QED
    BY <1>1, <1>2, <1>3, <2>1 DEF Typed
<1>5. \A h \in Handlers : ~Waits(h)' /\ getting'[h] = NotGetting
  BY <1>2, <1>3 DEF Waits
<1>6. Separate'
  BY <1>5 DEF Separate
<1>7. Documented'
  <2>1. Undocumented' = {}
    BY <1>2 DEF Undocumented
  <2>2. nDocs <= MaxBoxes * (nBoots + 1) /\ nDocs \in Nat
    BY <1>1, Room DEF Typed
  <2>3. \A k \in Boxes : mailBox'[k].doc <= nDocs'
    BY <1>2, <1>3, <2>2
  <2>4. nDocs' + Cardinality(Undocumented') <= nBoxes' + MaxBoxes * nBoots'
    <3>1. MaxBoxes * (nBoots + 1) \in Nat
      BY <1>1, MailAssumption DEF Typed
    <3> QED
      BY <1>2, <2>1, <2>2, <3>1, FS_EmptySet
  <2> QED
    BY <1>1, <1>2, <1>5, <2>3, <2>4 DEF Documented
<1>8. ASSUME ~mishap' PROVE Whole'
  <2>1. Whole /\ ~Unsaved /\ \A h \in Handlers : getting[h] = NotGetting /\ ~Waits(h)
    BY <1>1, <1>2, <1>3, <1>8 DEF Waits
  <2>2. Current = mailDoc[1]
    <3>1. CASE listed = 0
      BY <3>1 DEF Current
    <3>2. CASE listed # 0
      <4>1. listed \in Boxes /\ mailBox[listed].doc # 0 /\ nDocs # 0
        BY <1>1, <3>2, MailAssumption DEF Typed, Documented, Boxes, Box
      <4>2. \A k \in Boxes : Live(k) <=> k = listed
        BY <2>1, <3>2 DEF Live
      <4>3. mailBox[listed].doc = 1
        BY <2>1, <4>1, <4>2 DEF Whole
      <4> QED
        BY <2>1, <3>2, <4>3 DEF Unsaved, Current
    <3> QED
      BY <3>1, <3>2
  <2>3. Added' = Added
    BY <1>2, <1>5, <2>1 DEF Added, Sends
  <2>4. Content(Current, given, Added)'
    BY <1>2, <2>1, <2>2, <2>3 DEF Whole, Content, Current
  <2>5. \A k \in Boxes : ~Live(k)'
    BY <1>2, <1>5 DEF Live
  <2>6. \A k \in Boxes : mailBox'[k].timer = "none"
    BY <1>2, <1>3
  <2> QED
    BY <1>2, <1>5, <2>4, <2>5, <2>6 DEF Whole, Unsaved
<1> QED
  BY <1>4, <1>6, <1>7, <1>8 DEF MailInv
-----------------------------------------------------------------------------
(* The invariant and the theorems.                                         *)

LEMMA MailInitially == MailInit => MailInv
<1> SUFFICES ASSUME MailInit PROVE MailInv
  OBVIOUS
<1>1. /\ NewBox \in Box /\ NewBox.doc = 0 /\ NewBox.timer = "none"
      /\ NotGetting \in Waiting /\ NotGetting.at = "idle"
      /\ NoDoc \in MailDoc /\ NoDoc.genId = 0 /\ \A i \in Mails : NoDoc.inbox[i] = 0
  <2>1. NoDoc \in MailDoc /\ NoDoc.genId = 0 /\ \A i \in Mails : NoDoc.inbox[i] = 0
    BY MailAssumption DEF NoDoc, MailDoc
  <2> QED
    BY <2>1, MailAssumption DEF NewBox, Box, NotGetting, Waiting
<1>2. Typed
  <2>1. mailBox \in [Boxes -> Box] /\ getting \in [Handlers -> Waiting]
    BY <1>1 DEF MailInit
  <2>2. mailDoc \in [Docs -> MailDoc]
    BY <1>1 DEF MailInit
  <2>3. given \in [Mails -> Nat]
    BY DEF MailInit
  <2>4. /\ nBoxes \in 0 .. MaxBoxes /\ listed \in 0 .. nBoxes /\ nDocs \in Nat
        /\ nMails \in 0 .. MaxMails /\ nBoots \in 0 .. MaxBoots
    BY MailAssumption DEF MailInit
  <2> QED
    BY <2>1, <2>2, <2>3, <2>4 DEF Typed, MailInit
<1>3. \A h \in Handlers : ~Waits(h) /\ getting[h] = NotGetting
  BY <1>1 DEF MailInit, Waits
<1>4. Separate
  BY <1>3 DEF Separate
<1>5. Documented
  <2>1. Undocumented = {}
    BY DEF MailInit, Undocumented
  <2>2. MaxBoxes * nBoots \in Nat
    BY <1>2, MailAssumption DEF Typed
  <2>3. nDocs + Cardinality(Undocumented) <= nBoxes + MaxBoxes * nBoots
    BY <2>1, <2>2, FS_EmptySet DEF MailInit
  <2> QED
    BY <1>1, <1>3, <2>3 DEF Documented, MailInit
<1>6. Whole
  <2>1. Added = {} /\ 1 \in Docs /\ Current = NoDoc
    <3>1. 1 \in Docs
      BY <1>2, <1>5, Room
    <3> QED
      BY <3>1 DEF Added, Current, MailInit
  <2>2. Content(Current, given, Added)
    <3>1. given = [m \in Mails |-> 0]
      BY DEF MailInit
    <3> QED
      BY <1>1, <2>1, <3>1, FS_EmptySet DEF Content
  <2> QED
    BY <1>1, <1>3, <2>2 DEF Whole, Unsaved, Live, MailInit
<1> QED
  BY <1>2, <1>4, <1>5, <1>6 DEF MailInv

\* A handler finds the box, or has to get it.
LEMMA Handled ==
  ASSUME MailInv, NEW h \in Handlers, NEW for, NEW n, Does(for, n), Handle(h, for, n),
         \/ for = "send" /\ n = nMails + 1 /\ nMails' = n
         \/ for # "send" /\ n \in 0 .. MaxMails /\ nMails' = nMails,
         UNCHANGED <<mailDoc, nDocs, mailPhase, nBoots, mishap>>
  PROVE  MailInv'
<1>1. CASE listed # 0
  <2>1. Use(listed, mailBox[listed], for, n) /\ UNCHANGED <<nBoxes, listed, getting>>
    BY <1>1 DEF Handle
  <2>2. \/ for = "send" /\ n = nMails + 1 /\ nMails' = n
        \/ for # "send" /\ nMails' = nMails
    OBVIOUS
  <2> QED
    BY <1>1, <2>1, <2>2, ListedUsed
<1>2. CASE listed = 0
  BY <1>2, BoxFound DEF Handle
<1> QED
  BY <1>1, <1>2

LEMMA MailStep == MailInv /\ [MailNext]_mailVars => MailInv'
<1> SUFFICES ASSUME MailInv, [MailNext]_mailVars PROVE MailInv'
  OBVIOUS
<1>1. ASSUME NEW h \in Handlers, SendMail(h) PROVE MailInv'
  <2>1. nMails \in 0 .. MaxMails
    BY DEF MailInv, Typed
  <2>2. /\ nMails + 1 \in Mails /\ nMails' = nMails + 1 /\ Handle(h, "send", nMails + 1)
        /\ UNCHANGED <<mailDoc, nDocs, mailPhase, nBoots, mishap>>
    BY <1>1, <2>1, MailAssumption DEF SendMail, Mails, store
  <2>3. Does("send", nMails + 1)
    BY <2>2 DEF Does
  <2> QED
    BY <2>2, <2>3, Handled
<1>2. ASSUME NEW h \in Handlers, NEW w \in Wanted, UseMail(h, w[1], w[2]) PROVE MailInv'
  <2>1. /\ Handle(h, w[1], w[2])
        /\ UNCHANGED <<nMails, mailDoc, nDocs, mailPhase, nBoots, mishap>>
    BY <1>2 DEF UseMail, store
  <2>2. w[1] \in {"take", "list"} /\ w[2] \in 0 .. MaxMails /\ Does(w[1], w[2])
    BY MailAssumption DEF Wanted, Does, Mails
  <2> QED
    BY <2>1, <2>2, Handled
<1>3. CASE UNCHANGED mailVars
  <2>1. UNCHANGED <<mailBox, nBoxes, listed, getting, mailDoc, nDocs, nMails, given, mailPhase,
                    nBoots, mishap>>
    BY <1>3 DEF mailVars, boxes, store
  <2>2. \A h \in Handlers : Waits(h)' <=> Waits(h)
    BY <2>1 DEF Waits
  <2>3. Undocumented' = Undocumented /\ Added' = Added /\ Current' = Current
    BY <2>1, <2>2 DEF Undocumented, Added, Sends, Current
  <2>4. \A b \in Boxes : Live(b)' <=> Live(b)
    BY <2>1, <2>2 DEF Live
  <2>5. Typed' /\ Separate' /\ Documented'
    BY <2>1, <2>2, <2>3 DEF MailInv, Typed, Separate, Documented
  <2>6. ~mishap => Whole'
    BY <2>1, <2>2, <2>3, <2>4 DEF MailInv, Whole, Unsaved, Content
  <2> QED
    BY <2>1, <2>5, <2>6 DEF MailInv
<1> QED
  BY <1>1, <1>2, <1>3, BoxInserted, BoxListed, BoxWritten, BoxSaveEnds, AllSaved, Rebooted
     DEF MailNext

LEMMA MailInvariant == MailSpec => []MailInv
  BY MailInitially, MailStep, PTL DEF MailSpec

(* The listed box differs from its document only while a save is to come,  *)
(* or after the change that MailBox.lua:21 forgets.                        *)
THEOREM SavedOrTimed == MailSpec => []BoxSavedOrTimed
<1>1. MailInv => BoxSavedOrTimed
  BY DEF MailInv, Whole, BoxSavedOrTimed
<1> QED
  BY <1>1, MailInvariant, PTL

(* The attachments of a mail are neither lost nor given twice by handlers, *)
(* saves, exits and crashes, unless two boxes of the account were listed   *)
(* or a process ended with a change unsaved (MailManager.lua:17).          *)
THEOREM AttachmentsOnce == MailSpec => []MailOnce
<1>1. MailInv => GivenOnce
  BY DEF MailInv, Whole, Content, GivenOnce
<1>2. MailInv => MailKept
  <2> SUFFICES ASSUME MailInv, ~mishap, NEW m \in 1 .. nMails, given[m] = 0,
                      \A h \in Handlers : ~(getting[h].for = "send" /\ getting[h].n = m)
               PROVE  \E i \in Mails :
                        (IF listed # 0 THEN mailBox[listed].db ELSE mailDoc[1]).inbox[i] = m
    BY DEF MailKept
  <2>1. m \in Added
    BY DEF Added, Sends
  <2>2. Content(Current, given, Added)
    BY DEF MailInv, Whole
  <2>3. \E i \in Mails : Current.inbox[i] = m
    BY <2>1, <2>2 DEF Content
  <2> QED
    BY <2>3 DEF Current
<1> QED
  BY <1>1, <1>2, MailInvariant, PTL DEF MailOnce
-----------------------------------------------------------------------------
(* The types.  Ids are bounded by the mails that were added, also when two *)
(* boxes of the account are listed after each other.                       *)
Sized ==
  /\ \A b \in Boxes : mailBox[b].db.genId <= Cardinality(Added)
  /\ \A d \in Docs : mailDoc[d].genId <= Cardinality(Added)

LEMMA AddedCount ==
  ASSUME Typed
  PROVE  /\ IsFiniteSet(Added) /\ Cardinality(Added) \in Nat /\ Cardinality(Added) <= MaxMails
         /\ \A b \in Boxes : mailBox[b].db.genId \in Nat
         /\ \A d \in Docs : mailDoc[d].genId \in Nat
<1>1. Added \in SUBSET Mails
  BY AddedMails
<1>2. \A b \in Boxes : mailBox[b].db.genId \in Nat
  BY DEF Typed, Box, MailDoc
<1>3. \A d \in Docs : mailDoc[d].genId \in Nat
  BY DEF Typed, MailDoc
<1> HIDE DEF Added
<1> QED
  BY <1>1, <1>2, <1>3, MailsCount

LEMMA AddedGrows ==
  ASSUME Typed, Typed', Added \subseteq Added'
  PROVE  /\ Cardinality(Added) \in Nat /\ Cardinality(Added') \in Nat
         /\ Cardinality(Added) <= Cardinality(Added')
<1>1. /\ IsFiniteSet(Added) /\ Cardinality(Added) \in Nat
      /\ IsFiniteSet(Added') /\ Cardinality(Added') \in Nat
  <2>1. Added' \in SUBSET Mails
    BY MailAssumption DEF Typed, Added, Mails
  <2> DEFINE A == Added'
  <2>2. A \in SUBSET Mails
    BY <2>1
  <2> HIDE DEF A
  <2>3. IsFiniteSet(A) /\ Cardinality(A) \in Nat
    BY <2>2, MailsCount
  <2> QED
    BY <2>3, AddedCount DEF A
<1> QED
  BY <1>1, FS_Subset

(* A step after which each id has a box or a document that had it before.  *)
LEMMA SizedKept ==
  ASSUME Typed, Typed', Sized, Added \subseteq Added',
         \A b \in Boxes : \/ mailBox'[b].db.genId = 0
                          \/ \E k \in Boxes : mailBox'[b].db.genId = mailBox[k].db.genId
                          \/ \E d \in Docs : mailBox'[b].db.genId = mailDoc[d].genId,
         \A d \in Docs : \/ \E k \in Boxes : mailDoc'[d].genId = mailBox[k].db.genId
                         \/ mailDoc'[d].genId = mailDoc[d].genId
  PROVE  Sized'
<1>1. /\ Cardinality(Added) \in Nat /\ Cardinality(Added') \in Nat
      /\ Cardinality(Added) <= Cardinality(Added')
  BY AddedGrows
<1>2. /\ \A b \in Boxes : mailBox[b].db.genId \in Nat
      /\ \A d \in Docs : mailDoc[d].genId \in Nat
  BY AddedCount
<1> HIDE DEF Added
<1>3. /\ \A b \in Boxes : mailBox[b].db.genId <= Cardinality(Added')
      /\ \A d \in Docs : mailDoc[d].genId <= Cardinality(Added')
  BY <1>1, <1>2 DEF Sized
<1> QED
  BY <1>1, <1>3 DEF Sized

(* A mail that a handler puts into a box.                                  *)
LEMMA SizedSend ==
  ASSUME Typed, Typed', Sized, NEW n, n \notin Added, Added' = Added \cup {n}, NEW b \in Boxes,
         mailBox'[b].db.genId = mailBox[b].db.genId + 1,
         \A k \in Boxes : k # b => mailBox'[k] = mailBox[k], UNCHANGED mailDoc
  PROVE  Sized'
<1>1. IsFiniteSet(Added) /\ Cardinality(Added) \in Nat /\ mailBox[b].db.genId \in Nat
      /\ (\A k \in Boxes : mailBox[k].db.genId \in Nat)
      /\ \A d \in Docs : mailDoc[d].genId \in Nat
  BY AddedCount
<1>2. Cardinality(Added') = Cardinality(Added) + 1
  BY <1>1, FS_AddElement
<1> HIDE DEF Added
<1>3. \A k \in Boxes : mailBox'[k].db.genId <= Cardinality(Added')
  BY <1>1, <1>2 DEF Sized
<1>4. \A d \in Docs : mailDoc'[d].genId <= Cardinality(Added')
  BY <1>1, <1>2 DEF Sized
<1> QED
  BY <1>3, <1>4 DEF Sized

LEMMA UsedGenId ==
  ASSUME Typed, NEW b \in Boxes, NEW for, NEW n, Does(for, n), Use(b, mailBox[b], for, n)
  PROVE  /\ \A k \in Boxes : k # b => mailBox'[k] = mailBox[k]
         /\ for = "send" => mailBox'[b].db.genId = mailBox[b].db.genId + 1
         /\ for # "send" => mailBox'[b].db.genId = mailBox[b].db.genId
<1> DEFINE x == mailBox[b]
<1>1. mailBox \in [Boxes -> Box] /\ x \in Box /\ x.db \in MailDoc
  BY DEF Typed, Box
<1> HIDE DEF x
<1>2. CASE for = "send"
  <2>1. mailBox' = [mailBox EXCEPT ![b] = WithMail(x, n)] /\ n \in Mails
    BY <1>2 DEF Use, Does, x
  <2>2. WithMail(x, n).db = [x.db EXCEPT !.genId = @ + 1, !.inbox[x.db.genId + 1] = n]
    BY <1>1, <2>1, WithMailBox
  <2>3. WithMail(x, n).db.genId = x.db.genId + 1
    BY <1>1, <2>2 DEF MailDoc
  <2> QED
    BY <1>1, <1>2, <2>1, <2>3 DEF x
<1>3. CASE for = "take"
  <2>1. mailBox' = [mailBox EXCEPT ![b] = WithoutMail(x, n)] /\ n \in Mails
    BY <1>3 DEF Use, Does, x
  <2>2. WithoutMail(x, n).db.genId = x.db.genId
    BY <1>1, <2>1, WithoutMailBox DEF MailDoc
  <2> QED
    BY <1>1, <1>3, <2>1, <2>2 DEF x
<1>4. CASE for = "list"
  <2>1. mailBox' = [mailBox EXCEPT ![b] = x]
    BY <1>4 DEF Use, x
  <2> QED
    BY <1>1, <1>4, <2>1 DEF x
<1> QED
  BY <1>2, <1>3, <1>4 DEF Does

(* A mail that is given to the listed box is added at once; one for which  *)
(* the box is looked for is added when the box is listed.                  *)
LEMMA AddedListed ==
  ASSUME Typed, Separate, UNCHANGED getting, NEW for,
         for = "send" => nMails' = nMails + 1,
         for # "send" => nMails' = nMails
  PROVE  /\ for = "send" => Added' = Added \cup {nMails + 1} /\ nMails + 1 \notin Added
         /\ for # "send" => Added' = Added
<1>1. nMails \in Nat /\ \A h \in Handlers : ~Sends(h, nMails + 1)
  <2>1. nMails \in Nat
    BY DEF Typed
  <2> QED
    BY <2>1 DEF Separate, Sends
<1>2. \A h \in Handlers : \A m : Sends(h, m)' <=> Sends(h, m)
  BY DEF Sends, Waits
<1> QED
  BY <1>1, <1>2 DEF Added

LEMMA AddedFound ==
  ASSUME Typed, NEW h \in Handlers, NEW for, NEW n, Find(h, for, n),
         \/ for = "send" /\ n = nMails + 1 /\ nMails' = n
         \/ for # "send" /\ nMails' = nMails
  PROVE  Added' = Added
<1> DEFINE w == [at |-> "find", box |-> nBoxes + 1, for |-> for, n |-> n]
<1>1. /\ getting' = [getting EXCEPT ![h] = w] /\ getting[h] = NotGetting /\ nMails \in Nat
      /\ getting \in [Handlers -> Waiting]
  BY DEF Find, Typed
<1>2. /\ getting'[h] = w /\ w.at = "find" /\ w.for = for /\ w.n = n
      /\ \A k \in Handlers : k # h => getting'[k] = getting[k]
  BY <1>1
<1> HIDE DEF w
<1>3. \A m : ~Sends(h, m) /\ (Sends(h, m)' <=> for = "send" /\ m = n)
  BY <1>1, <1>2 DEF Sends, Waits, NotGetting
<1>4. \A k \in Handlers : k # h => \A m : Sends(k, m)' <=> Sends(k, m)
  BY <1>2 DEF Sends, Waits
<1>5. for = "send" => \A m \in 1 .. nMails : m # n
  BY <1>1
<1>6. for = "send" => 1 .. nMails' = (1 .. nMails) \cup {n}
  BY <1>1
<1> QED
  BY <1>3, <1>4, <1>5, <1>6 DEF Added

LEMMA AddedInBox ==
  ASSUME Typed, Separate, NEW h \in Handlers, Waits(h), UNCHANGED nMails,
         getting' = [getting EXCEPT ![h] = NotGetting]
  PROVE  /\ getting[h].for = "send" => Added' = Added \cup {getting[h].n} /\ getting[h].n \notin Added
         /\ getting[h].for # "send" => Added' = Added
<1> DEFINE for == getting[h].for
           n == getting[h].n
<1>1. /\ getting'[h] = NotGetting /\ \A k \in Handlers : k # h => getting'[k] = getting[k]
  BY DEF Typed
<1>2. /\ \A m : ~Sends(h, m)' /\ (Sends(h, m) <=> for = "send" /\ m = n)
      /\ \A k \in Handlers : k # h => \A m : Sends(k, m)' <=> Sends(k, m)
  BY <1>1 DEF Sends, Waits, NotGetting
<1>3. for = "send" => \A k \in Handlers : k # h => ~Sends(k, n)
  BY DEF Separate, Sends
<1>4. for = "send" => n \in 1 .. nMails
  <2>1. for = "send" => n \in Mails /\ n <= nMails
    BY DEF Separate, Does
  <2>2. \A i \in Mails : i \in Nat /\ i >= 1
    BY MailAssumption DEF Mails
  <2> HIDE DEF n, for
  <2> QED
    BY <2>1, <2>2 DEF Typed
<1> HIDE DEF for, n
<1>5. for = "send" => Added' = Added \cup {n} /\ n \notin Added
  BY <1>2, <1>3, <1>4 DEF Added
<1>6. for # "send" => Added' = Added
  BY <1>2 DEF Added
<1> QED
  BY <1>5, <1>6 DEF for, n

(* A handler that has the box, or looks for it.                            *)
LEMMA SizedHandled ==
  ASSUME MailInv, Typed', Sized, NEW h \in Handlers, NEW for, NEW n, Does(for, n),
         Handle(h, for, n), UNCHANGED mailDoc,
         \/ for = "send" /\ n = nMails + 1 /\ nMails' = n
         \/ for # "send" /\ nMails' = nMails
  PROVE  Sized'
<1>1. Typed /\ Separate
  BY DEF MailInv
<1>2. CASE listed # 0
  <2>1. Use(listed, mailBox[listed], for, n) /\ UNCHANGED <<nBoxes, listed, getting>>
    BY <1>2 DEF Handle
  <2>2. listed \in Boxes
    BY <1>1, <1>2, MailAssumption DEF Typed, Boxes
  <2>3. /\ \A k \in Boxes : k # listed => mailBox'[k] = mailBox[k]
        /\ for = "send" => mailBox'[listed].db.genId = mailBox[listed].db.genId + 1
        /\ for # "send" => mailBox'[listed].db.genId = mailBox[listed].db.genId
    BY <1>1, <2>1, <2>2, UsedGenId
  <2>4. /\ for = "send" => Added' = Added \cup {nMails + 1} /\ nMails + 1 \notin Added
        /\ for # "send" => Added' = Added
    BY <1>1, <2>1, AddedListed
  <2>5. CASE for = "send"
    BY <1>1, <2>2, <2>3, <2>4, <2>5, SizedSend
  <2>6. CASE for # "send"
    <3>1. \A b \in Boxes : mailBox'[b].db.genId = mailBox[b].db.genId
      BY <2>3, <2>6
    <3> QED
      BY <1>1, <2>4, <2>6, <3>1, SizedKept
  <2> QED
    BY <2>5, <2>6
<1>3. CASE listed = 0
  <2>1. Find(h, for, n)
    BY <1>3 DEF Handle
  <2>2. Added' = Added
    BY <1>1, <2>1, AddedFound
  <2> DEFINE x == IF nDocs = 0 THEN NewBox ELSE [NewBox EXCEPT !.doc = 1, !.db = mailDoc[1]]
  <2>3. mailBox' = [mailBox EXCEPT ![nBoxes + 1] = x] /\ mailBox \in [Boxes -> Box]
    BY <1>1, <2>1 DEF Find, Typed
  <2>4. x.db.genId = 0 \/ \E d \in Docs : x.db.genId = mailDoc[d].genId
    <3>1. 1 \in Docs
      BY <1>1, Room DEF MailInv
    <3> QED
      BY <3>1 DEF NewBox, NoDoc
  <2> HIDE DEF x
  <2>5. \A b \in Boxes : mailBox'[b] = mailBox[b] \/ mailBox'[b] = x
    BY <2>3
  <2> QED
    BY <1>1, <2>2, <2>4, <2>5, SizedKept
<1> QED
  BY <1>2, <1>3

LEMMA SizedListed ==
  ASSUME MailInv, Typed', Sized, NEW h \in Handlers, ListBox(h)
  PROVE  Sized'
<1>1. Typed /\ Separate /\ Waits(h)
  BY DEF MailInv, ListBox, Waits
<1>2. getting[h].box \in Boxes /\ Does(getting[h].for, getting[h].n)
  BY <1>1, WaitingBox
<1>3. /\ Use(getting[h].box, mailBox[getting[h].box], getting[h].for, getting[h].n)
      /\ getting' = [getting EXCEPT ![h] = NotGetting] /\ UNCHANGED <<nMails, mailDoc>>
  BY DEF ListBox, store
<1> DEFINE b == getting[h].box
           for == getting[h].for
           n == getting[h].n
<1>4. /\ for = "send" => Added' = Added \cup {n} /\ n \notin Added
      /\ for # "send" => Added' = Added
  BY <1>1, <1>3, AddedInBox
<1> HIDE DEF b, for, n
<1>5. /\ \A k \in Boxes : k # b => mailBox'[k] = mailBox[k]
      /\ for = "send" => mailBox'[b].db.genId = mailBox[b].db.genId + 1
      /\ for # "send" => mailBox'[b].db.genId = mailBox[b].db.genId
  BY <1>1, <1>2, <1>3, UsedGenId DEF b, for, n
<1>6. b \in Boxes
  BY <1>2 DEF b
<1>7. CASE for = "send"
  BY <1>1, <1>3, <1>4, <1>5, <1>6, <1>7, SizedSend
<1>8. CASE for # "send"
  <2>1. \A k \in Boxes : mailBox'[k].db.genId = mailBox[k].db.genId
    BY <1>5, <1>8
  <2> QED
    BY <1>1, <1>3, <1>4, <1>8, <2>1, SizedKept
<1> QED
  BY <1>7, <1>8

(* Saves, the exit, the insertion of a document and a restart.             *)
LEMMA SizedSaved ==
  ASSUME MailInv, Typed', Sized,
         \/ \E h \in Handlers : InsertBox(h)
         \/ \E b \in Boxes : SaveBox(b) \/ BoxSaved(b)
         \/ SaveAll \/ Reboot
  PROVE  Sized'
<1>1. Typed /\ mailBox \in [Boxes -> Box] /\ mailDoc \in [Docs -> MailDoc]
  BY DEF MailInv, Typed
<1>2. ASSUME NEW h \in Handlers, InsertBox(h) PROVE Sized'
  <2>1. UNCHANGED <<nMails, mailDoc>> /\ getting' = [getting EXCEPT ![h].at = "insert"]
    BY <1>2 DEF InsertBox
  <2>2. \A k \in Handlers : getting[k] \in Waiting
    BY <1>1 DEF Typed
  <2>3. \A k \in Handlers : /\ getting'[k].for = getting[k].for /\ getting'[k].n = getting[k].n
                            /\ Waits(k)' <=> Waits(k)
    <3>1. getting[h].at = "find"
      BY <1>2 DEF InsertBox
    <3> QED
      BY <1>1, <2>1, <2>2, <3>1 DEF Waits, Typed, Waiting
  <2>4. Added' = Added
    BY <2>1, <2>3 DEF Added, Sends
  <2>5. \A b \in Boxes : mailBox'[b].db.genId = mailBox[b].db.genId
    BY <1>1, <1>2 DEF InsertBox, Box
  <2> QED
    BY <1>1, <2>1, <2>4, <2>5, SizedKept
<1>3. ASSUME NEW b \in Boxes, SaveBox(b) \/ BoxSaved(b) PROVE Sized'
  <2>1. UNCHANGED <<nMails, getting>>
    BY <1>3 DEF SaveBox, BoxSaved
  <2>2. Added' = Added
    BY <2>1 DEF Added, Sends, Waits
  <2>3. \A k \in Boxes : mailBox'[k].db.genId = mailBox[k].db.genId
    BY <1>1, <1>3 DEF SaveBox, BoxSaved, Box
  <2>4. \A d \in Docs : mailDoc'[d] = mailDoc[d] \/ mailDoc'[d] = mailBox[b].db
    BY <1>1, <1>3 DEF SaveBox, BoxSaved, store
  <2> QED
    BY <1>1, <2>2, <2>3, <2>4, SizedKept
<1>4. CASE SaveAll
  <2>1. UNCHANGED <<nMails, getting, mailBox>>
    BY <1>4 DEF SaveAll, boxes
  <2>2. Added' = Added
    BY <2>1 DEF Added, Sends, Waits
  <2>3. listed # 0 => listed \in Boxes
    BY <1>1, MailAssumption DEF Typed, Boxes
  <2>4. \A d \in Docs : mailDoc'[d] = mailDoc[d] \/ (listed # 0 /\ mailDoc'[d] = mailBox[listed].db)
    BY <1>1, <1>4 DEF SaveAll
  <2> QED
    BY <1>1, <2>1, <2>2, <2>3, <2>4, SizedKept
<1>5. CASE Reboot
  <2>1. /\ UNCHANGED <<nMails, mailDoc>> /\ getting' = [h \in Handlers |-> NotGetting]
        /\ mailBox' = [b \in Boxes |-> NewBox]
    BY <1>5 DEF Reboot, store
  <2>2. \A h \in Handlers : ~Waits(h)'
    BY <2>1 DEF Waits, NotGetting
  <2>3. Added \subseteq Added'
    BY <2>1, <2>2 DEF Added, Sends
  <2>4. \A b \in Boxes : mailBox'[b].db.genId = 0
    BY <2>1 DEF NewBox, NoDoc
  <2> QED
    BY <1>1, <2>1, <2>3, <2>4, SizedKept
<1> QED
  BY <1>2, <1>3, <1>4, <1>5

LEMMA SizedStep == MailInv /\ Sized /\ [MailNext]_mailVars => Sized'
<1> SUFFICES ASSUME MailInv, Sized, [MailNext]_mailVars PROVE Sized'
  OBVIOUS
<1>0. Typed /\ Typed'
  BY MailStep DEF MailInv
<1>1. ASSUME NEW h \in Handlers, SendMail(h) PROVE Sized'
  <2>1. nMails + 1 \in Mails
    BY <1>0, <1>1, MailAssumption DEF SendMail, Typed, Mails
  <2>2. /\ nMails' = nMails + 1 /\ Handle(h, "send", nMails + 1) /\ UNCHANGED mailDoc
        /\ Does("send", nMails + 1)
    BY <1>1, <2>1 DEF SendMail, store, Does
  <2> QED
    BY <1>0, <2>2, SizedHandled
<1>2. ASSUME NEW h \in Handlers, NEW w \in Wanted, UseMail(h, w[1], w[2]) PROVE Sized'
  <2>1. Handle(h, w[1], w[2]) /\ UNCHANGED <<nMails, mailDoc>>
    BY <1>2 DEF UseMail, store
  <2>2. w[1] # "send" /\ Does(w[1], w[2])
    BY MailAssumption DEF Wanted, Does, Mails
  <2> QED
    BY <1>0, <2>1, <2>2, SizedHandled
<1>3. CASE UNCHANGED mailVars
  <2>1. UNCHANGED <<mailBox, getting, mailDoc, nMails>>
    BY <1>3 DEF mailVars, boxes, store
  <2>2. Added' = Added
    BY <2>1 DEF Added, Sends, Waits
  <2> QED
    BY <1>0, <2>1, <2>2, SizedKept
<1>4. ASSUME NEW h \in Handlers, ListBox(h) PROVE Sized'
  BY <1>0, <1>4, SizedListed
<1>5. ASSUME \/ \E h \in Handlers : InsertBox(h)
             \/ \E b \in Boxes : SaveBox(b) \/ BoxSaved(b)
             \/ SaveAll \/ Reboot
      PROVE  Sized'
  BY <1>0, <1>5, SizedSaved
<1> QED
  BY <1>1, <1>2, <1>3, <1>4, <1>5 DEF MailNext

LEMMA SizedInvariant == MailSpec => []Sized
<1>1. MailInit => Sized
  <2> SUFFICES ASSUME MailInit PROVE Sized
    OBVIOUS
  <2>1. Cardinality(Added) \in Nat
    BY MailInitially, AddedCount DEF MailInv
  <2>2. \A b \in Boxes : mailBox[b].db.genId = 0
    BY DEF MailInit, NewBox, NoDoc
  <2>3. \A d \in Docs : mailDoc[d].genId = 0
    BY DEF MailInit, NoDoc
  <2> QED
    BY <2>1, <2>2, <2>3 DEF Sized
<1> QED
  BY <1>1, SizedStep, MailInvariant, PTL DEF MailSpec

(* Boxes, documents and waiting handlers keep their types; ids of mails    *)
(* and documents stay in their ranges.                                     *)
THEOREM MailTypeCorrect == MailSpec => []MailTypeOK
<1>1. MailInv /\ Sized => MailTypeOK
  <2> SUFFICES ASSUME MailInv, Sized PROVE MailTypeOK
    OBVIOUS
  <2>1. Typed /\ Documented
    BY DEF MailInv
  <2>2. nDocs \in Nat /\ nDocs <= MaxBoxes * (MaxBoots + 1) /\ MaxBoxes * (MaxBoots + 1) \in Nat
    <3>1. nDocs <= MaxBoxes * (nBoots + 1) /\ nDocs \in Nat
      BY <2>1, Room DEF Typed
    <3>2. nBoots \in Nat /\ nBoots <= MaxBoots /\ MaxBoots \in Nat /\ MaxBoxes \in Nat
      BY <2>1, MailAssumption DEF Typed
    <3>3. \A p, q, r \in Nat : q <= r => p * (q + 1) <= p * (r + 1) /\ p * (q + 1) \in Nat
                                         /\ p * (r + 1) \in Nat
      OBVIOUS
    <3>4. /\ MaxBoxes * (nBoots + 1) <= MaxBoxes * (MaxBoots + 1)
          /\ MaxBoxes * (nBoots + 1) \in Nat /\ MaxBoxes * (MaxBoots + 1) \in Nat
      BY <3>2, <3>3
    <3> QED
      BY <3>1, <3>4
  <2>3. Cardinality(Added) \in Nat /\ Cardinality(Added) <= MaxMails
    BY <2>1, AddedCount
  <2>4. \A c \in MailDoc : c.genId <= Cardinality(Added) => c \in Doc
    BY <2>3, MailAssumption DEF MailDoc, Doc
  <2>5. mailDoc \in [Docs -> Doc]
    BY <2>1, <2>4 DEF Typed, Sized
  <2>6. ASSUME NEW b \in Boxes
        PROVE  mailBox[b] \in [doc : 0 .. MaxBoxes * (MaxBoots + 1), db : Doc,
                               timer : {"none", "runs", "saving"}, late : BOOLEAN]
    <3>1. mailBox[b] \in Box /\ mailBox[b].doc <= nDocs
      BY <2>1 DEF Typed, Documented
    <3>2. mailBox[b].doc \in 0 .. MaxBoxes * (MaxBoots + 1)
      BY <2>2, <3>1 DEF Box
    <3>3. mailBox[b].db \in Doc
      BY <2>4, <3>1 DEF Box, Sized
    <3> QED
      BY <3>1, <3>2, <3>3 DEF Box
  <2>7. nDocs \in 0 .. MaxBoxes * (MaxBoots + 1) /\ listed \in 0 .. MaxBoxes
    BY <2>1, <2>2, MailAssumption DEF Typed
  <2> HIDE DEF Doc
  <2> QED
    BY <2>1, <2>5, <2>6, <2>7 DEF MailTypeOK, Typed, Waiting
<1> QED
  BY <1>1, MailInvariant, SizedInvariant, PTL
=============================================================================
