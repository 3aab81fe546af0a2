-------------------------------- MODULE Mail --------------------------------
(***************************************************************************)
(* The mail box of one account: modules/mail (MailManager, MailBox,        *)
(* MailDB, MailLogic).  A handler that needs the box of an account finds   *)
(* it in MailBoxList or makes one: it asks the database, inserts a         *)
(* document if there is none, and lists the box, yielding at both calls.   *)
(* Whatever changes a box starts a one-shot timer of one to eleven minutes *)
(* that saves it, unless its timer is there already.                       *)
(*                                                                         *)
(* A mail is a number.  given counts how often its attachments were put    *)
(* into the bag.  The list of an account keeps its mails by id; the ids    *)
(* are those of one box, and a second box counts them again.               *)
(***************************************************************************)
EXTENDS Integers, FiniteSets

CONSTANTS
  Handlers,   \* handlers that can be in getMailBox at once
  MaxMails,   \* bound: mails sent
  MaxBoxes,   \* bound: MailBox objects made by a process
  MaxBoots    \* bound: starts of the process after the first

ASSUME MailAssumption == MaxMails \in Nat /\ MaxBoxes \in Nat \ {0} /\ MaxBoots \in Nat

VARIABLES
  mailBox,    \* the MailBox objects
  nBoxes,     \* objects made
  listed,     \* MailBoxList[account], 0 for nil
  getting,    \* the handlers that wait in getMailBox, and what they want the box for
  mailDoc,    \* the documents of the account in the collection "mail"
  nDocs,      \* documents made
  nMails,     \* mails sent
  given,      \* times the attachments of each mail were given
  mailPhase,  \* "runs", or "exits" once GameExit has saved
  nBoots,     \* starts of the process
  mishap      \* history: two boxes were listed, or a process ended with a change unsaved

store == <<mailDoc, nDocs>>
boxes == <<mailBox, nBoxes, listed>>
mailVars == <<boxes, getting, store, nMails, given, mailPhase, nBoots, mishap>>

Mails == 1 .. MaxMails
Boxes == 1 .. MaxBoxes
Docs  == 1 .. MaxBoxes * (MaxBoots + 1)
NoDoc == [genId |-> 0, inbox |-> [i \in Mails |-> 0]]
NewBox == [doc |-> 0, db |-> NoDoc, timer |-> "none", late |-> FALSE]
NotGetting == [at |-> "idle", box |-> 0, for |-> "nothing", n |-> 0]

MailInit ==
  /\ mailBox = [b \in Boxes |-> NewBox] /\ nBoxes = 0 /\ listed = 0
  /\ getting = [h \in Handlers |-> NotGetting]
  /\ mailDoc = [d \in Docs |-> NoDoc] /\ nDocs = 0
  /\ nMails = 0 /\ given = [m \in Mails |-> 0]
  /\ mailPhase = "runs" /\ nBoots = 0 /\ mishap = FALSE
-----------------------------------------------------------------------------
(* MailBox.lua.                                                            *)

\* Mutant: no timer is started.
RaisedNever(x) == x

\* raiseSave: onMailBoxSave forgets the timer only after its save has yielded.
Raised(x) == CASE x.timer = "none"   -> [x EXCEPT !.timer = "runs"]
               [] x.timer = "saving" -> [x EXCEPT !.late = TRUE]
               [] OTHER              -> x

\* addMail.
WithMail(x, m) ==
  Raised([x EXCEPT !.db.genId = @ + 1, !.db.inbox[x.db.genId + 1] = m])

\* delMail: the mail whose attachments a request for id i gives.
Attached(x, i) == x.db.inbox[i]

\* Mutant: the mail stays in the box.
WithoutMailKept(x, i) == Raised(x)

WithoutMail(x, i) ==
  IF x.db.inbox[i] = 0 THEN x ELSE Raised([x EXCEPT !.db.inbox[i] = 0])

\* What a handler does with box b: a mail is sent (n) or deleted (by its id n), or just listed.
Use(b, x, for, n) ==
  /\ mailBox' = [mailBox EXCEPT ![b] = CASE for = "send" -> WithMail(x, n)
                                         [] for = "take" -> WithoutMail(x, n)
                                         [] OTHER        -> x]
  /\ given' = [m \in Mails |->
       IF for = "take" /\ Attached(x, n) = m THEN given[m] + 1 ELSE given[m]]
-----------------------------------------------------------------------------
(* MailManager.getMailBox.                                                 *)

Wanted == {"list"} \X {0} \cup {"take"} \X Mails

\* The database is asked, for the first document of the account.
Find(h, for, n) ==
  /\ getting[h] = NotGetting /\ nBoxes < MaxBoxes
  /\ nBoxes' = nBoxes + 1
  /\ mailBox' = [mailBox EXCEPT ![nBoxes + 1] =
       IF nDocs = 0 THEN NewBox ELSE [NewBox EXCEPT !.doc = 1, !.db = mailDoc[1]]]
  /\ getting' = [getting EXCEPT ![h] = [at |-> "find", box |-> nBoxes + 1, for |-> for, n |-> n]]
  /\ UNCHANGED <<listed, given>>

\* A handler that is given the box, or has to get it.
Handle(h, for, n) ==
  IF listed # 0 THEN Use(listed, mailBox[listed], for, n) /\ UNCHANGED <<nBoxes, listed, getting>>
                ELSE Find(h, for, n)

\* sysSendMail.
SendMail(h) ==
  /\ mailPhase = "runs" /\ nMails < MaxMails
  /\ nMails' = nMails + 1
  /\ Handle(h, "send", nMails')
  /\ UNCHANGED <<store, mailPhase, nBoots, mishap>>

\* onCGDelMail and onCGAskMailList.
UseMail(h, for, n) ==
  /\ mailPhase = "runs"
  /\ Handle(h, for, n)
  /\ UNCHANGED <<store, nMails, mailPhase, nBoots, mishap>>

InsertBox(h) ==
  /\ getting[h].at = "find" /\ mailBox[getting[h].box].doc = 0
  /\ nDocs' = nDocs + 1
  /\ mailBox' = [mailBox EXCEPT ![getting[h].box].doc = nDocs + 1]
  /\ getting' = [getting EXCEPT ![h].at = "insert"]
  /\ UNCHANGED <<nBoxes, listed, mailDoc, nMails, given, mailPhase, nBoots, mishap>>

\* The box is listed, over the one another handler listed meanwhile.
ListBox(h) ==
  /\ getting[h].at # "idle" /\ mailBox[getting[h].box].doc # 0
  /\ LET g == getting[h]
     IN  /\ listed' = g.box
         /\ mishap' = (mishap \/ listed # 0)
         /\ Use(g.box, mailBox[g.box], g.for, g.n)
         /\ getting' = [getting EXCEPT ![h] = NotGetting]
  /\ UNCHANGED <<nBoxes, store, nMails, mailPhase, nBoots>>
-----------------------------------------------------------------------------
(* Saving.                                                                 *)

\* onMailBoxSave.
SaveBox(b) ==
  /\ mailPhase = "runs" /\ mailBox[b].timer = "runs"
  /\ mailDoc' = [mailDoc EXCEPT ![mailBox[b].doc] = mailBox[b].db]
  /\ mailBox' = [mailBox EXCEPT ![b].timer = "saving", ![b].late = FALSE]
  /\ UNCHANGED <<nBoxes, listed, getting, nDocs, nMails, given, mailPhase, nBoots, mishap>>

BoxSaved(b) ==
  /\ mailBox[b].timer = "saving"
  /\ mailBox' = [mailBox EXCEPT ![b].timer = "none"]
  /\ UNCHANGED <<nBoxes, listed, getting, store, nMails, given, mailPhase, nBoots, mishap>>

\* saveAll: the listed box, if it has a timer.
SaveAll ==
  /\ mailPhase = "runs"
  /\ mailPhase' = "exits"
  /\ mailDoc' = IF listed # 0 /\ mailBox[listed].timer # "none"
                  THEN [mailDoc EXCEPT ![mailBox[listed].doc] = mailBox[listed].db] ELSE mailDoc
  /\ UNCHANGED <<boxes, getting, nDocs, nMails, given, nBoots, mishap>>

Unsaved == listed # 0 /\ mailDoc[mailBox[listed].doc] # mailBox[listed].db

\* Another process is started, after an exit that answered every handler or a crash.
Reboot ==
  /\ nBoots < MaxBoots
  /\ mailPhase = "exits" => \A h \in Handlers : getting[h] = NotGetting
  /\ mishap' = (mishap \/ Unsaved \/ \E h \in Handlers : getting[h] # NotGetting)
  /\ mailBox' = [b \in Boxes |-> NewBox] /\ nBoxes' = 0 /\ listed' = 0
  /\ getting' = [h \in Handlers |-> NotGetting]
  /\ mailPhase' = "runs" /\ nBoots' = nBoots + 1
  /\ UNCHANGED <<store, nMails, given>>

MailNext ==
  \/ \E h \in Handlers :
       \/ SendMail(h) \/ (\E w \in Wanted : UseMail(h, w[1], w[2]))
       \/ InsertBox(h) \/ ListBox(h)
  \/ \E b \in Boxes : SaveBox(b) \/ BoxSaved(b)
  \/ SaveAll \/ Reboot

MailSpec == MailInit /\ [][MailNext]_mailVars
-----------------------------------------------------------------------------
Doc == [genId : 0 .. MaxMails, inbox : [Mails -> 0 .. MaxMails]]

(* The type invariant.                                                     *)
MailTypeOK ==
  /\ mailBox \in [Boxes -> [doc : 0 .. MaxBoxes * (MaxBoots + 1), db : Doc,
                            timer : {"none", "runs", "saving"}, late : BOOLEAN]]
  /\ nBoxes \in 0 .. MaxBoxes /\ listed \in 0 .. MaxBoxes
  /\ getting \in [Handlers -> [at : {"idle", "find", "insert"}, box : 0 .. MaxBoxes,
                               for : {"nothing", "send", "take", "list"}, n : 0 .. MaxMails]]
  /\ mailDoc \in [Docs -> Doc] /\ nDocs \in 0 .. MaxBoxes * (MaxBoots + 1)
  /\ nMails \in 0 .. MaxMails /\ given \in [Mails -> Nat]
  /\ mailPhase \in {"runs", "exits"} /\ nBoots \in 0 .. MaxBoots /\ mishap \in BOOLEAN

(* What is not saved will be: the listed box differs from its document     *)
(* only while its timer runs, or if it was changed while its save waited   *)
(* for the database (MailBox.lua:21), in which case nobody saves it before *)
(* its next change and saveAll passes it over; or another box of the       *)
(* account wrote the document.                                             *)
BoxSavedOrTimed ==
  mailPhase = "runs" /\ ~mishap /\ Unsaved => mailBox[listed].timer = "runs" \/ mailBox[listed].late

(* Attachments are given once, through loads, saves, exits and restarts.   *)
(* The exceptions are two boxes of an account (MailManager.lua:17), and a  *)
(* process that ended with a change unsaved.                               *)
GivenOnce == ~mishap => \A m \in Mails : given[m] <= 1

(* A mail is in the box it was sent to, or on its way there, until its     *)
(* attachments are given; with the same exceptions.                        *)
MailKept ==
  ~mishap =>
    \A m \in 1 .. nMails : given[m] = 0 =>
      \/ \E h \in Handlers : getting[h].for = "send" /\ getting[h].n = m
      \/ \E i \in Mails : (IF listed # 0 THEN mailBox[listed].db ELSE mailDoc[1]).inbox[i] = m

(* The attachments of a mail are not lost and not given twice.             *)
MailOnce == GivenOnce /\ MailKept
=============================================================================
