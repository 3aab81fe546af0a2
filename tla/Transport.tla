----------------------------- MODULE Transport -----------------------------
(***************************************************************************)
(* The game connections: IOThread.cpp accepts and closes them, turns what  *)
(* clients send into messages for the logic thread and writes what the     *)
(* logic thread sends.  The threads share the two message queues and the   *)
(* version number g_pFdSn of each descriptor, which the IO thread raises   *)
(* whenever the descriptor changes hands.                                  *)
(*                                                                         *)
(* Descriptors are reused as soon as they are free; every connection that  *)
(* is accepted is a client of its own, numbered in order of arrival.  Of   *)
(* the logic thread the module keeps whose character it has listed under   *)
(* each descriptor (ObjectManager.fd_list); Session.tla has the details.   *)
(***************************************************************************)
EXTENDS Integers, Sequences, FiniteSets

CONSTANTS
  Fds,       \* descriptors, positive and below MAX_CONNECT_FD
  RecvLen,   \* length of g_pRecvMsgQueue
  SendLen,   \* length of g_pSendMsgQueue
  MaxConns   \* bound: connections accepted in a run

ASSUME FdsAssumption  == Fds \subseteq Nat \ {0} /\ IsFiniteSet(Fds)
ASSUME LensAssumption == RecvLen \in Nat \ {0} /\ SendLen \in Nat \ {0} /\ MaxConns \in Nat

None      == 0
INVALID_ID == -1
Clients   == 1 .. MaxConns

VARIABLES
  conn,        \* m_pFD2BE: the client connected on each descriptor, None if none
  minFD,       \* m_nMinFD
  maxFD,       \* m_nMaxFD
  nOnline,     \* g_pMonitor->nOnline
  fdSn,        \* g_pFdSn
  noticed,     \* the descriptor whose notice is sent and that is about to be closed
  nConns,      \* connections accepted so far
  recvQ,       \* g_pRecvMsgQueue
  sendQ,       \* g_pSendMsgQueue
  fd_list,     \* the client whose character is listed under each descriptor
  suspended,   \* logins waiting for the database, before their character is listed
  strayed,     \* a message went to a connection that did not hold the descriptor when sent
  misread,     \* a message went to a client that it was not meant for
  missed,      \* a message to all left a connection out
  unseen       \* clients whose end the logic thread was not told, or told too early

ioVars    == <<conn, minFD, maxFD, nOnline, noticed, nConns>>
logicVars == <<fd_list, suspended>>
ghostVars == <<strayed, misread, missed, unseen>>
vars == <<ioVars, fdSn, recvQ, sendQ, logicVars, ghostVars>>

Receiver == [fd : Fds, sn : Nat, whom : Clients \cup {None}, held : Clients \cup {None}]
Kinds    == {"login", "packet", "disconnect"}
RecvMsg  == [kind : Kinds, fd : Fds, from : Clients]
SendMsg  == [kind : {"user", "close"}, to : SUBSET Receiver] \cup [kind : {"world"}]

Init ==
  /\ conn = [f \in Fds |-> None]
  /\ minFD = INVALID_ID /\ maxFD = INVALID_ID /\ nOnline = 0
  /\ fdSn = [f \in Fds |-> 0]
  /\ noticed = None /\ nConns = 0
  /\ recvQ = <<>> /\ sendQ = <<>>
  /\ fd_list = [f \in Fds |-> None]
  /\ suspended = {}
  /\ strayed = FALSE /\ misread = FALSE /\ missed = FALSE /\ unseen = {}
-----------------------------------------------------------------------------
(* The IO thread.  A libevent callback runs while noticed = None; the      *)
(* close that follows a notice is a step of its own.                       *)

Connected(c) == {f \in Fds : c[f] # None}

SmallestOf(S) == CHOOSE x \in S : \A y \in S : x <= y
LargestOf(S)  == CHOOSE x \in S : \A y \in S : x >= y

\* Mutant: the range is not widened by a second connection.
SetBufferEventFirstOnly(f, c) ==
  LET after == [conn EXCEPT ![f] = c]
      left  == Connected(after)
  IN  /\ conn' = after
      /\ IF c # None
           THEN /\ minFD' = IF minFD = INVALID_ID THEN f ELSE minFD
                /\ maxFD' = IF maxFD = INVALID_ID THEN f ELSE maxFD
           ELSE /\ minFD' = IF left = {} THEN INVALID_ID ELSE SmallestOf(left)
                /\ maxFD' = IF left = {} THEN INVALID_ID ELSE LargestOf(left)

SetBufferEvent(f, c) ==
  LET after == [conn EXCEPT ![f] = c]
      left  == Connected(after)
  IN  /\ conn' = after
      /\ IF c # None
           THEN /\ minFD' = IF minFD = INVALID_ID \/ f < minFD THEN f ELSE minFD
                /\ maxFD' = IF f > maxFD THEN f ELSE maxFD
           ELSE IF f \in {minFD, maxFD}
                  THEN /\ minFD' = IF left = {} THEN INVALID_ID ELSE SmallestOf(left)
                       /\ maxFD' = IF left = {} THEN INVALID_ID ELSE LargestOf(left)
                  ELSE UNCHANGED <<minFD, maxFD>>

\* Mutant: a descriptor without a connection is counted as closed, too.
CloseConnectAlways(f) ==
  /\ nOnline' = nOnline - 1
  /\ fdSn' = [fdSn EXCEPT ![f] = @ + 1]
  /\ SetBufferEvent(f, None)

CloseConnect(f) ==
  IF conn[f] = None
    THEN UNCHANGED <<nOnline, fdSn, conn, minFD, maxFD>>
    ELSE /\ nOnline' = nOnline - 1
         /\ fdSn' = [fdSn EXCEPT ![f] = @ + 1]
         /\ SetBufferEvent(f, None)

\* Mutant: a closed and reopened descriptor keeps its version.
AcceptSameSn(f) ==
  /\ noticed = None /\ conn[f] = None /\ nConns < MaxConns
  /\ nConns' = nConns + 1
  /\ nOnline' = nOnline + 1
  /\ fdSn' = [fdSn EXCEPT ![f] = IF @ = 0 THEN 1 ELSE @ - 1]
  /\ SetBufferEvent(f, nConns + 1)
  /\ UNCHANGED <<noticed, recvQ, sendQ, logicVars, ghostVars>>

\* ListenerCB.
Accept(f) ==
  /\ noticed = None /\ conn[f] = None /\ nConns < MaxConns
  /\ nConns' = nConns + 1
  /\ nOnline' = nOnline + 1
  /\ fdSn' = [fdSn EXCEPT ![f] = @ + 1]
  /\ SetBufferEvent(f, nConns + 1)
  /\ UNCHANGED <<noticed, recvQ, sendQ, logicVars, ghostVars>>

\* ConnReadCB on a complete and admissible packet, CG_DISCONNECT among them.
Receive(f, kind) ==
  /\ noticed = None /\ conn[f] # None /\ kind \in Kinds
  /\ Len(recvQ) < RecvLen
  /\ recvQ' = Append(recvQ, [kind |-> kind, fd |-> f, from |-> conn[f]])
  /\ UNCHANGED <<ioVars, fdSn, sendQ, logicVars, ghostVars>>

(* The connection ends, times out or sends a packet of a wrong length:     *)
(* DisconnectNotice, which a full queue loses, ...                         *)
DisconnectNotice(f) ==
  /\ noticed = None /\ conn[f] # None
  /\ noticed' = f
  /\ IF Len(recvQ) < RecvLen
       THEN /\ recvQ' = Append(recvQ, [kind |-> "disconnect", fd |-> f, from |-> conn[f]])
            /\ UNCHANGED unseen
       ELSE /\ unseen' = unseen \cup {conn[f]}
            /\ UNCHANGED recvQ
  /\ UNCHANGED <<conn, minFD, maxFD, nOnline, nConns, fdSn, sendQ, logicVars>>
  /\ UNCHANGED <<strayed, misread, missed>>

\* ... and CloseConnect.
CloseNoticed ==
  /\ noticed # None
  /\ CloseConnect(noticed)
  /\ noticed' = None
  /\ UNCHANGED <<nConns, recvQ, sendQ, logicVars, ghostVars>>
-----------------------------------------------------------------------------
(* TimerCB pops what the logic thread sent, one message a step.            *)

\* Whoever is connected under the version the message was sent to.
Reached(m) == {r \in m.to : conn[r.fd] # None /\ r.sn = fdSn[r.fd]}

WriteUser ==
  /\ noticed = None /\ sendQ # <<>> /\ Head(sendQ).kind = "user"
  /\ LET reached == Reached(Head(sendQ))
     IN  /\ strayed' = (strayed \/ \E r \in reached : conn[r.fd] # r.held)
         /\ misread' = (misread \/ \E r \in reached : conn[r.fd] # r.whom)
  /\ sendQ' = Tail(sendQ)
  /\ UNCHANGED <<ioVars, fdSn, recvQ, logicVars, missed, unseen>>

\* A message to all goes to every connection from minFD to maxFD.
WriteWorld ==
  /\ noticed = None /\ sendQ # <<>> /\ Head(sendQ).kind = "world"
  /\ missed' = (missed \/ ~(Connected(conn) \subseteq minFD .. maxFD))
  /\ sendQ' = Tail(sendQ)
  /\ UNCHANGED <<ioVars, fdSn, recvQ, logicVars, strayed, misread, unseen>>

\* GC_DISCONNECT closes whatever is connected on the descriptor by now, without notice.
WriteClose ==
  /\ noticed = None /\ sendQ # <<>> /\ Head(sendQ).kind = "close"
  /\ LET r == CHOOSE x \in Head(sendQ).to : TRUE
     IN  /\ CloseConnect(r.fd)
         /\ unseen' = IF conn[r.fd] = None THEN unseen ELSE unseen \cup {conn[r.fd]}
  /\ sendQ' = Tail(sendQ)
  /\ UNCHANGED <<noticed, nConns, recvQ, logicVars, strayed, misread, missed>>
-----------------------------------------------------------------------------
(* The logic thread.                                                       *)

\* Msg::PushReceiver notes the version the descriptor has when it is called.
To(f, c) == [fd |-> f, sn |-> fdSn[f], whom |-> c, held |-> conn[f]]

(* onCGAskLogin lists its character under the descriptor the packet came   *)
(* by, at once or, when a database call comes first, some time later.      *)
HandleLogin ==
  /\ recvQ # <<>> /\ Head(recvQ).kind = "login"
  /\ fd_list' = [fd_list EXCEPT ![Head(recvQ).fd] = Head(recvQ).from]
  /\ recvQ' = Tail(recvQ)
  /\ UNCHANGED <<ioVars, fdSn, sendQ, suspended, ghostVars>>

SuspendLogin ==
  /\ recvQ # <<>> /\ Head(recvQ).kind = "login"
  /\ suspended' = suspended \cup {<<Head(recvQ).fd, Head(recvQ).from>>}
  /\ fd_list' = [fd_list EXCEPT ![Head(recvQ).fd] = None]
  /\ recvQ' = Tail(recvQ)
  /\ UNCHANGED <<ioVars, fdSn, sendQ, ghostVars>>

\* ObjectManager.add refuses a descriptor that has been taken meanwhile.
ResumeLogin(f, c) ==
  /\ <<f, c>> \in suspended
  /\ suspended' = suspended \ {<<f, c>>}
  /\ fd_list' = IF fd_list[f] = None THEN [fd_list EXCEPT ![f] = c] ELSE fd_list
  /\ UNCHANGED <<ioVars, fdSn, recvQ, sendQ, ghostVars>>

HandlePacket ==
  /\ recvQ # <<>> /\ Head(recvQ).kind = "packet"
  /\ recvQ' = Tail(recvQ)
  /\ UNCHANGED <<ioVars, fdSn, sendQ, logicVars, ghostVars>>

\* Mutant: the notice leaves the character on its descriptor.
HandleNoticeKeeps ==
  /\ recvQ # <<>> /\ Head(recvQ).kind = "disconnect"
  /\ recvQ' = Tail(recvQ)
  /\ UNCHANGED <<ioVars, fdSn, sendQ, logicVars, ghostVars>>

\* CG_DISCONNECT takes the character off the descriptor, if it is there already.
HandleNotice ==
  /\ recvQ # <<>> /\ Head(recvQ).kind = "disconnect"
  /\ fd_list' = [fd_list EXCEPT ![Head(recvQ).fd] = None]
  /\ unseen' = unseen \cup {p[2] : p \in {q \in suspended : q[1] = Head(recvQ).fd}}
  /\ recvQ' = Tail(recvQ)
  /\ UNCHANGED <<ioVars, fdSn, sendQ, suspended, strayed, misread, missed>>

\* A full queue refuses the message.
Sent(m) == IF Len(sendQ) < SendLen THEN Append(sendQ, m) ELSE sendQ

\* SendMsg and UserBroadcast to the characters under the descriptors S.
SendUser(S) ==
  /\ S # {} /\ \A f \in S : fd_list[f] # None
  /\ sendQ' = Sent([kind |-> "user", to |-> {To(f, fd_list[f]) : f \in S}])
  /\ UNCHANGED <<ioVars, fdSn, recvQ, logicVars, ghostVars>>

WorldBroadcast ==
  /\ sendQ' = Sent([kind |-> "world"])
  /\ UNCHANGED <<ioVars, fdSn, recvQ, logicVars, ghostVars>>

(* Character.sendGCDisconnect: a login that is refused leaves fd_list as   *)
(* it is, a re-login elsewhere (moved) takes the character off.            *)
SendGCDisconnect(f, moved) ==
  /\ fdSn[f] > 0
  /\ sendQ' = Sent([kind |-> "close", to |-> {To(f, fd_list[f])}])
  /\ fd_list' = IF moved THEN [fd_list EXCEPT ![f] = None] ELSE fd_list
  /\ UNCHANGED <<ioVars, fdSn, recvQ, suspended, ghostVars>>
-----------------------------------------------------------------------------
IOStep ==
  \/ \E f \in Fds : Accept(f) \/ DisconnectNotice(f)
  \/ \E f \in Fds, kind \in Kinds : Receive(f, kind)
  \/ CloseNoticed
  \/ WriteUser \/ WriteWorld \/ WriteClose

LogicStep ==
  \/ HandleLogin \/ SuspendLogin \/ HandlePacket \/ HandleNotice
  \/ \E p \in suspended : ResumeLogin(p[1], p[2])
  \/ \E S \in SUBSET Fds : SendUser(S)
  \/ WorldBroadcast
  \/ \E f \in Fds, moved \in BOOLEAN : SendGCDisconnect(f, moved)

Next == IOStep \/ LogicStep

Spec == Init /\ [][Next]_vars
-----------------------------------------------------------------------------
(* The type invariant.                                                     *)
TypeOK ==
  /\ conn \in [Fds -> Clients \cup {None}]
  /\ minFD \in Fds \cup {INVALID_ID} /\ maxFD \in Fds \cup {INVALID_ID}
  /\ nOnline \in Nat
  /\ fdSn \in [Fds -> Nat]
  /\ noticed \in Fds \cup {None}
  /\ nConns \in 0 .. MaxConns
  /\ recvQ \in Seq(RecvMsg) /\ Len(recvQ) <= RecvLen
  /\ sendQ \in Seq(SendMsg) /\ Len(sendQ) <= SendLen
  /\ fd_list \in [Fds -> Clients \cup {None}]
  /\ suspended \subseteq Fds \X Clients
  /\ strayed \in BOOLEAN /\ misread \in BOOLEAN /\ missed \in BOOLEAN
  /\ unseen \in SUBSET Clients

(* A message is written only to the connection that held the descriptor    *)
(* when the logic thread sent it, although the IO thread may have closed   *)
(* and reused the descriptor any number of times since (g_pFdSn).          *)
NeverStrays == ~strayed

(* A message to all is written to every connection, whatever opened and    *)
(* closed before: the range the IO thread keeps leaves nobody out          *)
(* (SetBufferEvent).                                                       *)
WorldReachesAll == ~missed

(* The monitor's nOnline is the number of connections: a GC_DISCONNECT     *)
(* that comes after its connection has gone is not counted twice.          *)
OnlineCounts == nOnline = Cardinality(Connected(conn))

(* A character listed under a descriptor that its client no longer holds   *)
(* is about to be taken off: the notice is in the queue.  There are three  *)
(* exceptions, and no other: the queue was full, a GC_DISCONNECT closed    *)
(* the connection, or the notice came while the login was suspended.       *)
StaleIsNoticed ==
  \A f \in Fds :
    fd_list[f] # None /\ fd_list[f] # conn[f] =>
      \/ fd_list[f] \in unseen
      \/ \E k \in DOMAIN recvQ :
           recvQ[k] = [kind |-> "disconnect", fd |-> f, from |-> fd_list[f]]

(* A packet is handled as its sender's: packets name no character, only    *)
(* the descriptor, and when one is dispatched that descriptor lists the    *)
(* client that sent it or nobody, save for the exceptions of               *)
(* StaleIsNoticed (Network.lua HandlerPacket, ObjectManager.getByFD).      *)
HandledForSender ==
  recvQ # <<>> /\ Head(recvQ).kind = "packet" =>
    fd_list[Head(recvQ).fd] \in {None, Head(recvQ).from} \cup unseen

(* IOThread.cpp:379 says that a message of the wrong version is dropped:   *)
(* no client is sent what was meant for another.                           *)
OwnMessagesOnly == ~misread
=============================================================================
