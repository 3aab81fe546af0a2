--------------------------- MODULE TransportProofs ---------------------------
(* Proofs about Transport, for every set of descriptors, all lengths of    *)
(* the two queues and any number of connections.                           *)
EXTENDS Transport, FiniteSetTheorems, WellFoundedInduction, TLAPS

(* SmallestOf and LargestOf find what they look for.                       *)
LEMMA LeastExists ==
  ASSUME NEW S, S \subseteq Nat, S # {}
  PROVE  SmallestOf(S) \in S /\ \A y \in S : SmallestOf(S) <= y
<1> DEFINE below == {ss \in Nat \X Nat : ss[1] < ss[2]}
<1>1. IsWellFoundedOn(below, Nat)
  BY NatLessThanWellFounded, Zenon DEF OpToRel
<1>2. PICK x \in S : \A y \in S : ~ (<<y, x>> \in below)
  BY <1>1, WFMin, Zenon
<1>3. ASSUME NEW y \in S PROVE x <= y
  <2>1. x \in Nat /\ y \in Nat /\ <<y, x>> \notin below
    BY <1>2
  <2> QED BY <2>1
<1> QED BY <1>3 DEF SmallestOf

LEMMA GreatestExists ==
  ASSUME NEW S, S \subseteq Nat, S # {}, IsFiniteSet(S)
  PROVE  LargestOf(S) \in S /\ \A y \in S : LargestOf(S) >= y
<1> DEFINE Above(x) == {y \in S : y > x}
           sizes    == {Cardinality(Above(x)) : x \in S}
<1>1. \A x \in S : IsFiniteSet(Above(x)) /\ Cardinality(Above(x)) \in Nat
  BY FS_Subset, FS_CardinalityType
<1>2. sizes \subseteq Nat /\ sizes # {}
  BY <1>1
<1>3. PICK x \in S : \A y \in S : Cardinality(Above(x)) <= Cardinality(Above(y))
  <2> HIDE DEF sizes
  <2>1. SmallestOf(sizes) \in sizes /\ \A n \in sizes : SmallestOf(sizes) <= n
    BY <1>2, LeastExists
  <2> QED BY <2>1 DEF sizes
<1>4. ASSUME NEW y \in S, y > x PROVE FALSE
  <2>1. x \in Nat /\ y \in Nat /\ \A z \in S : z \in Nat
    OBVIOUS
  <2>2. Above(y) \subseteq Above(x)
    <3>1. \A z \in S : z > y => z > x
      BY <1>4, <2>1
    <3> QED BY <3>1
  <2>3. y \in Above(x) /\ y \notin Above(y)
    BY <1>4, <2>1
  <2> HIDE DEF Above
  <2>4. Cardinality(Above(y)) <= Cardinality(Above(x)) /\ Cardinality(Above(y)) # Cardinality(Above(x))
    BY <1>1, <2>2, <2>3, FS_Subset
  <2>5. Cardinality(Above(x)) <= Cardinality(Above(y))
    BY <1>3
  <2>6. Cardinality(Above(x)) \in Nat /\ Cardinality(Above(y)) \in Nat
    BY <1>1
  <2> QED BY <2>4, <2>5, <2>6
<1>5. ASSUME NEW y \in S PROVE x >= y
  <2>1. x \in Nat /\ y \in Nat
    OBVIOUS
  <2> QED BY <1>4, <2>1
<1> QED BY <1>5 DEF LargestOf

(* What is in a queue after one item was taken or added.                   *)
LEMMA PoppedItems ==
  ASSUME NEW S, NEW q \in Seq(S), q # <<>>
  PROVE  /\ Tail(q) \in Seq(S) /\ Len(Tail(q)) = Len(q) - 1
         /\ Head(q) = q[1] /\ Head(q) \in S /\ 1 \in DOMAIN q
         /\ \A k \in DOMAIN Tail(q) : k + 1 \in DOMAIN q /\ Tail(q)[k] = q[k + 1]
OBVIOUS

LEMMA AppendedItems ==
  ASSUME NEW S, NEW q \in Seq(S), NEW x \in S
  PROVE  /\ Append(q, x) \in Seq(S) /\ Len(Append(q, x)) = Len(q) + 1
         /\ \A k \in DOMAIN Append(q, x) :
              \/ k \in DOMAIN q /\ Append(q, x)[k] = q[k]
              \/ k = Len(q) + 1 /\ Append(q, x)[k] = x
         /\ \A k \in DOMAIN q : k \in DOMAIN Append(q, x) /\ Append(q, x)[k] = q[k]
         /\ Len(q) + 1 \in DOMAIN Append(q, x) /\ Append(q, x)[Len(q) + 1] = x
OBVIOUS

LEMMA SentItems ==
  ASSUME sendQ \in Seq(SendMsg), Len(sendQ) <= SendLen, NEW m \in SendMsg
  PROVE  /\ Sent(m) \in Seq(SendMsg) /\ Len(Sent(m)) <= SendLen
         /\ \A k \in DOMAIN Sent(m) :
              (k \in DOMAIN sendQ /\ Sent(m)[k] = sendQ[k]) \/ Sent(m)[k] = m
<1>1. CASE Len(sendQ) < SendLen
  BY <1>1, AppendedItems, LensAssumption DEF Sent
<1>2. CASE ~(Len(sendQ) < SendLen)
  BY <1>2 DEF Sent
<1> QED BY <1>1, <1>2

LEMMA RecvPopped ==
  ASSUME TypeOK, recvQ # <<>>
  PROVE  /\ Tail(recvQ) \in Seq(RecvMsg) /\ Len(Tail(recvQ)) = Len(recvQ) - 1
         /\ Len(Tail(recvQ)) <= RecvLen /\ Len(recvQ) \in Nat
         /\ Head(recvQ) = recvQ[1] /\ Head(recvQ) \in RecvMsg /\ 1 \in DOMAIN recvQ
         /\ Head(recvQ).fd \in Fds /\ Head(recvQ).from \in Clients
         /\ \A k \in DOMAIN Tail(recvQ) :
              k + 1 \in DOMAIN recvQ /\ Tail(recvQ)[k] = recvQ[k + 1]
<1>1. recvQ \in Seq(RecvMsg) /\ Len(recvQ) <= RecvLen
  BY DEF TypeOK
<1>2. /\ Tail(recvQ) \in Seq(RecvMsg) /\ Len(Tail(recvQ)) = Len(recvQ) - 1
      /\ Head(recvQ) = recvQ[1] /\ Head(recvQ) \in RecvMsg /\ 1 \in DOMAIN recvQ
      /\ \A k \in DOMAIN Tail(recvQ) : k + 1 \in DOMAIN recvQ /\ Tail(recvQ)[k] = recvQ[k + 1]
  BY <1>1, PoppedItems
<1>3. Head(recvQ).fd \in Fds /\ Head(recvQ).from \in Clients
  BY <1>2 DEF RecvMsg
<1>4. Len(Tail(recvQ)) <= RecvLen /\ Len(recvQ) \in Nat
  BY <1>1, <1>2, LensAssumption
<1> QED BY <1>2, <1>3, <1>4

LEMMA SendPopped ==
  ASSUME TypeOK, sendQ # <<>>
  PROVE  /\ Tail(sendQ) \in Seq(SendMsg) /\ Len(Tail(sendQ)) <= SendLen
         /\ Head(sendQ) = sendQ[1] /\ Head(sendQ) \in SendMsg /\ 1 \in DOMAIN sendQ
         /\ \A k \in DOMAIN Tail(sendQ) :
              k + 1 \in DOMAIN sendQ /\ Tail(sendQ)[k] = sendQ[k + 1]
<1>1. sendQ \in Seq(SendMsg) /\ Len(sendQ) <= SendLen
  BY DEF TypeOK
<1>2. /\ Tail(sendQ) \in Seq(SendMsg) /\ Len(Tail(sendQ)) = Len(sendQ) - 1
      /\ Head(sendQ) = sendQ[1] /\ Head(sendQ) \in SendMsg /\ 1 \in DOMAIN sendQ
      /\ \A k \in DOMAIN Tail(sendQ) : k + 1 \in DOMAIN sendQ /\ Tail(sendQ)[k] = sendQ[k + 1]
  BY <1>1, PoppedItems
<1>3. Len(Tail(sendQ)) <= SendLen
  BY <1>1, <1>2, LensAssumption
<1> QED BY <1>2, <1>3
-----------------------------------------------------------------------------
(* The number and the range of the connections, which change together.     *)
Ranged ==
  /\ minFD = INVALID_ID => Connected(conn) = {}
  /\ \A f \in Connected(conn) : minFD <= f /\ f <= maxFD

LEMMA ConnectedFinite ==
  ASSUME NEW c
  PROVE  /\ Connected(c) \subseteq Fds /\ Connected(c) \subseteq Nat
         /\ IsFiniteSet(Connected(c)) /\ Cardinality(Connected(c)) \in Nat
<1>1. Connected(c) \subseteq Fds
  BY DEF Connected
<1> QED BY <1>1, FdsAssumption, FS_Subset, FS_CardinalityType

LEMMA ConnectionSet ==
  ASSUME TypeOK, Ranged, NEW f \in Fds, NEW c \in Clients \cup {None}, SetBufferEvent(f, c)
  PROVE  /\ conn' = [conn EXCEPT ![f] = c] /\ conn' \in [Fds -> Clients \cup {None}]
         /\ minFD' \in Fds \cup {INVALID_ID} /\ maxFD' \in Fds \cup {INVALID_ID}
         /\ Connected(conn') = IF c = None THEN Connected(conn) \ {f} ELSE Connected(conn) \cup {f}
         /\ Ranged'
<1> DEFINE left == Connected([conn EXCEPT ![f] = c])
<1>1. conn' = [conn EXCEPT ![f] = c] /\ conn \in [Fds -> Clients \cup {None}]
  BY DEF SetBufferEvent, TypeOK
<1>2. left = IF c = None THEN Connected(conn) \ {f} ELSE Connected(conn) \cup {f}
  BY <1>1 DEF Connected
<1>3. left \subseteq Fds /\ left \subseteq Nat /\ IsFiniteSet(left)
  BY ConnectedFinite
<1>4. minFD \in Int /\ maxFD \in Int /\ f \in Nat /\ f # 0 /\ INVALID_ID = -1
      /\ Connected(conn) \subseteq Nat
  BY FdsAssumption, ConnectedFinite DEF TypeOK, INVALID_ID
<1>5. CASE c # None
  <2>1. /\ minFD' = IF minFD = INVALID_ID \/ f < minFD THEN f ELSE minFD
        /\ maxFD' = IF f > maxFD THEN f ELSE maxFD
    BY <1>5 DEF SetBufferEvent
  <2>2. \A g \in left : minFD' <= g /\ g <= maxFD'
    BY <1>2, <1>4, <1>5, <2>1 DEF Ranged
  <2>3. minFD' # INVALID_ID
    BY <1>4, <2>1
  <2>4. minFD' \in Fds \cup {INVALID_ID} /\ maxFD' \in Fds \cup {INVALID_ID}
    BY <2>1 DEF TypeOK
  <2> QED BY <1>1, <1>2, <2>2, <2>3, <2>4 DEF Ranged
<1>6. CASE c = None /\ f \in {minFD, maxFD}
  <2>1. /\ minFD' = IF left = {} THEN INVALID_ID ELSE SmallestOf(left)
        /\ maxFD' = IF left = {} THEN INVALID_ID ELSE LargestOf(left)
    BY <1>6 DEF SetBufferEvent
  <2>2. CASE left = {}
    BY <1>1, <1>2, <2>1, <2>2 DEF Ranged
  <2>3. CASE left # {}
    <3>1. /\ minFD' \in left /\ \A y \in left : minFD' <= y
          /\ maxFD' \in left /\ \A y \in left : maxFD' >= y
      BY <1>3, <2>1, <2>3, LeastExists, GreatestExists
    <3>2. \A y \in left : minFD' <= y /\ y <= maxFD'
      BY <1>3, <3>1
    <3>3. minFD' \in Nat /\ minFD' # INVALID_ID
      <4> HIDE DEF left
      <4>1. minFD' \in Nat
        BY <1>3, <3>1
      <4> QED BY <1>4, <4>1
    <3> QED BY <1>1, <1>2, <1>3, <3>1, <3>2, <3>3 DEF Ranged
  <2> QED BY <2>2, <2>3
<1>7. CASE c = None /\ f \notin {minFD, maxFD}
  <2>1. minFD' = minFD /\ maxFD' = maxFD
    BY <1>7 DEF SetBufferEvent
  <2> QED BY <1>1, <1>2, <1>7, <2>1 DEF Ranged, TypeOK
<1> QED BY <1>5, <1>6, <1>7

LEMMA ConnectionClosed ==
  ASSUME TypeOK, Ranged, OnlineCounts, NEW f \in Fds, CloseConnect(f)
  PROVE  /\ conn' \in [Fds -> Clients \cup {None}]
         /\ \A g \in Fds : conn'[g] = IF g = f THEN None ELSE conn[g]
         /\ minFD' \in Fds \cup {INVALID_ID} /\ maxFD' \in Fds \cup {INVALID_ID}
         /\ fdSn' \in [Fds -> Nat]
         /\ \A g \in Fds : fdSn'[g] >= fdSn[g] /\ (fdSn'[g] = fdSn[g] => conn'[g] = conn[g])
         /\ nOnline' \in Nat /\ OnlineCounts' /\ Ranged'
<1>1. CASE conn[f] = None
  <2>1. UNCHANGED <<nOnline, fdSn, conn, minFD, maxFD>>
    BY <1>1 DEF CloseConnect
  <2>2. OnlineCounts' /\ Ranged'
    BY <2>1 DEF OnlineCounts, Ranged
  <2> QED BY <1>1, <2>1, <2>2 DEF TypeOK
<1>2. CASE conn[f] # None
  <2>1. /\ nOnline' = nOnline - 1 /\ SetBufferEvent(f, None)
        /\ fdSn' = [fdSn EXCEPT ![f] = @ + 1]
    BY <1>2 DEF CloseConnect
  <2>2. /\ conn' = [conn EXCEPT ![f] = None] /\ conn' \in [Fds -> Clients \cup {None}]
        /\ minFD' \in Fds \cup {INVALID_ID} /\ maxFD' \in Fds \cup {INVALID_ID}
        /\ Connected(conn') = Connected(conn) \ {f} /\ Ranged'
    BY <2>1, ConnectionSet
  <2>3. f \in Connected(conn)
    BY <1>2 DEF Connected
  <2>4. Cardinality(Connected(conn')) = Cardinality(Connected(conn)) - 1
    BY <2>2, <2>3, ConnectedFinite, FS_RemoveElement
  <2>5. OnlineCounts' /\ nOnline' \in Nat
    BY <2>1, <2>4, ConnectedFinite DEF OnlineCounts
  <2>6. /\ fdSn' \in [Fds -> Nat]
        /\ \A g \in Fds : fdSn'[g] >= fdSn[g] /\ (fdSn'[g] = fdSn[g] => conn'[g] = conn[g])
    BY <2>1, <2>2 DEF TypeOK
  <2> QED BY <2>2, <2>5, <2>6 DEF TypeOK
<1> QED BY <1>1, <1>2
-----------------------------------------------------------------------------
(* A GC_DISCONNECT has somebody to go to.                                  *)
Addressed == \A k \in DOMAIN sendQ : sendQ[k].kind = "close" => sendQ[k].to # {}

Sound == TypeOK /\ OnlineCounts /\ Ranged /\ Addressed

LEMMA AddressedKept ==
  ASSUME TypeOK, Addressed, sendQ # <<>>, sendQ' = Tail(sendQ)
  PROVE  Addressed'
BY SendPopped DEF Addressed

LEMMA ClosesOne ==
  ASSUME TypeOK, Addressed, WriteClose
  PROVE  \E f \in Fds : /\ CloseConnect(f)
                        /\ unseen' = IF conn[f] = None THEN unseen ELSE unseen \cup {conn[f]}
<1>1. PICK r : /\ r = CHOOSE x \in Head(sendQ).to : TRUE
               /\ CloseConnect(r.fd)
               /\ unseen' = IF conn[r.fd] = None THEN unseen ELSE unseen \cup {conn[r.fd]}
  BY DEF WriteClose
<1>2. Head(sendQ) \in SendMsg /\ Head(sendQ).kind = "close" /\ Head(sendQ).to # {}
  BY SendPopped DEF WriteClose, Addressed
<1>3. Head(sendQ).to \in SUBSET Receiver
  BY <1>2 DEF SendMsg
<1>4. r \in Receiver
  BY <1>1, <1>2, <1>3
<1> QED BY <1>1, <1>4 DEF Receiver

LEMMA IOKeepsSound ==
  ASSUME Sound, IOStep
  PROVE  Sound'
<1> USE DEF Sound
<1>1. ASSUME NEW f \in Fds, Accept(f) PROVE Sound'
  <2>1. /\ nConns + 1 \in Clients /\ nConns' = nConns + 1 /\ nConns' \in 0 .. MaxConns
        /\ SetBufferEvent(f, nConns + 1) /\ nConns + 1 # None /\ conn[f] = None
    BY <1>1, LensAssumption DEF Accept, TypeOK, Clients, None
  <2>2. /\ conn' \in [Fds -> Clients \cup {None}]
        /\ minFD' \in Fds \cup {INVALID_ID} /\ maxFD' \in Fds \cup {INVALID_ID}
        /\ Connected(conn') = Connected(conn) \cup {f} /\ Ranged'
    BY <2>1, ConnectionSet
  <2>3. Cardinality(Connected(conn')) = Cardinality(Connected(conn)) + 1
    <3>1. f \notin Connected(conn)
      BY <2>1 DEF Connected
    <3> QED BY <2>2, <3>1, ConnectedFinite, FS_AddElement
  <2>4. OnlineCounts' /\ nOnline' \in Nat
    BY <1>1, <2>3, ConnectedFinite DEF OnlineCounts, Accept
  <2>5. fdSn' \in [Fds -> Nat]
    BY <1>1 DEF Accept, TypeOK
  <2>6. Addressed'
    BY <1>1 DEF Accept, Addressed
  <2> QED BY <1>1, <2>1, <2>2, <2>4, <2>5, <2>6 DEF Accept, TypeOK, logicVars, ghostVars
<1>2. ASSUME NEW f \in Fds, DisconnectNotice(f) PROVE Sound'
  <2>1. [kind |-> "disconnect", fd |-> f, from |-> conn[f]] \in RecvMsg /\ conn[f] \in Clients
    BY <1>2 DEF DisconnectNotice, TypeOK, RecvMsg, Kinds
  <2>2. recvQ' \in Seq(RecvMsg) /\ Len(recvQ') <= RecvLen
    <3>1. recvQ \in Seq(RecvMsg) /\ Len(recvQ) <= RecvLen
      BY DEF TypeOK
    <3>2. CASE Len(recvQ) < RecvLen
      BY <1>2, <2>1, <3>1, <3>2, AppendedItems, LensAssumption DEF DisconnectNotice
    <3>3. CASE ~(Len(recvQ) < RecvLen)
      BY <1>2, <3>1, <3>3 DEF DisconnectNotice
    <3> QED BY <3>2, <3>3
  <2>3. unseen' \in SUBSET Clients
    BY <1>2, <2>1 DEF DisconnectNotice, TypeOK
  <2>4. OnlineCounts' /\ Ranged' /\ Addressed'
    BY <1>2 DEF DisconnectNotice, OnlineCounts, Ranged, Addressed
  <2> QED BY <1>2, <2>2, <2>3, <2>4 DEF DisconnectNotice, TypeOK, logicVars
<1>3. ASSUME NEW f \in Fds, NEW kind \in Kinds, Receive(f, kind) PROVE Sound'
  <2>1. [kind |-> kind, fd |-> f, from |-> conn[f]] \in RecvMsg
    BY <1>3 DEF Receive, TypeOK, RecvMsg
  <2>2. recvQ' \in Seq(RecvMsg) /\ Len(recvQ') <= RecvLen
    BY <1>3, <2>1, AppendedItems, LensAssumption DEF Receive, TypeOK
  <2>3. OnlineCounts' /\ Ranged' /\ Addressed'
    BY <1>3 DEF Receive, OnlineCounts, Ranged, Addressed, ioVars
  <2> QED BY <1>3, <2>2, <2>3 DEF Receive, TypeOK, ioVars, logicVars, ghostVars
<1>4. ASSUME CloseNoticed PROVE Sound'
  <2>1. noticed \in Fds /\ CloseConnect(noticed)
    BY <1>4 DEF CloseNoticed, TypeOK
  <2>2. /\ conn' \in [Fds -> Clients \cup {None}]
        /\ minFD' \in Fds \cup {INVALID_ID} /\ maxFD' \in Fds \cup {INVALID_ID}
        /\ fdSn' \in [Fds -> Nat] /\ nOnline' \in Nat /\ OnlineCounts' /\ Ranged'
    BY <2>1, ConnectionClosed
  <2>3. Addressed'
    BY <1>4 DEF CloseNoticed, Addressed
  <2> QED BY <1>4, <2>2, <2>3 DEF CloseNoticed, TypeOK, logicVars, ghostVars
<1>5. ASSUME WriteUser PROVE Sound'
  <2>1. Tail(sendQ) \in Seq(SendMsg) /\ Len(Tail(sendQ)) <= SendLen
    BY <1>5, SendPopped DEF WriteUser
  <2>2. strayed' \in BOOLEAN /\ misread' \in BOOLEAN
    BY <1>5 DEF WriteUser
  <2>3. OnlineCounts' /\ Ranged' /\ Addressed'
    BY <1>5, AddressedKept DEF WriteUser, OnlineCounts, Ranged, ioVars
  <2> QED BY <1>5, <2>1, <2>2, <2>3 DEF WriteUser, TypeOK, ioVars, logicVars
<1>6. ASSUME WriteWorld PROVE Sound'
  <2>1. Tail(sendQ) \in Seq(SendMsg) /\ Len(Tail(sendQ)) <= SendLen
    BY <1>6, SendPopped DEF WriteWorld
  <2>2. missed' \in BOOLEAN
    BY <1>6 DEF WriteWorld
  <2>3. OnlineCounts' /\ Ranged' /\ Addressed'
    BY <1>6, AddressedKept DEF WriteWorld, OnlineCounts, Ranged, ioVars
  <2> QED BY <1>6, <2>1, <2>2, <2>3 DEF WriteWorld, TypeOK, ioVars, logicVars
<1>7. ASSUME WriteClose PROVE Sound'
  <2>1. Tail(sendQ) \in Seq(SendMsg) /\ Len(Tail(sendQ)) <= SendLen /\ Addressed'
    BY <1>7, SendPopped, AddressedKept DEF WriteClose
  <2>2. PICK f \in Fds : /\ CloseConnect(f)
                         /\ unseen' = IF conn[f] = None THEN unseen ELSE unseen \cup {conn[f]}
    BY <1>7, ClosesOne
  <2>3. /\ conn' \in [Fds -> Clients \cup {None}]
        /\ minFD' \in Fds \cup {INVALID_ID} /\ maxFD' \in Fds \cup {INVALID_ID}
        /\ fdSn' \in [Fds -> Nat] /\ nOnline' \in Nat /\ OnlineCounts' /\ Ranged'
    BY <2>2, ConnectionClosed
  <2>4. unseen' \in SUBSET Clients
    BY <2>2 DEF TypeOK
  <2> QED BY <1>7, <2>1, <2>3, <2>4 DEF WriteClose, TypeOK, logicVars
<1> QED
  BY <1>1, <1>2, <1>3, <1>4, <1>5, <1>6, <1>7 DEF IOStep

LEMMA SentSound ==
  ASSUME Sound, NEW m \in SendMsg, m.kind = "close" => m.to # {}, sendQ' = Sent(m)
  PROVE  sendQ' \in Seq(SendMsg) /\ Len(sendQ') <= SendLen /\ Addressed'
BY SentItems DEF Sound, TypeOK, Addressed

LEMMA LogicKeepsSound ==
  ASSUME Sound, LogicStep
  PROVE  Sound'
<1>1. TypeOK /\ OnlineCounts /\ Ranged /\ Addressed
  BY DEF Sound
<1>2. UNCHANGED <<ioVars, fdSn, strayed, misread, missed>>
  BY DEF LogicStep, HandleLogin, SuspendLogin, HandlePacket, HandleNotice, ResumeLogin, SendUser,
         WorldBroadcast, SendGCDisconnect, ghostVars
<1>3. OnlineCounts' /\ Ranged'
  BY <1>1, <1>2 DEF OnlineCounts, Ranged, ioVars
<1> DEFINE Typed == /\ recvQ \in Seq(RecvMsg) /\ Len(recvQ) <= RecvLen
                    /\ sendQ \in Seq(SendMsg) /\ Len(sendQ) <= SendLen /\ Addressed
                    /\ fd_list \in [Fds -> Clients \cup {None}]
                    /\ suspended \subseteq Fds \X Clients
                    /\ unseen \in SUBSET Clients
<1>4. Typed'
  <2>1. CASE HandleLogin
    BY <1>1, <2>1, RecvPopped DEF HandleLogin, TypeOK, Addressed, ghostVars
  <2>2. CASE SuspendLogin
    <3>1. suspended' \subseteq Fds \X Clients
      BY <1>1, <2>2, RecvPopped DEF SuspendLogin, TypeOK
    <3>2. fd_list' \in [Fds -> Clients \cup {None}]
      BY <1>1, <2>2 DEF SuspendLogin, TypeOK
    <3> QED BY <1>1, <2>2, <3>1, <3>2, RecvPopped DEF SuspendLogin, TypeOK, Addressed, ghostVars
  <2>3. CASE HandlePacket
    BY <1>1, <2>3, RecvPopped DEF HandlePacket, TypeOK, Addressed, logicVars, ghostVars
  <2>4. CASE HandleNotice
    <3>1. \A p \in suspended : p[2] \in Clients
      BY <1>1 DEF TypeOK
    <3>2. unseen' \in SUBSET Clients
      BY <1>1, <2>4, <3>1 DEF HandleNotice, TypeOK
    <3> QED BY <1>1, <2>4, <3>2, RecvPopped DEF HandleNotice, TypeOK, Addressed
  <2>5. ASSUME NEW p \in suspended, ResumeLogin(p[1], p[2]) PROVE Typed'
    <3>1. p[1] \in Fds /\ p[2] \in Clients
      BY <1>1 DEF TypeOK
    <3> QED BY <1>1, <2>5, <3>1 DEF ResumeLogin, TypeOK, Addressed, ghostVars
  <2>6. ASSUME NEW S \in SUBSET Fds, SendUser(S) PROVE Typed'
    <3>1. {To(f, fd_list[f]) : f \in S} \in SUBSET Receiver
      BY <1>1 DEF TypeOK, To, Receiver
    <3>2. [kind |-> "user", to |-> {To(f, fd_list[f]) : f \in S}] \in SendMsg
      BY <3>1 DEF SendMsg
    <3>3. sendQ' \in Seq(SendMsg) /\ Len(sendQ') <= SendLen /\ Addressed'
      BY <2>6, <3>2, SentSound DEF SendUser
    <3> QED BY <1>1, <2>6, <3>3 DEF SendUser, TypeOK, logicVars, ghostVars
  <2>7. CASE WorldBroadcast
    <3>1. [kind |-> "world"] \in SendMsg
      BY DEF SendMsg
    <3>2. sendQ' \in Seq(SendMsg) /\ Len(sendQ') <= SendLen /\ Addressed'
      BY <2>7, <3>1, SentSound DEF WorldBroadcast
    <3> QED BY <1>1, <2>7, <3>2 DEF WorldBroadcast, TypeOK, logicVars, ghostVars
  <2>8. ASSUME NEW f \in Fds, NEW moved \in BOOLEAN, SendGCDisconnect(f, moved) PROVE Typed'
    <3>1. To(f, fd_list[f]) \in Receiver
      BY <1>1 DEF TypeOK, To, Receiver
    <3>2. [kind |-> "close", to |-> {To(f, fd_list[f])}] \in SendMsg
      BY <3>1 DEF SendMsg
    <3>3. sendQ' \in Seq(SendMsg) /\ Len(sendQ') <= SendLen /\ Addressed'
      BY <2>8, <3>2, SentSound DEF SendGCDisconnect
    <3> QED BY <1>1, <2>8, <3>3 DEF SendGCDisconnect, TypeOK, ghostVars
  <2> HIDE DEF Typed
  <2> QED
    BY <2>1, <2>2, <2>3, <2>4, <2>5, <2>6, <2>7, <2>8 DEF LogicStep
<1> QED BY <1>1, <1>2, <1>3, <1>4 DEF Sound, TypeOK, ioVars

LEMMA SoundKept == ASSUME Sound, [Next]_vars PROVE Sound'
<1>1. CASE UNCHANGED vars
  BY <1>1 DEF Sound, TypeOK, OnlineCounts, Ranged, Addressed, vars, ioVars, logicVars, ghostVars
<1> QED BY <1>1, IOKeepsSound, LogicKeepsSound DEF Next

LEMMA SoundBegins == Init => Sound
<1> SUFFICES ASSUME Init PROVE Sound
  OBVIOUS
<1>1. Connected(conn) = {}
  BY DEF Init, Connected
<1>2. OnlineCounts /\ Ranged /\ Addressed
  BY <1>1, FS_EmptySet DEF Init, OnlineCounts, Ranged, Addressed
<1>3. TypeOK
  <2>1. <<>> \in Seq(RecvMsg) /\ <<>> \in Seq(SendMsg) /\ Len(<<>>) = 0
    OBVIOUS
  <2>2. 0 <= RecvLen /\ 0 <= SendLen /\ 0 \in 0 .. MaxConns
    BY LensAssumption
  <2> QED BY <2>1, <2>2 DEF Init, TypeOK, None
<1> QED BY <1>2, <1>3 DEF Sound

(* The queues hold messages between descriptors and clients, the ends of   *)
(* the range are descriptors, and the counts never fall below zero.        *)
THEOREM TypeCorrect == Spec => []TypeOK
<1>1. Sound => TypeOK
  BY DEF Sound
<1> QED BY <1>1, SoundBegins, SoundKept, PTL DEF Spec

(* nOnline is the number of connections, whatever opened and closed.       *)
THEOREM OnlineAlwaysCounts == Spec => []OnlineCounts
<1>1. Sound => OnlineCounts
  BY DEF Sound
<1> QED BY <1>1, SoundBegins, SoundKept, PTL DEF Spec
-----------------------------------------------------------------------------
(* A message to all leaves nobody out: every connection is in the range.   *)
THEOREM WorldAlwaysReachesAll == Spec => []WorldReachesAll
<1> DEFINE Inv == Sound /\ WorldReachesAll
<1>1. Init => Inv
  BY SoundBegins DEF Init, WorldReachesAll
<1>2. ASSUME Inv, [Next]_vars PROVE Inv'
  <2>1. Connected(conn) \subseteq minFD .. maxFD
    <3>1. minFD \in Int /\ maxFD \in Int
      BY <1>2, FdsAssumption DEF Sound, TypeOK, INVALID_ID
    <3> QED BY <1>2, <3>1, ConnectedFinite DEF Sound, Ranged
  <2>2. CASE WriteWorld
    <3>1. missed' = (missed \/ ~(Connected(conn) \subseteq minFD .. maxFD))
      BY <2>2 DEF WriteWorld
    <3>2. WorldReachesAll'
      BY <1>2, <2>1, <3>1, Zenon DEF WorldReachesAll
    <3> QED BY <1>2, <3>2, SoundKept
  <2>3. CASE ~WriteWorld
    <3>1. UNCHANGED missed
      BY <1>2, <2>3 DEF Next, IOStep, LogicStep, Accept, DisconnectNotice, Receive, CloseNoticed,
             WriteUser, WriteClose, HandleLogin, SuspendLogin, HandlePacket, HandleNotice,
             ResumeLogin, SendUser, WorldBroadcast, SendGCDisconnect, vars, ghostVars
    <3>2. WorldReachesAll'
      BY <1>2, <3>1, Zenon DEF WorldReachesAll
    <3> QED BY <1>2, <3>2, SoundKept
  <2> QED BY <2>2, <2>3
<1>3. Inv => WorldReachesAll
  OBVIOUS
<1> HIDE DEF Inv
<1> QED BY <1>1, <1>2, <1>3, PTL DEF Spec
-----------------------------------------------------------------------------
(* While a version lasts, so does the connection: a receiver of a message  *)
(* under way is of an older version, or its connection is still there.     *)
Versioned ==
  \A k \in DOMAIN sendQ : sendQ[k].kind = "user" =>
    \A r \in sendQ[k].to :
      r.sn <= fdSn[r.fd] /\ (r.sn = fdSn[r.fd] => conn[r.fd] = r.held)

LEMMA VersionsRise ==
  ASSUME Sound, [Next]_vars, NEW f \in Fds
  PROVE  fdSn'[f] >= fdSn[f] /\ (fdSn'[f] = fdSn[f] => conn'[f] = conn[f])
<1>0. TypeOK /\ OnlineCounts /\ Ranged /\ Addressed /\ fdSn[f] \in Nat
  BY DEF Sound, TypeOK
<1>1. ASSUME NEW g \in Fds, Accept(g)
      PROVE  fdSn'[f] >= fdSn[f] /\ (fdSn'[f] = fdSn[f] => conn'[f] = conn[f])
  <2>1. /\ fdSn' = [fdSn EXCEPT ![g] = @ + 1]
        /\ conn' = [conn EXCEPT ![g] = nConns + 1]
    BY <1>1 DEF Accept, SetBufferEvent
  <2> QED BY <1>0, <2>1 DEF TypeOK
<1>2. ASSUME NEW g \in Fds, CloseConnect(g)
      PROVE  fdSn'[f] >= fdSn[f] /\ (fdSn'[f] = fdSn[f] => conn'[f] = conn[f])
  BY <1>0, <1>2, ConnectionClosed
<1>3. CASE WriteClose
  BY <1>0, <1>2, <1>3, ClosesOne
<1>4. CASE CloseNoticed
  BY <1>0, <1>2, <1>4 DEF CloseNoticed, TypeOK
<1>5. CASE UNCHANGED <<fdSn, conn>>
  BY <1>0, <1>5
<1> QED
  BY <1>1, <1>3, <1>4, <1>5
  DEF Next, IOStep, LogicStep, DisconnectNotice, Receive, WriteUser, WriteWorld, HandleLogin,
      SuspendLogin, HandlePacket, HandleNotice, ResumeLogin, SendUser, WorldBroadcast,
      SendGCDisconnect, vars, ioVars

LEMMA VersionedKept ==
  ASSUME Sound, Versioned, [Next]_vars
  PROVE  Versioned'
<1>0. TypeOK /\ sendQ \in Seq(SendMsg)
  BY DEF Sound, TypeOK
<1>1. ASSUME NEW S \in SUBSET Fds, SendUser(S) PROVE Versioned'
  <2> DEFINE m == [kind |-> "user", to |-> {To(f, fd_list[f]) : f \in S}]
  <2>1. m \in SendMsg /\ UNCHANGED <<fdSn, conn>> /\ sendQ' = Sent(m) /\ fdSn \in [Fds -> Nat]
    <3>1. {To(f, fd_list[f]) : f \in S} \in SUBSET Receiver
      BY <1>0, <1>1 DEF TypeOK, To, Receiver, SendUser
    <3> QED BY <1>0, <1>1, <3>1 DEF SendMsg, SendUser, ioVars, TypeOK
  <2>2. \A r \in m.to : r.sn = fdSn[r.fd] /\ conn[r.fd] = r.held /\ fdSn[r.fd] \in Nat
    BY <2>1 DEF To
  <2>3. \A k \in DOMAIN sendQ' : (k \in DOMAIN sendQ /\ sendQ'[k] = sendQ[k]) \/ sendQ'[k] = m
    BY <1>0, <2>1, SentItems DEF TypeOK
  <2> HIDE DEF m
  <2> QED BY <2>1, <2>2, <2>3 DEF Versioned
<1>2. CASE \E m \in SendMsg : m.kind # "user" /\ sendQ' = Sent(m) /\ UNCHANGED <<fdSn, conn>>
  <2>1. PICK m \in SendMsg : m.kind # "user" /\ sendQ' = Sent(m) /\ UNCHANGED <<fdSn, conn>>
    BY <1>2
  <2>2. \A k \in DOMAIN sendQ' : (k \in DOMAIN sendQ /\ sendQ'[k] = sendQ[k]) \/ sendQ'[k] = m
    BY <1>0, <2>1, SentItems DEF TypeOK
  <2> QED BY <2>1, <2>2 DEF Versioned
<1>3. CASE sendQ' = sendQ \/ (sendQ # <<>> /\ sendQ' = Tail(sendQ))
  <2>1. ASSUME NEW k \in DOMAIN sendQ', sendQ'[k].kind = "user", NEW r \in sendQ'[k].to
        PROVE  r.sn <= fdSn'[r.fd] /\ (r.sn = fdSn'[r.fd] => conn'[r.fd] = r.held)
    <3>1. PICK j \in DOMAIN sendQ : sendQ'[k] = sendQ[j]
      BY <1>0, <1>3, <2>1, SendPopped
    <3>2. r.sn <= fdSn[r.fd] /\ (r.sn = fdSn[r.fd] => conn[r.fd] = r.held)
      BY <2>1, <3>1 DEF Versioned
    <3>3. sendQ[j] \in SendMsg
      BY <1>0
    <3>4. r.fd \in Fds /\ r.sn \in Nat
      BY <2>1, <3>1, <3>3 DEF SendMsg, Receiver
    <3>5. fdSn'[r.fd] >= fdSn[r.fd] /\ (fdSn'[r.fd] = fdSn[r.fd] => conn'[r.fd] = conn[r.fd])
      BY <3>4, VersionsRise
    <3>6. fdSn[r.fd] \in Nat /\ fdSn'[r.fd] \in Nat
      BY <1>0, <3>4, SoundKept DEF Sound, TypeOK
    <3> QED BY <3>2, <3>4, <3>5, <3>6
  <2> QED BY <2>1 DEF Versioned
<1>4. CASE WorldBroadcast
  <2>1. [kind |-> "world"] \in SendMsg /\ [kind |-> "world"].kind # "user"
    BY DEF SendMsg
  <2> QED BY <1>2, <1>4, <2>1 DEF WorldBroadcast, ioVars
<1>5. ASSUME NEW f \in Fds, NEW moved \in BOOLEAN, SendGCDisconnect(f, moved) PROVE Versioned'
  <2> DEFINE m == [kind |-> "close", to |-> {To(f, fd_list[f])}]
  <2>1. To(f, fd_list[f]) \in Receiver
    BY <1>0 DEF TypeOK, To, Receiver
  <2>2. m \in SendMsg /\ m.kind # "user"
    BY <2>1 DEF SendMsg
  <2>3. sendQ' = Sent(m) /\ UNCHANGED <<fdSn, conn>>
    BY <1>5 DEF SendGCDisconnect, ioVars
  <2> HIDE DEF m
  <2> QED BY <1>2, <2>2, <2>3
<1>6. CASE UNCHANGED sendQ
  BY <1>3, <1>6
<1>7. CASE WriteUser \/ WriteWorld \/ WriteClose
  BY <1>3, <1>7 DEF WriteUser, WriteWorld, WriteClose
<1> QED
  BY <1>1, <1>4, <1>5, <1>6, <1>7
  DEF Next, IOStep, LogicStep, Accept, DisconnectNotice, Receive, CloseNoticed, HandleLogin,
      SuspendLogin, HandlePacket, HandleNotice, ResumeLogin, vars

(* A message is written only to the connection that held its descriptor    *)
(* when the logic thread sent it.                                          *)
THEOREM MessagesNeverStray == Spec => []NeverStrays
<1> DEFINE Inv == Sound /\ Versioned /\ NeverStrays
<1>1. Init => Inv
  BY SoundBegins DEF Init, NeverStrays, Versioned
<1>2. ASSUME Inv, [Next]_vars PROVE Inv'
  <2>1. ASSUME WriteUser PROVE NeverStrays'
    <3>1. /\ sendQ # <<>> /\ Head(sendQ).kind = "user"
          /\ strayed' = (strayed \/ \E r \in Reached(Head(sendQ)) : conn[r.fd] # r.held)
      BY <2>1 DEF WriteUser
    <3>2. Head(sendQ) = sendQ[1] /\ 1 \in DOMAIN sendQ
      BY <1>2, <3>1, SendPopped DEF Sound
    <3>3. \A r \in Reached(Head(sendQ)) : conn[r.fd] = r.held
      BY <1>2, <3>1, <3>2 DEF Reached, Versioned
    <3> QED BY <1>2, <3>1, <3>3, Zenon DEF NeverStrays
  <2>2. ASSUME ~WriteUser PROVE NeverStrays'
    <3>1. UNCHANGED strayed
      BY <1>2, <2>2 DEF Next, IOStep, LogicStep, Accept, DisconnectNotice, Receive, CloseNoticed,
             WriteWorld, WriteClose, HandleLogin, SuspendLogin, HandlePacket, HandleNotice,
             ResumeLogin, SendUser, WorldBroadcast, SendGCDisconnect, vars, ghostVars
    <3> QED BY <1>2, <3>1, Zenon DEF NeverStrays
  <2>3. NeverStrays'
    BY <2>1, <2>2
  <2> QED BY <1>2, <2>3, SoundKept, VersionedKept
<1>3. Inv => NeverStrays
  OBVIOUS
<1> HIDE DEF Inv
<1> QED BY <1>1, <1>2, <1>3, PTL DEF Spec
-----------------------------------------------------------------------------
(* Who has left is announced.  A client is held under a descriptor from    *)
(* position i of the queue on: from 0 if it is listed there or its login   *)
(* is suspended, from the position of its login otherwise.  Its notice     *)
(* follows in the queue once it is gone, and comes before any message of   *)
(* another client on the descriptor, unless the notice was lost (unseen).  *)
Notice(f, c) == [kind |-> "disconnect", fd |-> f, from |-> c]

Held(f, c, i) ==
  \/ i = 0 /\ (fd_list[f] = c \/ <<f, c>> \in suspended)
  \/ /\ i \in DOMAIN recvQ
     /\ recvQ[i].kind = "login" /\ recvQ[i].fd = f /\ recvQ[i].from = c

Gone(f, c) == conn[f] # c \/ noticed = f

Announced(f, c, i, j) ==
  c \in unseen \/ \E n \in DOMAIN recvQ : i < n /\ n < j /\ recvQ[n] = Notice(f, c)

GoneAnnounced ==
  \A f \in Fds, c \in Clients, i \in Nat :
    Held(f, c, i) /\ Gone(f, c) => Announced(f, c, i, Len(recvQ) + 1)

OthersAnnounced ==
  \A f \in Fds, c \in Clients, i \in Nat, k \in DOMAIN recvQ :
    Held(f, c, i) /\ i < k /\ recvQ[k].fd = f /\ recvQ[k].from # c => Announced(f, c, i, k)

LEMMA PopKeepsAnnounced ==
  ASSUME Sound, GoneAnnounced, OthersAnnounced, recvQ # <<>>, recvQ' = Tail(recvQ),
         UNCHANGED <<conn, noticed>>, unseen \subseteq unseen',
         \A f \in Fds, c \in Clients : Held(f, c, 0)' =>
           \/ Held(f, c, 1)
           \/ Held(f, c, 0) /\ Head(recvQ) # Notice(f, c)
           \/ c \in unseen'
  PROVE  GoneAnnounced' /\ OthersAnnounced'
<1>1. /\ Head(recvQ) = recvQ[1] /\ 1 \in DOMAIN recvQ /\ recvQ \in Seq(RecvMsg)
      /\ recvQ' \in Seq(RecvMsg) /\ Len(recvQ') = Len(recvQ) - 1 /\ Len(recvQ) \in Nat
      /\ \A k \in DOMAIN recvQ' : k + 1 \in DOMAIN recvQ /\ recvQ'[k] = recvQ[k + 1]
  BY RecvPopped DEF Sound, TypeOK
<1>2. ASSUME NEW f \in Fds, NEW c \in Clients, NEW i \in Nat, NEW j \in Nat,
             Announced(f, c, i + 1, j + 1)
      PROVE  Announced(f, c, i, j)'
  <2>1. CASE c \in unseen
    BY <2>1 DEF Announced
  <2>2. CASE c \notin unseen
    <3>1. PICK n \in DOMAIN recvQ : i + 1 < n /\ n < j + 1 /\ recvQ[n] = Notice(f, c)
      BY <1>2, <2>2 DEF Announced
    <3>2. n - 1 \in DOMAIN recvQ' /\ recvQ'[n - 1] = recvQ[n] /\ i < n - 1 /\ n - 1 < j
      BY <1>1, <3>1
    <3> QED BY <3>1, <3>2 DEF Announced, Notice
  <2> QED BY <2>1, <2>2
<1>3. ASSUME NEW f \in Fds, NEW c \in Clients, NEW i \in Nat, Held(f, c, i)', c \notin unseen'
      PROVE  \/ Held(f, c, i + 1)
             \/ i = 0 /\ Held(f, c, 0) /\ recvQ[1] # Notice(f, c)
  <2>1. CASE i = 0
    BY <1>1, <1>3, <2>1
  <2>2. CASE i # 0
    BY <1>1, <1>3, <2>2 DEF Held
  <2> QED BY <2>1, <2>2
<1>4. ASSUME NEW f \in Fds, NEW c \in Clients, NEW j \in Nat,
             Announced(f, c, 0, j + 1), recvQ[1] # Notice(f, c)
      PROVE  Announced(f, c, 0 + 1, j + 1)
  BY <1>1, <1>4 DEF Announced
<1>5. ASSUME NEW f \in Fds, NEW c \in Clients, NEW i \in Nat, Held(f, c, i)', Gone(f, c)'
      PROVE  Announced(f, c, i, Len(recvQ) + 1)'
  <2>1. CASE c \in unseen'
    BY <2>1 DEF Announced
  <2>2. CASE c \notin unseen'
    <3>1. Gone(f, c)
      BY <1>5 DEF Gone
    <3>2. Announced(f, c, i + 1, Len(recvQ) + 1)
      <4>1. CASE Held(f, c, i + 1)
        BY <3>1, <4>1 DEF GoneAnnounced
      <4>2. CASE i = 0 /\ Held(f, c, 0) /\ recvQ[1] # Notice(f, c)
        <5>1. Announced(f, c, 0, Len(recvQ) + 1)
          BY <3>1, <4>2 DEF GoneAnnounced
        <5> QED BY <1>1, <1>4, <4>2, <5>1
      <4> QED BY <1>3, <1>5, <2>2, <4>1, <4>2
    <3>3. PICK j \in Nat : j = Len(recvQ)
      BY <1>1
    <3>4. Announced(f, c, i, j)'
      BY <1>2, <3>2, <3>3
    <3>5. j = Len(recvQ') + 1
      BY <1>1, <3>3
    <3> QED BY <3>4, <3>5 DEF Announced
  <2> QED BY <2>1, <2>2
<1>6. ASSUME NEW f \in Fds, NEW c \in Clients, NEW i \in Nat, NEW k \in DOMAIN recvQ',
             Held(f, c, i)', i < k, recvQ'[k].fd = f, recvQ'[k].from # c
      PROVE  Announced(f, c, i, k)'
  <2>1. CASE c \in unseen'
    BY <2>1 DEF Announced
  <2>2. CASE c \notin unseen'
    <3>1. /\ k \in Nat /\ k + 1 \in DOMAIN recvQ /\ i + 1 < k + 1 /\ 0 < k + 1
          /\ recvQ[k + 1].fd = f /\ recvQ[k + 1].from # c
      BY <1>1, <1>6
    <3>2. Announced(f, c, i + 1, k + 1)
      <4>1. CASE Held(f, c, i + 1)
        BY <3>1, <4>1 DEF OthersAnnounced
      <4>2. CASE i = 0 /\ Held(f, c, 0) /\ recvQ[1] # Notice(f, c)
        <5>1. Announced(f, c, 0, k + 1)
          BY <3>1, <4>2 DEF OthersAnnounced
        <5> QED BY <1>4, <3>1, <4>2, <5>1
      <4> QED BY <1>3, <1>6, <2>2, <4>1, <4>2
    <3> QED BY <1>2, <3>1, <3>2
  <2> QED BY <2>1, <2>2
<1> QED BY <1>5, <1>6 DEF GoneAnnounced, OthersAnnounced

LEMMA StillKeepsAnnounced ==
  ASSUME GoneAnnounced, OthersAnnounced, UNCHANGED recvQ, unseen \subseteq unseen',
         \A f \in Fds, c \in Clients :
           /\ Held(f, c, 0)' => Held(f, c, 0)
           /\ Gone(f, c)' => Gone(f, c) \/ c \in unseen'
  PROVE  GoneAnnounced' /\ OthersAnnounced'
<1>1. ASSUME NEW f \in Fds, NEW c \in Clients, NEW i \in Nat, Held(f, c, i)'
      PROVE  Held(f, c, i)
  <2>1. CASE i = 0
    BY <1>1, <2>1
  <2>2. CASE i # 0
    BY <1>1, <2>2 DEF Held
  <2> QED BY <2>1, <2>2
<1>2. ASSUME NEW f \in Fds, NEW c \in Clients, NEW i \in Nat, NEW j \in Nat,
             Announced(f, c, i, j) \/ c \in unseen'
      PROVE  Announced(f, c, i, j)'
  BY <1>2 DEF Announced
<1>3. GoneAnnounced'
  <2>1. ASSUME NEW f \in Fds, NEW c \in Clients, NEW i \in Nat, Held(f, c, i)', Gone(f, c)'
        PROVE  Announced(f, c, i, Len(recvQ) + 1)'
    <3>1. Gone(f, c) \/ c \in unseen'
      BY <2>1
    <3>2. Gone(f, c) => Announced(f, c, i, Len(recvQ) + 1)
      BY <1>1, <2>1 DEF GoneAnnounced
    <3> QED BY <3>1, <3>2 DEF Announced
  <2> QED BY <2>1 DEF GoneAnnounced
<1>4. OthersAnnounced'
  <2>1. ASSUME NEW f \in Fds, NEW c \in Clients, NEW i \in Nat, NEW k \in DOMAIN recvQ',
               Held(f, c, i)', i < k, recvQ'[k].fd = f, recvQ'[k].from # c
        PROVE  Announced(f, c, i, k)'
    <3>1. Announced(f, c, i, k)
      BY <1>1, <2>1 DEF OthersAnnounced
    <3> QED BY <3>1 DEF Announced
  <2> QED BY <2>1 DEF OthersAnnounced
<1> QED BY <1>3, <1>4

LEMMA AppendKeepsAnnounced ==
  ASSUME Sound, GoneAnnounced, OthersAnnounced, noticed = None,
         NEW g \in Fds, NEW kind \in Kinds, conn[g] \in Clients,
         recvQ' = Append(recvQ, [kind |-> kind, fd |-> g, from |-> conn[g]]),
         UNCHANGED <<conn, unseen, fd_list, suspended>>,
         noticed' = None \/ (noticed' = g /\ kind = "disconnect")
  PROVE  GoneAnnounced' /\ OthersAnnounced'
<1> DEFINE x == [kind |-> kind, fd |-> g, from |-> conn[g]]
           end == Len(recvQ) + 1
<1>1. x \in RecvMsg /\ recvQ \in Seq(RecvMsg) /\ None \notin Fds
  BY FdsAssumption DEF RecvMsg, Sound, TypeOK, None
<1>2. /\ end \in Nat /\ Len(recvQ') = end /\ Len(recvQ) \in Nat
      /\ \A k \in DOMAIN recvQ' :
           (k \in DOMAIN recvQ /\ k < end /\ recvQ'[k] = recvQ[k]) \/ (k = end /\ recvQ'[k] = x)
      /\ \A k \in DOMAIN recvQ : k \in DOMAIN recvQ' /\ k < end /\ recvQ'[k] = recvQ[k]
      /\ end \in DOMAIN recvQ' /\ recvQ'[end] = x
  BY <1>1, AppendedItems
<1>3. x.kind = kind /\ x.fd = g /\ x.from = conn[g] /\ (kind = "disconnect" => x = Notice(g, conn[g]))
  BY DEF Notice
<1> HIDE DEF x, end
<1>4. ASSUME NEW f \in Fds, NEW c \in Clients, NEW i \in Nat, Held(f, c, i)'
      PROVE  (Held(f, c, i) /\ i < end) \/ (i = end /\ f = g /\ c = conn[g] /\ kind = "login")
  BY <1>2, <1>3, <1>4 DEF Held
<1>5. ASSUME NEW f \in Fds, NEW c \in Clients, NEW i \in Nat, NEW j \in Nat, NEW m \in Nat,
             Announced(f, c, i, j), j <= m
      PROVE  Announced(f, c, i, m)'
  <2>1. \A n \in DOMAIN recvQ : n < j => n < m
    BY <1>1, <1>5
  <2> QED BY <1>2, <1>5, <2>1 DEF Announced
<1>6. ASSUME NEW f \in Fds, NEW c \in Clients, NEW i \in Nat, Held(f, c, i)', Gone(f, c)'
      PROVE  Announced(f, c, i, Len(recvQ) + 1)'
  <2>1. CASE Held(f, c, i) /\ i < end /\ Gone(f, c)
    <3>1. Announced(f, c, i, end)
      BY <2>1 DEF GoneAnnounced, end
    <3>2. PICK j \in Nat : j = end + 1 /\ end <= j
      BY <1>2
    <3>3. Announced(f, c, i, j)'
      BY <1>2, <1>5, <3>1, <3>2
    <3>4. j = Len(recvQ') + 1
      BY <1>2, <3>2
    <3> QED BY <3>3, <3>4 DEF Announced
  <2>2. CASE ~Gone(f, c)
    <3>1. f = g /\ c = conn[g] /\ kind = "disconnect"
      BY <1>1, <1>6, <2>2 DEF Gone
    <3>2. i < end
      BY <1>4, <1>6, <3>1
    <3>3. recvQ'[end] = Notice(f, c) /\ end < Len(recvQ') + 1
      BY <1>2, <1>3, <3>1
    <3> QED BY <1>2, <3>2, <3>3 DEF Announced, Notice
  <2>3. CASE i = end /\ f = g /\ c = conn[g] /\ kind = "login" /\ Gone(f, c)
    BY <1>1, <2>3 DEF Gone
  <2> QED BY <1>4, <1>6, <2>1, <2>2, <2>3
<1>7. ASSUME NEW f \in Fds, NEW c \in Clients, NEW i \in Nat, NEW k \in DOMAIN recvQ',
             Held(f, c, i)', i < k, recvQ'[k].fd = f, recvQ'[k].from # c
      PROVE  Announced(f, c, i, k)'
  <2>1. k \in Nat /\ k <= end
    BY <1>2
  <2>2. Held(f, c, i)
    BY <1>2, <1>4, <1>7, <2>1
  <2>3. CASE k \in DOMAIN recvQ /\ recvQ'[k] = recvQ[k]
    <3>1. Announced(f, c, i, k)
      BY <1>7, <2>2, <2>3 DEF OthersAnnounced
    <3> QED BY <1>5, <2>1, <3>1
  <2>4. CASE k = end /\ recvQ'[k] = x
    <3>1. Gone(f, c)
      BY <1>3, <1>7, <2>4 DEF Gone
    <3>2. Announced(f, c, i, end)
      BY <2>2, <3>1 DEF GoneAnnounced, end
    <3> QED BY <1>2, <1>5, <2>4, <3>2
  <2> QED BY <1>2, <2>3, <2>4
<1> QED BY <1>6, <1>7 DEF GoneAnnounced, OthersAnnounced

LEMMA IOKeepsAnnounced ==
  ASSUME Sound, GoneAnnounced, OthersAnnounced, IOStep
  PROVE  GoneAnnounced' /\ OthersAnnounced'
<1>0. TypeOK /\ OnlineCounts /\ Ranged /\ Addressed /\ None \notin Fds /\ None \notin Clients
  BY FdsAssumption, LensAssumption DEF Sound, None, Clients
<1>1. ASSUME NEW g \in Fds, Accept(g) PROVE GoneAnnounced' /\ OthersAnnounced'
  <2>1. /\ noticed = None /\ conn[g] = None /\ conn' = [conn EXCEPT ![g] = nConns + 1]
        /\ UNCHANGED <<noticed, recvQ, unseen, fd_list, suspended>>
    BY <1>1 DEF Accept, SetBufferEvent, logicVars, ghostVars
  <2>2. \A f \in Fds, c \in Clients : Gone(f, c)' => Gone(f, c)
    BY <1>0, <2>1 DEF Gone, TypeOK
  <2>3. \A f \in Fds, c \in Clients : Held(f, c, 0)' => Held(f, c, 0)
    BY <2>1 DEF Held
  <2> QED BY <2>1, <2>2, <2>3, StillKeepsAnnounced
<1>2. ASSUME NEW g \in Fds, DisconnectNotice(g) PROVE GoneAnnounced' /\ OthersAnnounced'
  <2>1. conn[g] \in Clients /\ noticed = None /\ noticed' = g
        /\ UNCHANGED <<conn, fd_list, suspended>>
    BY <1>0, <1>2 DEF DisconnectNotice, TypeOK, logicVars
  <2>2. CASE Len(recvQ) < RecvLen
    <3>1. /\ recvQ' = Append(recvQ, [kind |-> "disconnect", fd |-> g, from |-> conn[g]])
          /\ UNCHANGED unseen /\ "disconnect" \in Kinds
      BY <1>2, <2>2 DEF DisconnectNotice, Kinds
    <3> QED BY <2>1, <3>1, AppendKeepsAnnounced
  <2>3. CASE ~(Len(recvQ) < RecvLen)
    <3>1. UNCHANGED recvQ /\ unseen' = unseen \cup {conn[g]}
      BY <1>2, <2>3 DEF DisconnectNotice
    <3>2. \A f \in Fds, c \in Clients : Gone(f, c)' => Gone(f, c) \/ c \in unseen'
      BY <1>0, <2>1, <3>1 DEF Gone
    <3>3. \A f \in Fds, c \in Clients : Held(f, c, 0)' => Held(f, c, 0)
      BY <2>1, <3>1 DEF Held
    <3> QED BY <3>1, <3>2, <3>3, StillKeepsAnnounced
  <2> QED BY <2>2, <2>3
<1>3. ASSUME NEW g \in Fds, NEW kind \in Kinds, Receive(g, kind)
      PROVE  GoneAnnounced' /\ OthersAnnounced'
  <2>1. /\ conn[g] \in Clients /\ noticed = None /\ noticed' = None
        /\ recvQ' = Append(recvQ, [kind |-> kind, fd |-> g, from |-> conn[g]])
        /\ UNCHANGED <<conn, unseen, fd_list, suspended>>
    BY <1>0, <1>3 DEF Receive, TypeOK, ioVars, logicVars, ghostVars
  <2> QED BY <2>1, AppendKeepsAnnounced
<1>4. ASSUME CloseNoticed PROVE GoneAnnounced' /\ OthersAnnounced'
  <2>1. noticed \in Fds /\ CloseConnect(noticed) /\ noticed' = None
        /\ UNCHANGED <<recvQ, unseen, fd_list, suspended>>
    BY <1>0, <1>4 DEF CloseNoticed, TypeOK, logicVars, ghostVars
  <2>2. \A f \in Fds : conn'[f] = IF f = noticed THEN None ELSE conn[f]
    BY <1>0, <2>1, ConnectionClosed
  <2>3. \A f \in Fds, c \in Clients : Gone(f, c)' => Gone(f, c)
    BY <1>0, <2>1, <2>2 DEF Gone
  <2>4. \A f \in Fds, c \in Clients : Held(f, c, 0)' => Held(f, c, 0)
    BY <2>1 DEF Held
  <2> QED BY <2>1, <2>3, <2>4, StillKeepsAnnounced
<1>5. ASSUME WriteClose PROVE GoneAnnounced' /\ OthersAnnounced'
  <2>1. PICK g \in Fds : /\ CloseConnect(g)
                         /\ unseen' = IF conn[g] = None THEN unseen ELSE unseen \cup {conn[g]}
    BY <1>0, <1>5, ClosesOne
  <2>2. UNCHANGED <<noticed, recvQ, fd_list, suspended>>
    BY <1>5 DEF WriteClose, logicVars
  <2>3. \A f \in Fds : conn'[f] = IF f = g THEN None ELSE conn[f]
    BY <1>0, <2>1, ConnectionClosed
  <2>4. \A f \in Fds, c \in Clients : Gone(f, c)' => Gone(f, c) \/ c \in unseen'
    BY <1>0, <2>1, <2>2, <2>3 DEF Gone
  <2>5. \A f \in Fds, c \in Clients : Held(f, c, 0)' => Held(f, c, 0)
    BY <2>2 DEF Held
  <2>6. unseen \subseteq unseen'
    BY <2>1
  <2> QED BY <2>2, <2>4, <2>5, <2>6, StillKeepsAnnounced
<1>6. CASE WriteUser \/ WriteWorld
  <2>1. UNCHANGED <<conn, noticed, recvQ, unseen, fd_list, suspended>>
    BY <1>6 DEF WriteUser, WriteWorld, ioVars, logicVars
  <2> QED BY <2>1, StillKeepsAnnounced DEF Gone, Held
<1> QED BY <1>1, <1>2, <1>3, <1>4, <1>5, <1>6 DEF IOStep

LEMMA LogicKeepsAnnounced ==
  ASSUME Sound, GoneAnnounced, OthersAnnounced, LogicStep
  PROVE  GoneAnnounced' /\ OthersAnnounced'
<1>0. TypeOK /\ UNCHANGED <<conn, noticed>>
  BY DEF Sound, LogicStep, HandleLogin, SuspendLogin, HandlePacket, HandleNotice, ResumeLogin,
         SendUser, WorldBroadcast, SendGCDisconnect, ioVars
<1>1. CASE HandleLogin
  <2>1. /\ recvQ # <<>> /\ recvQ' = Tail(recvQ) /\ Head(recvQ).kind = "login"
        /\ fd_list' = [fd_list EXCEPT ![Head(recvQ).fd] = Head(recvQ).from]
        /\ UNCHANGED <<unseen, suspended>>
    BY <1>1 DEF HandleLogin, ghostVars
  <2>2. /\ Head(recvQ) = recvQ[1] /\ 1 \in DOMAIN recvQ
        /\ fd_list \in [Fds -> Clients \cup {None}]
    BY <1>0, <2>1, RecvPopped DEF TypeOK
  <2>3. \A f \in Fds, c \in Clients : Held(f, c, 0)' =>
          Held(f, c, 1) \/ (Held(f, c, 0) /\ Head(recvQ) # Notice(f, c))
    BY <2>1, <2>2 DEF Held, Notice
  <2> QED BY <1>0, <2>1, <2>3, PopKeepsAnnounced
<1>2. CASE SuspendLogin
  <2>1. /\ recvQ # <<>> /\ recvQ' = Tail(recvQ) /\ Head(recvQ).kind = "login"
        /\ fd_list' = [fd_list EXCEPT ![Head(recvQ).fd] = None]
        /\ suspended' = suspended \cup {<<Head(recvQ).fd, Head(recvQ).from>>}
        /\ UNCHANGED unseen
    BY <1>2 DEF SuspendLogin, ghostVars
  <2>2. /\ Head(recvQ) = recvQ[1] /\ 1 \in DOMAIN recvQ /\ None \notin Clients
        /\ fd_list \in [Fds -> Clients \cup {None}]
    BY <1>0, <2>1, RecvPopped, LensAssumption DEF TypeOK, None, Clients
  <2>3. \A f \in Fds, c \in Clients : Held(f, c, 0)' =>
          Held(f, c, 1) \/ (Held(f, c, 0) /\ Head(recvQ) # Notice(f, c))
    BY <2>1, <2>2 DEF Held, Notice
  <2> QED BY <1>0, <2>1, <2>3, PopKeepsAnnounced
<1>3. CASE HandlePacket
  <2>1. /\ recvQ # <<>> /\ recvQ' = Tail(recvQ) /\ Head(recvQ).kind = "packet"
        /\ UNCHANGED <<fd_list, unseen, suspended>>
    BY <1>3 DEF HandlePacket, logicVars, ghostVars
  <2>2. \A f \in Fds, c \in Clients : Held(f, c, 0)' =>
          Held(f, c, 0) /\ Head(recvQ) # Notice(f, c)
    BY <2>1 DEF Held, Notice
  <2> QED BY <1>0, <2>1, <2>2, PopKeepsAnnounced
<1>4. CASE HandleNotice
  <2>1. /\ recvQ # <<>> /\ recvQ' = Tail(recvQ)
        /\ fd_list' = [fd_list EXCEPT ![Head(recvQ).fd] = None]
        /\ unseen' = unseen \cup {p[2] : p \in {q \in suspended : q[1] = Head(recvQ).fd}}
        /\ UNCHANGED suspended
    BY <1>4 DEF HandleNotice
  <2>2. /\ Head(recvQ).fd \in Fds /\ None \notin Clients
        /\ fd_list \in [Fds -> Clients \cup {None}]
    BY <1>0, <2>1, RecvPopped, LensAssumption DEF TypeOK, None, Clients
  <2>3. ASSUME NEW f \in Fds, NEW c \in Clients, Held(f, c, 0)'
        PROVE  (Held(f, c, 0) /\ Head(recvQ) # Notice(f, c)) \/ c \in unseen'
    <3>1. CASE f = Head(recvQ).fd
      <4>1. <<f, c>> \in suspended
        BY <2>1, <2>2, <2>3, <3>1 DEF Held
      <4>2. <<f, c>>[2] \in unseen'
        BY <2>1, <3>1, <4>1
      <4> QED BY <4>2
    <3>2. CASE f # Head(recvQ).fd
      BY <2>1, <2>2, <2>3, <3>2 DEF Held, Notice
    <3> QED BY <3>1, <3>2
  <2>4. unseen \subseteq unseen'
    BY <2>1
  <2> QED BY <1>0, <2>1, <2>3, <2>4, PopKeepsAnnounced
<1>5. ASSUME NEW p \in suspended, ResumeLogin(p[1], p[2])
      PROVE  GoneAnnounced' /\ OthersAnnounced'
  <2>1. /\ UNCHANGED <<recvQ, unseen>> /\ <<p[1], p[2]>> \in suspended
        /\ suspended' \subseteq suspended /\ p[1] \in Fds
        /\ fd_list' = fd_list \/ fd_list' = [fd_list EXCEPT ![p[1]] = p[2]]
        /\ fd_list \in [Fds -> Clients \cup {None}]
    BY <1>0, <1>5 DEF ResumeLogin, TypeOK, ghostVars
  <2>2. \A f \in Fds, c \in Clients : Held(f, c, 0)' => Held(f, c, 0)
    BY <2>1 DEF Held
  <2>3. \A f \in Fds, c \in Clients : Gone(f, c)' => Gone(f, c)
    BY <1>0 DEF Gone
  <2> QED BY <2>1, <2>2, <2>3, StillKeepsAnnounced
<1>6. ASSUME NEW g \in Fds, NEW moved \in BOOLEAN, SendGCDisconnect(g, moved)
      PROVE  GoneAnnounced' /\ OthersAnnounced'
  <2>1. /\ UNCHANGED <<recvQ, unseen, suspended>> /\ None \notin Clients
        /\ fd_list' = fd_list \/ fd_list' = [fd_list EXCEPT ![g] = None]
        /\ fd_list \in [Fds -> Clients \cup {None}]
    BY <1>0, <1>6, LensAssumption DEF SendGCDisconnect, TypeOK, ghostVars, None, Clients
  <2>2. \A f \in Fds, c \in Clients : Held(f, c, 0)' => Held(f, c, 0)
    BY <2>1 DEF Held
  <2>3. \A f \in Fds, c \in Clients : Gone(f, c)' => Gone(f, c)
    BY <1>0 DEF Gone
  <2> QED BY <2>1, <2>2, <2>3, StillKeepsAnnounced
<1>7. CASE UNCHANGED <<recvQ, unseen, fd_list, suspended>>
  BY <1>0, <1>7, StillKeepsAnnounced DEF Gone, Held
<1> QED
  BY <1>1, <1>2, <1>3, <1>4, <1>5, <1>6, <1>7
  DEF LogicStep, SendUser, WorldBroadcast, logicVars, ghostVars

LEMMA AnnouncedKept ==
  ASSUME Sound, GoneAnnounced, OthersAnnounced, [Next]_vars
  PROVE  GoneAnnounced' /\ OthersAnnounced'
<1>1. CASE UNCHANGED vars
  BY <1>1, StillKeepsAnnounced DEF vars, ioVars, logicVars, ghostVars, Gone, Held
<1> QED BY <1>1, IOKeepsAnnounced, LogicKeepsAnnounced DEF Next

LEMMA AnnouncedBegins == Init => GoneAnnounced /\ OthersAnnounced
<1> SUFFICES ASSUME Init PROVE GoneAnnounced /\ OthersAnnounced
  OBVIOUS
<1>1. \A f \in Fds, c \in Clients, i \in Nat : ~Held(f, c, i)
  BY LensAssumption DEF Init, Held, Clients, None
<1> QED BY <1>1 DEF GoneAnnounced, OthersAnnounced

(* A character listed under a descriptor that its client no longer holds   *)
(* is about to be taken off, unless the notice was lost.                   *)
THEOREM StaleAlwaysNoticed == Spec => []StaleIsNoticed
<1> DEFINE Inv == Sound /\ GoneAnnounced /\ OthersAnnounced
<1>1. Init => Inv
  BY SoundBegins, AnnouncedBegins
<1>2. Inv /\ [Next]_vars => Inv'
  BY SoundKept, AnnouncedKept
<1>3. Inv => StaleIsNoticed
  <2> SUFFICES ASSUME Inv, NEW f \in Fds, fd_list[f] # None, fd_list[f] # conn[f]
               PROVE  \/ fd_list[f] \in unseen
                      \/ \E k \in DOMAIN recvQ : recvQ[k] = Notice(f, fd_list[f])
    BY DEF StaleIsNoticed, Notice
  <2>1. fd_list[f] \in Clients /\ Held(f, fd_list[f], 0) /\ Gone(f, fd_list[f])
    BY DEF Sound, TypeOK, Held, Gone
  <2>2. Announced(f, fd_list[f], 0, Len(recvQ) + 1)
    BY <2>1 DEF GoneAnnounced
  <2> QED BY <2>2 DEF Announced
<1> HIDE DEF Inv
<1> QED BY <1>1, <1>2, <1>3, PTL DEF Spec

(* A packet is handled as its sender's or as nobody's, unless the notice   *)
(* of the client that is listed was lost.                                  *)
THEOREM AlwaysHandledForSender == Spec => []HandledForSender
<1> DEFINE Inv == Sound /\ GoneAnnounced /\ OthersAnnounced
<1>1. Init => Inv
  BY SoundBegins, AnnouncedBegins
<1>2. Inv /\ [Next]_vars => Inv'
  BY SoundKept, AnnouncedKept
<1>3. Inv => HandledForSender
  <2> SUFFICES ASSUME Inv, recvQ # <<>>, Head(recvQ).kind = "packet"
               PROVE  fd_list[Head(recvQ).fd] \in {None, Head(recvQ).from} \cup unseen
    BY DEF HandledForSender
  <2> DEFINE f == Head(recvQ).fd
             c == fd_list[f]
  <2>1. Head(recvQ) = recvQ[1] /\ 1 \in DOMAIN recvQ /\ f \in Fds /\ c \in Clients \cup {None}
    BY RecvPopped DEF Sound, TypeOK
  <2>2. CASE c # None /\ c # Head(recvQ).from
    <3>1. c \in Clients /\ Held(f, c, 0)
      BY <2>1, <2>2 DEF Held
    <3>2. Announced(f, c, 0, 1)
      BY <2>1, <2>2, <3>1 DEF OthersAnnounced
    <3>3. \A n \in DOMAIN recvQ : ~(0 < n /\ n < 1)
      BY DEF Sound, TypeOK
    <3> QED BY <3>2, <3>3 DEF Announced
  <2> QED BY <2>2
<1> HIDE DEF Inv
<1> QED BY <1>1, <1>2, <1>3, PTL DEF Spec
=============================================================================
