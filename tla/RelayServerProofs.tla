------------------------- MODULE RelayServerProofs -------------------------
(***************************************************************************)
(* What holds of RelayServer for every set of connections, of devices and  *)
(* of events: types, the registry and the wait lists, and the lock; then   *)
(* the client lists, each of which holds the viewers of its node and no    *)
(* more; what keeps a node alive while it is used; and the refinement of   *)
(* ViewerSpec.                                                             *)
(***************************************************************************)
EXTENDS RelayServer, SequenceTheorems, WellFoundedInduction, TLAPS

-----------------------------------------------------------------------------
(* list_delete on a client list.                                             *)

\* A set of natural numbers that is not empty has a smallest one.
LEMMA MinOfNats ==
  ASSUME NEW T \in SUBSET Nat, T # {}
  PROVE  Min(T) \in T
<1>1. PICK x \in T : \A y \in T : ~ (<<y, x>> \in OpToRel(<, Nat))
  <2> DEFINE R == OpToRel(<, Nat)
  <2>1. IsWellFoundedOn(R, Nat)
    BY NatLessThanWellFounded, Zenon
  <2> HIDE DEF R
  <2>2. \E x \in T : \A y \in T : ~ (<<y, x>> \in R)
    BY <2>1, WFMin, Zenon
  <2> QED
    BY <2>2, Zenon DEF R
<1>2. \A y \in T : x =< y
  <2> SUFFICES ASSUME NEW y \in T, y < x
               PROVE  FALSE
    OBVIOUS
  <2>1. OpToRel(<, Nat) = {p \in Nat \X Nat : p[1] < p[2]}
    BY Zenon DEF OpToRel
  <2>2. <<y, x>> \in {p \in Nat \X Nat : p[1] < p[2]}
    OBVIOUS
  <2> QED
    BY <1>1, <2>1, <2>2, Zenon
<1> QED
  BY <1>2 DEF Min

\* Taking a client out of a list leaves a list of clients.
LEMMA RemoveFirstType ==
  ASSUME NEW S, NEW s \in Seq(S), NEW e
  PROVE  RemoveFirst(s, e) \in Seq(S)
<1>1. CASE ~ \E i \in 1..Len(s) : s[i] = e
  BY <1>1 DEF RemoveFirst
<1>2. CASE \E i \in 1..Len(s) : s[i] = e
  <2> DEFINE I == {i \in 1..Len(s) : s[i] = e}
             k == Min(I)
  <2>1. RemoveFirst(s, e) = RemoveAt(s, k)
    BY <1>2 DEF RemoveFirst, SelectInSeq
  <2>2. k \in 1..Len(s)
    <3>1. I \in SUBSET Nat /\ I # {}
      BY <1>2
    <3> HIDE DEF I
    <3>2. k \in I
      BY <3>1, MinOfNats
    <3> QED
      BY <3>2 DEF I
  <2> HIDE DEF k
  <2>3. SubSeq(s, 1, k - 1) \in Seq(S)
    BY <2>2, SubSeqProperties
  <2>4. SubSeq(s, k + 1, Len(s)) \in Seq(S)
    BY <2>2, SubSeqProperties
  <2> QED
    BY <2>1, <2>3, <2>4 DEF RemoveAt
<1> QED
  BY <1>1, <1>2

-----------------------------------------------------------------------------
(* Type correctness.                                                         *)

\* The sets the type invariant is made of, and what every action uses.
USE DEF Node, SigStates, VideoStates, ReaderPcs, FaultSites, TypeOK
USE DEF registry, conns, loopVars, readers
USE DEF LoopReady, LoopAt, ReaderAt, LoopMayLock, Allocated, Fault, Resume, Return
USE DEF Listed, Unlist, Unlock, UnlockIfKnown, DestroyWaiters, Answered, FreeDevBev
USE DEF Unused, NoClient, Flagged, Goto

\* Initially every variable has its type.
LEMMA TypeInit == Init => TypeOK
BY ConnAssumption DEF Init, TypeRegistry, TypeClients, TypeConns, TypeControl, TypeRefs

\* The signalling callbacks keep the types.
LEMMA TypeSignalling ==
  ASSUME TypeOK, NEW c \in Conn, Signalling(c)
  PROVE  TypeOK'
<1>0. \A n \in Node : Append(clients[n], c) \in Seq(Conn)
  BY AppendProperties DEF TypeClients
<1>1. CASE Accept(c)
  BY <1>1 DEF TypeRegistry, TypeClients, TypeConns, TypeControl, TypeRefs, Accept
<1>2. CASE DealBadCmd(c)
  BY <1>2 DEF TypeRegistry, TypeClients, TypeConns, TypeControl, TypeRefs, DealBadCmd
<1>3. CASE ForwardCmd(c)
  BY <1>3 DEF TypeRegistry, TypeClients, TypeConns, TypeControl, TypeRefs, ForwardCmd
<1>5. CASE deal_client_cmd_error_cb1(c)
  BY <1>5 DEF TypeRegistry, TypeClients, TypeConns, TypeControl, TypeRefs, deal_client_cmd_error_cb1
<1>6. ASSUME NEW d \in Wants[c], OpenUnlisted(c, d)
      PROVE  TypeOK'
  <2>1. d \in Dev /\ Decoded[d] \in Dev
    BY WantsAssumption, DecodedAssumption
  <2>2. TypeRegistry'
    BY <1>6, <2>1 DEF TypeRegistry, OpenUnlisted, NewNode
  <2>3. TypeClients'
    BY <1>6 DEF TypeClients, OpenUnlisted, NewNode
  <2>4. TypeConns'
    BY <1>6 DEF TypeConns, OpenUnlisted, NewNode
  <2>5. TypeControl'
    BY <1>6 DEF TypeControl, OpenUnlisted, NewNode
  <2>6. TypeRefs'
    BY <1>6, ConnAssumption DEF TypeRefs, TypeRegistry, TypeConns, TypeControl, OpenUnlisted, NewNode
  <2> QED
    BY <2>2, <2>3, <2>4, <2>5, <2>6
<1>7. ASSUME NEW d \in Wants[c], OpenListed(c, d)
      PROVE  TypeOK'
  <2>1. TypeRegistry'
    BY <1>7 DEF TypeRegistry, OpenListed
  <2>2. TypeClients'
    BY <1>7 DEF TypeClients, OpenListed
  <2>3. TypeConns'
    BY <1>7 DEF TypeRegistry, TypeConns, OpenListed
  <2>4. TypeControl'
    BY <1>7 DEF TypeControl, OpenListed
  <2>5. TypeRefs'
    BY <1>7, ConnAssumption DEF TypeRefs, TypeRegistry, TypeConns, TypeControl, OpenListed
  <2> QED
    BY <2>1, <2>2, <2>3, <2>4, <2>5
<1>8. ASSUME NEW d \in Wants[c], push_stream(c, d)
      PROVE  TypeOK'
  <2>1. d \in Dev /\ Decoded[d] \in Dev
    BY WantsAssumption, DecodedAssumption
  <2>2. TypeRegistry'
    BY <1>8, <2>1 DEF TypeRegistry, push_stream, NewNode
  <2>3. TypeClients'
    BY <1>8 DEF TypeClients, push_stream, NewNode
  <2>4. TypeConns'
    BY <1>8 DEF TypeRegistry, TypeConns, push_stream, NewNode
  <2>5. TypeControl'
    BY <1>8 DEF TypeControl, push_stream, NewNode
  <2>6. TypeRefs'
    BY <1>8, ConnAssumption DEF TypeRefs, TypeRegistry, TypeConns, TypeControl, push_stream, NewNode
  <2> QED
    BY <2>2, <2>3, <2>4, <2>5, <2>6
<1>9. CASE DealServerInfo(c)
  <2>1. node[c] \in Node
    BY <1>9 DEF DealServerInfo, TypeRefs, TypeConns
  <2>2. TypeRegistry'
    BY <1>9, <1>0 DEF TypeRegistry, DealServerInfo, AddViewer
  <2>3. TypeClients'
    BY <1>9, <1>0, <2>1 DEF TypeClients, DealServerInfo, AddViewer
  <2>4. TypeConns'
    BY <1>9, <1>0 DEF TypeConns, DealServerInfo, AddViewer
  <2>5. TypeControl'
    BY <1>9, <1>0 DEF TypeControl, DealServerInfo, AddViewer
  <2>6. TypeRefs'
    BY <1>9, <1>0, ConnAssumption DEF TypeRefs, TypeRegistry, TypeConns, TypeControl, DealServerInfo, AddViewer
  <2> QED
    BY <2>2, <2>3, <2>4, <2>5, <2>6
<1>10. CASE deal_client_cmd_error_cb2(c)
  <2>1. TypeRegistry'
    BY <1>10 DEF TypeRegistry, deal_client_cmd_error_cb2
  <2>2. TypeClients'
    BY <1>10 DEF TypeClients, deal_client_cmd_error_cb2
  <2>3. TypeConns'
    BY <1>10 DEF TypeConns, deal_client_cmd_error_cb2
  <2>4. TypeControl'
    BY <1>10 DEF TypeControl, deal_client_cmd_error_cb2
  <2>5. TypeRefs'
    BY <1>10, ConnAssumption DEF TypeRefs, TypeRegistry, TypeConns, TypeControl, deal_client_cmd_error_cb2
  <2> QED
    BY <2>1, <2>2, <2>3, <2>4, <2>5
<1>11. CASE PeerLostUnseen(c)
  BY <1>11 DEF TypeRegistry, TypeClients, TypeConns, TypeControl, TypeRefs, PeerLostUnseen
<1> QED
  BY <1>1, <1>2, <1>3, <1>5, <1>6, <1>7, <1>8, <1>9, <1>10, <1>11 DEF Signalling

\* So does the broadcast of the SDP.
LEMMA TypeBroadcast ==
  ASSUME TypeOK, NEW n \in Node, Broadcast(n)
  PROVE  TypeOK'
<1>1. TypeRegistry'
  BY DEF TypeRegistry, Broadcast
<1>2. TypeClients'
  BY DEF TypeClients, Broadcast
<1>3. TypeConns'
  BY DEF TypeConns, TypeRegistry, Broadcast
<1>4. TypeControl'
  BY DEF TypeControl, Broadcast
<1>5. TypeRefs'
  <2>1. loopPc' = loopPc /\ loopConn' = loopConn /\ video' = video /\ pc' = pc
    BY DEF Broadcast
  <2>2. ASSUME NEW c \in Conn, node'[c] = None
        PROVE  node[c] = None /\ sig'[c] = sig[c]
    BY <2>2, ConnAssumption DEF TypeRegistry, TypeConns, Broadcast
  <2> QED
    BY <2>1, <2>2 DEF TypeRefs
<1> QED
  BY <1>1, <1>2, <1>3, <1>4, <1>5

\* So do the callbacks on the connection to a camera.
LEMMA TypeSdpPhase ==
  ASSUME TypeOK, NEW n \in Node, SdpPhase(n)
  PROVE  TypeOK'
<1>1. CASE DevConnected(n)
  <2>1. TypeRegistry'
    BY <1>1 DEF TypeRegistry, DevConnected
  <2>2. TypeClients'
    BY <1>1 DEF TypeClients, DevConnected
  <2>3. TypeConns'
    BY <1>1 DEF TypeConns, DevConnected
  <2>4. TypeControl'
    BY <1>1 DEF TypeControl, DevConnected
  <2>5. TypeRefs'
    BY <1>1, ConnAssumption DEF TypeRefs, TypeRegistry, TypeConns, TypeControl, DevConnected
  <2> QED
    BY <2>1, <2>2, <2>3, <2>4, <2>5
<1>2. CASE DevLost(n)
  <2>1. TypeRegistry'
    BY <1>2 DEF TypeRegistry, DevLost
  <2>2. TypeClients'
    BY <1>2 DEF TypeClients, DevLost
  <2>3. TypeConns'
    BY <1>2 DEF TypeConns, DevLost
  <2>4. TypeControl'
    BY <1>2 DEF TypeControl, DevLost
  <2>5. TypeRefs'
    BY <1>2, ConnAssumption DEF TypeRefs, TypeRegistry, TypeConns, TypeControl, DevLost
  <2> QED
    BY <2>1, <2>2, <2>3, <2>4, <2>5
<1>3. ASSUME read_dev_sdp_basic_cb(n), ~ Broadcast(n)
      PROVE  TypeOK'
  <2>1. TypeRegistry'
    BY <1>3 DEF TypeRegistry, read_dev_sdp_basic_cb
  <2>2. TypeClients'
    BY <1>3 DEF TypeClients, read_dev_sdp_basic_cb
  <2>3. TypeConns'
    BY <1>3 DEF TypeConns, read_dev_sdp_basic_cb
  <2>4. TypeControl'
    BY <1>3 DEF TypeControl, read_dev_sdp_basic_cb
  <2>5. TypeRefs'
    BY <1>3, ConnAssumption DEF TypeRefs, TypeRegistry, TypeConns, TypeControl, read_dev_sdp_basic_cb
  <2> QED
    BY <2>1, <2>2, <2>3, <2>4, <2>5
<1>4. CASE read_dev_sdp_digest_cb(n)
  BY <1>4, TypeBroadcast DEF read_dev_sdp_digest_cb
<1> QED
  BY <1>1, <1>2, <1>3, <1>4, TypeBroadcast DEF SdpPhase

\* So do those on a video connection.
LEMMA TypeVideoConnection ==
  ASSUME TypeOK, NEW c \in Conn, VideoConnection(c)
  PROVE  TypeOK'
<1>0. \A n \in Node : RemoveFirst(clients[n], c) \in Seq(Conn)
  BY RemoveFirstType DEF TypeClients
<1>1. CASE VideoConnected(c)
  <2>1. TypeRegistry'
    BY <1>1 DEF TypeRegistry, VideoConnected
  <2>2. TypeClients'
    BY <1>1 DEF TypeClients, VideoConnected
  <2>3. TypeConns'
    BY <1>1 DEF TypeConns, VideoConnected
  <2>4. TypeControl'
    BY <1>1 DEF TypeControl, VideoConnected
  <2>5. TypeRefs'
    BY <1>1, ConnAssumption DEF TypeRefs, TypeRegistry, TypeConns, TypeControl, VideoConnected
  <2> QED
    BY <2>1, <2>2, <2>3, <2>4, <2>5
<1>2. CASE VideoRefused(c)
  <2>1. node[c] \in Node
    BY <1>2 DEF VideoRefused, TypeRefs, TypeConns
  <2>2. TypeRegistry'
    BY <1>2, <1>0 DEF TypeRegistry, VideoRefused
  <2>3. TypeClients'
    BY <1>2, <1>0, <2>1 DEF TypeClients, VideoRefused
  <2>4. TypeConns'
    BY <1>2, <1>0 DEF TypeConns, VideoRefused
  <2>5. TypeControl'
    BY <1>2, <1>0 DEF TypeControl, VideoRefused
  <2>6. TypeRefs'
    BY <1>2, <1>0, ConnAssumption DEF TypeRefs, TypeRegistry, TypeConns, TypeControl, VideoRefused
  <2> QED
    BY <2>2, <2>3, <2>4, <2>5, <2>6
<1>3. CASE send_rtsp_to_server_event_error_cb(c)
  <2>1. TypeRegistry'
    BY <1>3 DEF TypeRegistry, send_rtsp_to_server_event_error_cb
  <2>2. TypeClients'
    BY <1>3 DEF TypeClients, send_rtsp_to_server_event_error_cb
  <2>3. TypeConns'
    BY <1>3 DEF TypeConns, send_rtsp_to_server_event_error_cb
  <2>4. TypeControl'
    BY <1>3 DEF TypeControl, send_rtsp_to_server_event_error_cb
  <2>5. TypeRefs'
    BY <1>3, ConnAssumption DEF TypeRefs, TypeRegistry, TypeConns, TypeControl, send_rtsp_to_server_event_error_cb
  <2> QED
    BY <2>1, <2>2, <2>3, <2>4, <2>5
<1> QED
  BY <1>1, <1>2, <1>3 DEF VideoConnection

\* And the loop where it resumes.
LEMMA TypeLoopResumes ==
  ASSUME TypeOK, LoopResumes
  PROVE  TypeOK'
<1>0. loopPc # "idle" => loopConn \in Conn /\ node[loopConn] \in Node
  BY DEF TypeControl, TypeRefs, TypeConns
<1>1. loopConn \in Conn => \A n \in Node : Append(clients[n], loopConn) \in Seq(Conn)
  BY AppendProperties DEF TypeClients
<1>2. \A n \in Node : RemoveFirst(clients[n], loopConn) \in Seq(Conn)
  BY RemoveFirstType DEF TypeClients
<1>3. CASE SendSdp
  <2>1. TypeRegistry'
    BY <1>3, <1>0 DEF TypeRegistry, SendSdp
  <2>2. TypeClients'
    BY <1>3, <1>0 DEF TypeClients, SendSdp
  <2>3. TypeConns'
    BY <1>3, <1>0 DEF TypeConns, SendSdp
  <2>4. TypeControl'
    BY <1>3, <1>0 DEF TypeControl, SendSdp
  <2>5. TypeRefs'
    BY <1>3, <1>0, ConnAssumption DEF TypeRefs, TypeRegistry, TypeConns, TypeControl, SendSdp
  <2> QED
    BY <2>1, <2>2, <2>3, <2>4, <2>5
<1>4. CASE ConnectOut
  <2>1. TypeRegistry'
    BY <1>4, <1>0, <1>1 DEF TypeRegistry, ConnectOut, AddViewer
  <2>2. TypeClients'
    BY <1>4, <1>0, <1>1 DEF TypeClients, ConnectOut, AddViewer
  <2>3. TypeConns'
    BY <1>4, <1>0, <1>1 DEF TypeConns, ConnectOut, AddViewer
  <2>4. TypeControl'
    BY <1>4, <1>0, <1>1 DEF TypeControl, ConnectOut, AddViewer
  <2>5. TypeRefs'
    BY <1>4, <1>0, <1>1, ConnAssumption DEF TypeRefs, TypeRegistry, TypeConns, TypeControl, ConnectOut, AddViewer
  <2> QED
    BY <2>1, <2>2, <2>3, <2>4, <2>5
<1>5. CASE StartReader
  <2>1. TypeRegistry'
    BY <1>5, <1>0 DEF TypeRegistry, StartReader
  <2>2. TypeClients'
    BY <1>5, <1>0 DEF TypeClients, StartReader
  <2>3. TypeConns'
    BY <1>5, <1>0 DEF TypeConns, StartReader
  <2>4. TypeControl'
    BY <1>5, <1>0 DEF TypeControl, StartReader
  <2>5. TypeRefs'
    BY <1>5, <1>0, ConnAssumption DEF TypeRefs, TypeRegistry, TypeConns, TypeControl, StartReader
  <2> QED
    BY <2>1, <2>2, <2>3, <2>4, <2>5
<1>6. CASE UnlinkClient
  <2>1. TypeRegistry'
    BY <1>6, <1>0, <1>2 DEF TypeRegistry, UnlinkClient
  <2>2. TypeClients'
    BY <1>6, <1>0, <1>2 DEF TypeClients, UnlinkClient
  <2>3. TypeConns'
    BY <1>6, <1>0, <1>2 DEF TypeConns, UnlinkClient
  <2>4. TypeControl'
    BY <1>6, <1>0, <1>2 DEF TypeControl, UnlinkClient
  <2>5. TypeRefs'
    BY <1>6, <1>0, <1>2, ConnAssumption DEF TypeRefs, TypeRegistry, TypeConns, TypeControl, UnlinkClient
  <2> QED
    BY <2>1, <2>2, <2>3, <2>4, <2>5
<1>7. CASE ClientAdded
  BY <1>7, ConnAssumption DEF TypeRegistry, TypeClients, TypeConns, TypeControl, TypeRefs, ClientAdded
<1> QED
  BY <1>3, <1>4, <1>5, <1>6, <1>7 DEF LoopResumes

\* And the readers.
LEMMA TypeReader ==
  ASSUME TypeOK, NEW t \in Conn, Reader(t)
  PROVE  TypeOK'
<1>1. CASE ReaderStart(t)
  <2>1. TypeRegistry'
    BY <1>1 DEF TypeRegistry, ReaderStart
  <2>2. TypeClients'
    BY <1>1 DEF TypeClients, ReaderStart
  <2>3. TypeConns'
    BY <1>1 DEF TypeConns, ReaderStart
  <2>4. TypeControl'
    BY <1>1 DEF TypeControl, ReaderStart
  <2>5. TypeRefs'
    BY <1>1, ConnAssumption DEF TypeRefs, TypeRegistry, TypeConns, TypeControl, ReaderStart
  <2> QED
    BY <2>1, <2>2, <2>3, <2>4, <2>5
<1>2. CASE ReaderOpen(t)
  <2>1. TypeRegistry'
    BY <1>2 DEF TypeRegistry, ReaderOpen
  <2>2. TypeClients'
    BY <1>2 DEF TypeClients, ReaderOpen
  <2>3. TypeConns'
    BY <1>2 DEF TypeConns, ReaderOpen
  <2>4. TypeControl'
    BY <1>2 DEF TypeControl, ReaderOpen
  <2>5. TypeRefs'
    BY <1>2, ConnAssumption DEF TypeRefs, TypeRegistry, TypeConns, TypeControl, ReaderOpen
  <2> QED
    BY <2>1, <2>2, <2>3, <2>4, <2>5
<1>3. CASE ReaderCheck(t)
  <2>1. TypeRegistry'
    BY <1>3 DEF TypeRegistry, ReaderCheck
  <2>2. TypeClients'
    BY <1>3 DEF TypeClients, ReaderCheck
  <2>3. TypeConns'
    BY <1>3 DEF TypeConns, ReaderCheck
  <2>4. TypeControl'
    BY <1>3 DEF TypeControl, ReaderCheck
  <2>5. TypeRefs'
    BY <1>3, ConnAssumption DEF TypeRefs, TypeRegistry, TypeConns, TypeControl, ReaderCheck
  <2> QED
    BY <2>1, <2>2, <2>3, <2>4, <2>5
<1>4. CASE ReaderRead(t)
  <2>1. node[t] \in Node
    BY <1>4 DEF ReaderRead, TypeRefs, TypeConns
  <2>2. Len(clients[node[t]]) \in Nat
    BY <2>1, LenProperties DEF TypeClients
  <2>3. TypeRegistry'
    BY <1>4 DEF TypeRegistry, ReaderRead
  <2>4. TypeClients'
    BY <1>4, <2>1, <2>2 DEF TypeClients, ReaderRead
  <2>5. TypeConns'
    BY <1>4 DEF TypeConns, ReaderRead
  <2>6. TypeControl'
    BY <1>4 DEF TypeControl, ReaderRead
  <2>7. TypeRefs'
    BY <1>4, ConnAssumption DEF TypeRefs, TypeRegistry, TypeConns, TypeControl, ReaderRead
  <2> QED
    BY <2>3, <2>4, <2>5, <2>6, <2>7
<1>5. CASE ReaderLock(t)
  BY <1>5 DEF TypeRegistry, TypeClients, TypeConns, TypeControl, TypeRefs, ReaderLock
<1>6. CASE ReaderSend(t)
  <2>1. node[t] \in Node
    BY <1>6 DEF ReaderSend, TypeRefs, TypeConns
  <2>2. \A e : \A n \in Node : RemoveFirst(clients[n], e) \in Seq(Conn)
    BY RemoveFirstType DEF TypeClients
  <2>3. num[t] \in Nat /\ pos[t] \in Nat
    BY TypeOK DEF TypeClients
  <2>4. pos[t] < num[t]
    BY <1>6 DEF ReaderSend
  <2>5. num[t] - 1 \in Nat /\ pos[t] + 1 \in Nat
    BY <2>3, <2>4
  <2>6. /\ num' = num \/ num' = [num EXCEPT ![t] = @ - 1]
        /\ pos' = pos \/ pos' = [pos EXCEPT ![t] = @ + 1]
        /\ \/ clients' = clients
           \/ \E e : clients' = [clients EXCEPT ![node[t]] = RemoveFirst(@, e)]
    BY <1>6 DEF ReaderSend, DropClient
  <2>7. TypeRegistry'
    BY <1>6 DEF TypeRegistry, ReaderSend, DropClient
  <2>8. TypeClients'
    <3>1. num' \in [Conn -> Nat] /\ pos' \in [Conn -> Nat]
      BY <2>5, <2>6 DEF TypeClients
    <3>2. ASSUME NEW e, clients' = [clients EXCEPT ![node[t]] = RemoveFirst(@, e)]
          PROVE  clients' \in [Node -> Seq(Conn)]
      <4>1. RemoveFirst(clients[node[t]], e) \in Seq(Conn)
        BY <2>1, <2>2
      <4> QED
        BY <2>1, <3>2, <4>1 DEF TypeClients
    <3> QED
      BY <2>6, <3>1, <3>2 DEF TypeClients
  <2>9. TypeConns'
    BY <1>6 DEF TypeConns, ReaderSend, DropClient
  <2>10. TypeControl'
    BY <1>6 DEF TypeControl, ReaderSend, DropClient
  <2>11. TypeRefs'
    BY <1>6, ConnAssumption DEF TypeRefs, TypeRegistry, TypeConns, TypeControl, ReaderSend, DropClient
  <2> QED
    BY <2>7, <2>8, <2>9, <2>10, <2>11
<1>7. CASE ReaderUnlock(t)
  BY <1>7 DEF TypeRegistry, TypeClients, TypeConns, TypeControl, TypeRefs, ReaderUnlock
<1>8. CASE ReaderClose(t)
  <2>1. node[t] \in Node
    BY <1>8 DEF ReaderClose, TypeRefs, TypeConns
  <2>2. <<>> \in Seq(Conn)
    OBVIOUS
  <2>3. TypeRegistry'
    BY <1>8 DEF TypeRegistry, ReaderClose
  <2>4. TypeClients'
    BY <1>8, <2>1, <2>2 DEF TypeClients, ReaderClose
  <2>5. TypeConns'
    BY <1>8 DEF TypeConns, ReaderClose
  <2>6. TypeControl'
    BY <1>8 DEF TypeControl, ReaderClose
  <2>7. TypeRefs'
    BY <1>8, ConnAssumption DEF TypeRefs, TypeRegistry, TypeConns, TypeControl, ReaderClose
  <2> QED
    BY <2>3, <2>4, <2>5, <2>6, <2>7
<1>9. CASE ReaderFree(t)
  BY <1>9 DEF TypeRegistry, TypeClients, TypeConns, TypeControl, TypeRefs, ReaderFree
<1> QED
  BY <1>1, <1>2, <1>3, <1>4, <1>5, <1>6, <1>7, <1>8, <1>9 DEF Reader

\* Every variable always has its type.
THEOREM TypeCorrect == Spec => []TypeOK
<1>1. TypeOK /\ [Next]_vars => TypeOK'
  <2> SUFFICES ASSUME TypeOK, [Next]_vars
               PROVE  TypeOK'
    OBVIOUS
  <2>1. CASE UNCHANGED vars
    BY <2>1 DEF vars, TypeRegistry, TypeClients, TypeConns, TypeControl, TypeRefs
  <2>2. CASE Next
    BY <2>2, TypeSignalling, TypeSdpPhase, TypeVideoConnection, TypeReader,
       TypeLoopResumes DEF Next
  <2> QED
    BY <2>1, <2>2
<1> QED
  BY TypeInit, <1>1, PTL DEF Spec

-----------------------------------------------------------------------------
(* The registry and the wait lists.  The invariant adds to what is claimed   *)
(* of them how far a connection can have come: a node is created, and a      *)
(* reader started, only once per connection and in this order.               *)

\* Before its first command a connection has no node, and none is named for it.
Fresh ==
  \A c \in Conn : sig[c] \in {"none", "command"} => node[c] = None /\ mem[c] = "none"

\* Whatever node a connection refers to has been created.
Born == \A c \in Conn : node[c] # None => mem[node[c]] # "none"

\* The video connection follows the signalling, the reader the video connection.
InOrder ==
  \A c \in Conn :
    /\ sig[c] \in {"parked", "sdp", "sdp_nocb"} => video[c] = "none"
    /\ video[c] \in {"none", "connecting", "connected"} => pc[c] = "none"

\* Where the loop resumes, the connection is where the first half left it.
ResumesInOrder ==
  /\ loopPc = "sdp" => sig[loopConn] = "parked" /\ \A n \in Node : loopConn \notin wait[n]
  /\ loopPc = "connect" => sig[loopConn] = "acked" /\ video[loopConn] = "none"
  /\ loopPc = "added" => video[loopConn] = "connecting"
  /\ loopPc = "start" => video[loopConn] = "connected"

\* The node a reader is about to release is unlisted.
FreeingUnlisted == \A t \in Conn : pc[t] = "freeing" => node[t] \notin listDev

History  == Fresh /\ Born /\ InOrder /\ ResumesInOrder
IInv == TypeOK /\ History /\ RegistryLive /\ FreeingUnlisted /\ RegistryUnique /\ WaitersIntact

\* Initially the invariant holds.
LEMMA IInvInit == Init => IInv
BY TypeInit DEF Init, IInv, History, Fresh, Born, InOrder, ResumesInOrder,
   RegistryLive, FreeingUnlisted, RegistryUnique, WaitersIntact

\* What the readers leave alone.
LEMMA ReaderFrame ==
  ASSUME NEW t \in Conn, Reader(t)
  PROVE  /\ UNCHANGED <<key, status, wait, devBev, sig, node, loopPc, loopConn>>
         /\ listDev' \subseteq listDev
BY DEF Reader, ReaderStart, ReaderOpen, ReaderCheck, ReaderRead, ReaderLock, ReaderSend,
       DropClient, ReaderUnlock, ReaderClose, ReaderFree

\* What the callbacks of the video connections leave alone.
LEMMA VideoFrame ==
  ASSUME NEW c \in Conn, VideoConnection(c)
  PROVE  /\ UNCHANGED <<key, status, wait, devBev, sig, node, pc>>
         /\ listDev' \subseteq listDev
BY DEF VideoConnection, VideoConnected, VideoRefused, send_rtsp_to_server_event_error_cb

\* What the loop leaves alone where it resumes.
LEMMA ResumeFrame ==
  ASSUME LoopResumes
  PROVE  /\ UNCHANGED <<key, status, wait, devBev, node, mem>>
         /\ listDev' \subseteq listDev
BY DEF LoopResumes, SendSdp, ConnectOut, ClientAdded, AddViewer, StartReader, UnlinkClient

\* What the callbacks of the connections to the cameras leave alone.
LEMMA SdpFrame ==
  ASSUME NEW n \in Node, SdpPhase(n)
  PROVE  /\ UNCHANGED <<key, mem, video, pc, loopPc, loopConn>>
         /\ listDev' \subseteq listDev
BY DEF SdpPhase, DevConnected, DevLost, Broadcast, read_dev_sdp_basic_cb,
       read_dev_sdp_digest_cb

\* What the signalling callbacks leave alone, but for the creation of a node.
LEMMA SignallingFrame ==
  ASSUME NEW c \in Conn, Signalling(c)
  PROVE  \/ /\ UNCHANGED <<key, mem, status, pc>>
            /\ listDev' \subseteq listDev
         \/ \E d \in Wants[c] :
              /\ OpenUnlisted(c, d) \/ push_stream(c, d)
              /\ Listed(d) = {} /\ sig[c] = "command"
              /\ listDev' = listDev \cup {c}
              /\ mem' = [mem EXCEPT ![c] = "live"]
              /\ \E id \in {d, Decoded[d]} : key' = [key EXCEPT ![c] = id]
              /\ pc' = pc
BY DEF Signalling, Accept, DealBadCmd, ForwardCmd, deal_client_cmd_error_cb1,
       OpenUnlisted, OpenListed, push_stream, NewNode, DealServerInfo, AddViewer,
       deal_client_cmd_error_cb2, PeerLostUnseen

\* No step lists a device with a plain id twice.
LEMMA UniqueStep ==
  ASSUME TypeOK, RegistryUnique, Next
  PROVE  RegistryUnique'
<1>1. CASE key' = key /\ listDev' \subseteq listDev
  BY <1>1 DEF RegistryUnique
<1>2. ASSUME NEW c \in Conn, NEW d, Listed(d) = {}, NEW id \in {d, Decoded[d]},
             listDev' = listDev \cup {c}, key' = [key EXCEPT ![c] = id]
      PROVE  RegistryUnique'
  <2>1. Plain(id) => \A n \in listDev : key[n] # id
    BY <1>2 DEF Plain
  <2> QED
    BY <1>2, <2>1 DEF RegistryUnique, TypeRegistry, Plain
<1>3. ASSUME NEW c \in Conn, Signalling(c)
      PROVE  RegistryUnique'
  <2>1. CASE key' = key /\ listDev' \subseteq listDev
    BY <1>1, <2>1
  <2>2. CASE ~ (key' = key /\ listDev' \subseteq listDev)
    <3>1. PICK d \in Wants[c] : /\ Listed(d) = {}
                               /\ listDev' = listDev \cup {c}
                               /\ \E id \in {d, Decoded[d]} : key' = [key EXCEPT ![c] = id]
      BY <1>3, <2>2, SignallingFrame
    <3> QED
      BY <1>2, <3>1
  <2> QED
    BY <2>1, <2>2
<1>4. ASSUME NEW c \in Conn, SdpPhase(c) \/ VideoConnection(c) \/ Reader(c)
      PROVE  key' = key /\ listDev' \subseteq listDev
  BY <1>4, ReaderFrame, VideoFrame, SdpFrame
<1>5. LoopResumes => key' = key /\ listDev' \subseteq listDev
  BY ResumeFrame
<1> QED
  BY <1>1, <1>3, <1>4, <1>5 DEF Next

\* No device with a plain id is ever listed twice.
THEOREM RegistryUniqueHolds == Spec => []RegistryUnique
<1>1. Init => RegistryUnique
  BY DEF Init, RegistryUnique
<1>2. TypeOK /\ RegistryUnique /\ [Next]_vars => RegistryUnique'
  BY UniqueStep DEF RegistryUnique, vars
<1> QED
  BY TypeCorrect, <1>1, <1>2, PTL DEF Spec

-----------------------------------------------------------------------------
\* A signalling callback that neither answers nor adds to a wait list leaves
\* the wait lists intact, because a waiter is parked.
LEMMA WaitersSig ==
  ASSUME WaitersIntact, NEW c \in Conn, NEW x, TypeOK, sig[c] # "parked",
         sig' = [sig EXCEPT ![c] = x], UNCHANGED <<wait, status>>
  PROVE  WaitersIntact'
BY DEF WaitersIntact, TypeConns

\* No step breaks a wait list.
LEMMA WaitersStep ==
  ASSUME IInv, Next
  PROVE  WaitersIntact'
<1> USE DEF IInv
<1>0. CASE UNCHANGED <<wait, sig, status>>
  BY <1>0 DEF WaitersIntact
<1>1. ASSUME NEW c \in Conn, Signalling(c)
      PROVE  WaitersIntact'
  <2>1. CASE Accept(c)
    BY <2>1, WaitersSig DEF Accept
  <2>2. CASE DealBadCmd(c)
    BY <2>2, WaitersSig DEF DealBadCmd
  <2>3. CASE ForwardCmd(c)
    BY <2>3, WaitersSig DEF ForwardCmd
  <2>5. CASE deal_client_cmd_error_cb1(c)
    BY <2>5, WaitersSig DEF deal_client_cmd_error_cb1
  <2>6. ASSUME NEW d \in Wants[c], OpenUnlisted(c, d)
        PROVE  WaitersIntact'
    <3>1. \A n \in Node : c \notin wait[n]
      BY <2>6 DEF OpenUnlisted, WaitersIntact
    <3>2. sig' = [sig EXCEPT ![c] = "parked"]
      BY <2>6 DEF OpenUnlisted
    <3>3. \/ UNCHANGED <<wait, status>>
          \/ /\ wait' = [wait EXCEPT ![c] = {c}]
             /\ status' = [status EXCEPT ![c] = "CONNECTING"]
      BY <2>6 DEF OpenUnlisted, NewNode
    <3> QED
      BY <3>1, <3>2, <3>3 DEF WaitersIntact, TypeConns, TypeRegistry
  <2>7. ASSUME NEW d \in Wants[c], OpenListed(c, d)
        PROVE  WaitersIntact'
    <3>1. \A n \in Node : c \notin wait[n]
      BY <2>7 DEF OpenListed, WaitersIntact
    <3>2. sig' = [sig EXCEPT ![c] = "parked"] /\ status' = status
      BY <2>7 DEF OpenListed
    <3>3. \/ wait' = wait
          \/ \E n \in Node : /\ wait' = [wait EXCEPT ![n] = @ \cup {c}]
                             /\ status[n] = "CONNECTING"
      BY <2>7 DEF OpenListed, TypeRegistry
    <3> QED
      BY <3>1, <3>2, <3>3 DEF WaitersIntact, TypeConns, TypeRegistry
  <2>8. ASSUME NEW d \in Wants[c], push_stream(c, d)
        PROVE  WaitersIntact'
    <3>1. sig[c] = "command" /\ sig' = [sig EXCEPT ![c] = "acked"]
      BY <2>8 DEF push_stream
    <3>2. \/ UNCHANGED <<wait, status>>
          \/ /\ wait' = [wait EXCEPT ![c] = {}]
             /\ status' = [status EXCEPT ![c] = "zero"]
      BY <2>8 DEF push_stream, NewNode
    <3> QED
      BY <3>1, <3>2 DEF WaitersIntact, TypeConns, TypeRegistry
  <2>9. CASE DealServerInfo(c)
    <3>1. UNCHANGED <<wait, status>> /\ sig[c] # "parked"
      BY <2>9 DEF DealServerInfo, AddViewer
    <3>2. sig' = sig \/ sig' = [sig EXCEPT ![c] = "freed"]
      BY <2>9 DEF DealServerInfo
    <3> QED
      BY <1>0, <3>1, <3>2, WaitersSig
  <2>10. CASE deal_client_cmd_error_cb2(c)
    <3>1. UNCHANGED <<wait, status>> /\ sig[c] # "parked"
      BY <2>10 DEF deal_client_cmd_error_cb2
    <3>2. sig' = sig \/ sig' = [sig EXCEPT ![c] = "freed"]
      BY <2>10 DEF deal_client_cmd_error_cb2
    <3> QED
      BY <1>0, <3>1, <3>2, WaitersSig
  <2>11. CASE PeerLostUnseen(c)
    BY <2>11, WaitersSig DEF PeerLostUnseen
  <2> QED
    BY <1>1, <2>1, <2>2, <2>3, <2>5, <2>6, <2>7, <2>8, <2>9, <2>10, <2>11
    DEF Signalling
<1>2. ASSUME NEW n \in Node, SdpPhase(n)
      PROVE  WaitersIntact'
  <2>1. CASE UNCHANGED <<wait, sig, status>>
    BY <1>0, <2>1
  <2>2. CASE /\ wait' = [wait EXCEPT ![n] = {}] /\ sig' = sig
             /\ \A m \in Node : m # n => status'[m] = status[m]
    BY <2>2 DEF WaitersIntact, TypeRegistry
  <2>3. CASE /\ wait' = [wait EXCEPT ![n] = {}]
             /\ sig' = [c \in Conn |-> IF c \in wait[n] THEN "sdp" ELSE sig[c]]
             /\ \A m \in Node : m # n => status'[m] = status[m]
    BY <2>3 DEF WaitersIntact, TypeRegistry
  <2>4. DevConnected(n) => UNCHANGED <<wait, sig, status>>
    BY DEF DevConnected
  <2>5. ASSUME Broadcast(n)
        PROVE  WaitersIntact'
    BY <2>1, <2>3, <2>5 DEF Broadcast, TypeRegistry
  <2>6. ASSUME DevLost(n)
        PROVE  WaitersIntact'
    BY <2>1, <2>2, <2>6 DEF DevLost, TypeRegistry
  <2>7. read_dev_sdp_basic_cb(n) => Broadcast(n) \/ UNCHANGED <<wait, sig, status>>
    BY DEF read_dev_sdp_basic_cb
  <2>8. read_dev_sdp_digest_cb(n) => Broadcast(n)
    BY DEF read_dev_sdp_digest_cb
  <2> QED
    BY <1>2, <2>1, <2>4, <2>5, <2>6, <2>7, <2>8 DEF SdpPhase
<1>3. ASSUME NEW c \in Conn, VideoConnection(c) \/ Reader(c)
      PROVE  WaitersIntact'
  BY <1>0, <1>3, VideoFrame, ReaderFrame
<1>4. ASSUME LoopResumes
      PROVE  WaitersIntact'
  <2>1. UNCHANGED <<wait, status>>
    BY <1>4, ResumeFrame
  <2>2. CASE sig' = sig
    BY <1>0, <2>1, <2>2
  <2>3. CASE /\ sig' = [sig EXCEPT ![loopConn] = "sdp_nocb"]
             /\ \A n \in Node : loopConn \notin wait[n]
    BY <2>1, <2>3 DEF WaitersIntact, TypeConns, TypeRegistry
  <2> QED
    BY <1>4, <2>2, <2>3 DEF LoopResumes, SendSdp, ConnectOut, ClientAdded, StartReader, UnlinkClient,
       History, ResumesInOrder
<1> QED
  BY <1>1, <1>2, <1>3, <1>4 DEF Next

-----------------------------------------------------------------------------
\* What a reader does to the memory of nodes, to video connections and to itself.
LEMMA ReaderEffect ==
  ASSUME NEW t \in Conn, Reader(t)
  PROVE  /\ pc[t] # "none"
         /\ \/ mem' = mem /\ \E x : x \notin {"none", "freeing"} /\ pc' \in {pc, [pc EXCEPT ![t] = x]}
            \/ /\ mem' = [mem EXCEPT ![node[t]] = "shut"]
               /\ listDev' = listDev \ {node[t]}
               /\ pc' = [pc EXCEPT ![t] = "freeing"]
            \/ /\ mem' = [mem EXCEPT ![node[t]] = "freed"]
               /\ pc[t] = "freeing" /\ pc' = [pc EXCEPT ![t] = "done"]
         /\ \/ video' = video
            \/ \E c : video[c] = "flagged" /\ video' = [video EXCEPT ![c] = "freed"]
<1>1. CASE ReaderStart(t)
  BY <1>1 DEF ReaderStart
<1>2. CASE ReaderOpen(t)
  BY <1>2 DEF ReaderOpen
<1>3. CASE ReaderCheck(t)
  BY <1>3 DEF ReaderCheck
<1>4. CASE ReaderRead(t)
  BY <1>4 DEF ReaderRead
<1>5. CASE ReaderLock(t)
  BY <1>5 DEF ReaderLock
<1>6. CASE ReaderSend(t)
  BY <1>6 DEF ReaderSend, DropClient
<1>7. CASE ReaderUnlock(t)
  BY <1>7 DEF ReaderUnlock
<1>8. CASE ReaderClose(t)
  BY <1>8 DEF ReaderClose
<1>9. CASE ReaderFree(t)
  BY <1>9 DEF ReaderFree
<1> QED
  BY <1>1, <1>2, <1>3, <1>4, <1>5, <1>6, <1>7, <1>8, <1>9 DEF Reader

\* A connection that has a reader keeps its node.
LEMMA NodeStep ==
  ASSUME IInv, Next
  PROVE  \A c \in Conn : pc[c] # "none" => node'[c] = node[c]
<1> USE DEF IInv, History
<1>1. \A c \in Conn : sig[c] \in {"command", "parked"} => pc[c] = "none"
  BY DEF Fresh, InOrder, TypeOK, TypeRefs
<1>2. ASSUME NEW c \in Conn, Signalling(c)
      PROVE  \/ node' = node
             \/ sig[c] = "command" /\ \E n : node' = [node EXCEPT ![c] = n]
  BY <1>2 DEF Signalling, Accept, DealBadCmd, ForwardCmd,
     deal_client_cmd_error_cb1, OpenUnlisted, OpenListed, push_stream, DealServerInfo,
     deal_client_cmd_error_cb2, PeerLostUnseen
<1>3. ASSUME NEW n \in Node, SdpPhase(n)
      PROVE  \/ node' = node
             \/ node' = [c \in Conn |-> IF c \in wait[n] THEN n ELSE node[c]]
  BY <1>3 DEF SdpPhase, DevConnected, DevLost, Broadcast, read_dev_sdp_basic_cb,
     read_dev_sdp_digest_cb
<1>4. \A n \in Node : \A c \in wait[n] : sig[c] = "parked"
  BY DEF WaitersIntact
<1>5. \/ node' = node
      \/ \E c \in Conn : sig[c] = "command" /\ \E n : node' = [node EXCEPT ![c] = n]
      \/ \E n \in Node : node' = [c \in Conn |-> IF c \in wait[n] THEN n ELSE node[c]]
  BY <1>2, <1>3, ReaderFrame, VideoFrame, ResumeFrame DEF Next
<1> QED
  BY <1>1, <1>4, <1>5 DEF TypeOK, TypeConns

\* What the callbacks of a video connection do to it, to the nodes and to the loop.
LEMMA VideoEffect ==
  ASSUME NEW c \in Conn, VideoConnection(c)
  PROVE  /\ loopPc = "idle"
         /\ video[c] # "none"
         /\ \/ mem' = mem
            \/ /\ mem[node[c]] = "live" /\ mem' = [mem EXCEPT ![node[c]] = "freed"]
               /\ listDev' = listDev \ {node[c]}
         /\ \/ UNCHANGED <<video, loopPc, loopConn>>
            \/ /\ video[c] = "connecting" /\ video' = [video EXCEPT ![c] = "connected"]
               /\ loopPc' = "start" /\ loopConn' = c
            \/ \E x \in {"freed", "flagged", "disabled"} :
                 /\ video' = [video EXCEPT ![c] = x]
                 /\ \/ UNCHANGED <<loopPc, loopConn>>
                    \/ loopPc' = "unlink" /\ loopConn' = c
BY DEF VideoConnection, VideoConnected, VideoRefused, send_rtsp_to_server_event_error_cb,
       LoopReady, Resume

\* What the loop does where it resumes.
LEMMA ResumeEffect ==
  ASSUME LoopResumes
  PROVE  \/ UNCHANGED <<sig, video, pc, loopPc, loopConn>>
         \/ /\ loopPc = "connect" /\ loopPc' = "added" /\ loopConn' = loopConn
            /\ video' = [video EXCEPT ![loopConn] = "connecting"]
            /\ UNCHANGED <<sig, pc>>
         \/ /\ loopPc' = "idle"
            /\ \/ /\ loopPc = "sdp" /\ sig' = [sig EXCEPT ![loopConn] = "sdp_nocb"]
                  /\ UNCHANGED <<video, pc>>
               \/ /\ loopPc = "start" /\ video' = [video EXCEPT ![loopConn] = "streaming"]
                  /\ pc' \in {pc, [pc EXCEPT ![loopConn] = "created"]}
                  /\ UNCHANGED sig
               \/ UNCHANGED <<sig, video, pc>>
BY DEF LoopResumes, SendSdp, ConnectOut, ClientAdded, AddViewer, StartReader, UnlinkClient,
       LoopAt, Resume

\* No step lists released memory, nor releases what is listed.
LEMMA LiveStep ==
  ASSUME IInv, Next
  PROVE  RegistryLive' /\ FreeingUnlisted'
<1> USE DEF IInv
<1>0. \A c \in Conn : pc[c] # "none" => node'[c] = node[c]
  BY NodeStep
<1>1. CASE mem' = mem /\ listDev' \subseteq listDev /\ \A t \in Conn : pc'[t] = "freeing" => pc[t] = "freeing"
  BY <1>0, <1>1 DEF RegistryLive, FreeingUnlisted
<1>2. ASSUME NEW c \in Conn, Signalling(c)
      PROVE  RegistryLive' /\ FreeingUnlisted'
  <2>1. CASE UNCHANGED <<mem, pc>> /\ listDev' \subseteq listDev
    BY <1>1, <2>1
  <2>2. CASE /\ sig[c] = "command" /\ pc' = pc
             /\ listDev' = listDev \cup {c} /\ mem' = [mem EXCEPT ![c] = "live"]
    <3>1. \A t \in Conn : pc[t] # "none" => node[t] # c
      BY <2>2 DEF TypeOK, TypeRefs, History, Fresh, Born
    <3>2. FreeingUnlisted'
      BY <1>0, <2>2, <3>1 DEF FreeingUnlisted
    <3>3. RegistryLive'
      BY <2>2 DEF RegistryLive, TypeOK, TypeRegistry
    <3> QED
      BY <3>2, <3>3
  <2> QED
    BY <1>2, <2>1, <2>2, SignallingFrame
<1>3. ASSUME NEW c \in Conn, VideoConnection(c)
      PROVE  RegistryLive' /\ FreeingUnlisted'
  <2>1. pc' = pc /\ listDev' \subseteq listDev
    BY <1>3, VideoFrame
  <2>2. \/ mem' = mem
        \/ mem' = [mem EXCEPT ![node[c]] = "freed"] /\ listDev' = listDev \ {node[c]}
    BY <1>3, VideoEffect
  <2> QED
    BY <1>0, <2>1, <2>2 DEF RegistryLive, FreeingUnlisted, TypeOK, TypeRegistry
<1>4. ASSUME NEW t \in Conn, Reader(t)
      PROVE  RegistryLive' /\ FreeingUnlisted'
  <2>1. listDev' \subseteq listDev /\ node' = node
    BY <1>4, ReaderFrame
  <2>2. CASE mem' = mem /\ \E x : x # "freeing" /\ pc' \in {pc, [pc EXCEPT ![t] = x]}
    BY <1>1, <2>1, <2>2 DEF TypeOK, TypeControl
  <2>3. CASE /\ mem' = [mem EXCEPT ![node[t]] = "shut"]
             /\ listDev' = listDev \ {node[t]}
             /\ pc' = [pc EXCEPT ![t] = "freeing"]
    BY <2>1, <2>3 DEF RegistryLive, FreeingUnlisted, TypeOK, TypeRegistry, TypeControl
  <2>4. CASE /\ mem' = [mem EXCEPT ![node[t]] = "freed"]
             /\ pc[t] = "freeing" /\ pc' = [pc EXCEPT ![t] = "done"]
    BY <2>1, <2>4 DEF RegistryLive, FreeingUnlisted, TypeOK, TypeRegistry, TypeControl
  <2> QED
    BY <1>4, <2>2, <2>3, <2>4, ReaderEffect
<1>5. ASSUME NEW n \in Node, SdpPhase(n)
      PROVE  RegistryLive' /\ FreeingUnlisted'
  BY <1>1, <1>5, SdpFrame
<1>6. ASSUME LoopResumes
      PROVE  RegistryLive' /\ FreeingUnlisted'
  <2>1. \A t \in Conn : pc'[t] = "freeing" => pc[t] = "freeing"
    BY <1>6, ResumeEffect DEF TypeOK, TypeControl
  <2> QED
    BY <1>1, <1>6, <2>1, ResumeFrame
<1> QED
  BY <1>2, <1>3, <1>4, <1>5, <1>6 DEF Next

-----------------------------------------------------------------------------
\* The readers respect the order in which a connection comes about.
LEMMA HistoryReader ==
  ASSUME IInv, NEW t \in Conn, Reader(t)
  PROVE  History'
<1> USE DEF IInv, History
<1>0. /\ pc[t] # "none"
      /\ UNCHANGED <<wait, sig, node, loopPc, loopConn>>
  BY ReaderFrame, ReaderEffect
<1>1. /\ node[t] \in Node /\ mem[node[t]] # "none"
  BY <1>0 DEF TypeOK, TypeRefs, TypeConns, Born
<1>2. mem' = mem \/ \E x \in {"shut", "freed"} : mem' = [mem EXCEPT ![node[t]] = x]
  BY ReaderEffect
<1>3. \E x : x # "none" /\ pc' \in {pc, [pc EXCEPT ![t] = x]}
  BY ReaderEffect
<1>4. video' = video \/ \E c : video[c] = "flagged" /\ video' = [video EXCEPT ![c] = "freed"]
  BY ReaderEffect
<1>5. Fresh'
  BY <1>0, <1>1, <1>2 DEF Fresh, TypeOK, TypeRegistry
<1>6. Born'
  BY <1>0, <1>1, <1>2 DEF Born, TypeOK, TypeRegistry, TypeConns
<1>7. InOrder'
  BY <1>0, <1>3, <1>4 DEF InOrder, TypeOK, TypeConns, TypeControl
<1>8. ResumesInOrder'
  BY <1>0, <1>4 DEF ResumesInOrder, TypeOK, TypeConns, TypeRefs, TypeControl
<1> QED
  BY <1>5, <1>6, <1>7, <1>8

\* So do the callbacks of the video connections,
LEMMA HistoryVideo ==
  ASSUME IInv, NEW c \in Conn, VideoConnection(c)
  PROVE  History'
<1> USE DEF IInv, History
<1>0. /\ UNCHANGED <<wait, sig, node, pc>>
      /\ loopPc = "idle" /\ video[c] # "none"
  BY VideoFrame, VideoEffect
<1>1. mem' = mem \/ (mem[node[c]] = "live" /\ mem' = [mem EXCEPT ![node[c]] = "freed"])
  BY VideoEffect
<1>2. \/ UNCHANGED <<video, loopPc, loopConn>>
      \/ /\ video[c] = "connecting" /\ video' = [video EXCEPT ![c] = "connected"]
         /\ loopPc' = "start" /\ loopConn' = c
      \/ \E x \in {"freed", "flagged", "disabled"} :
           /\ video' = [video EXCEPT ![c] = x]
           /\ \/ UNCHANGED <<loopPc, loopConn>>
              \/ loopPc' = "unlink" /\ loopConn' = c
  BY VideoEffect
<1>5. Fresh'
  BY <1>0, <1>1 DEF Fresh, TypeOK, TypeRegistry
<1>6. Born'
  BY <1>0, <1>1 DEF Born, TypeOK, TypeRegistry, TypeConns
<1>7. InOrder'
  BY <1>0, <1>2 DEF InOrder, TypeOK, TypeConns, TypeControl
<1>8. ResumesInOrder'
  BY <1>0, <1>2 DEF ResumesInOrder, TypeOK, TypeConns
<1> QED
  BY <1>5, <1>6, <1>7, <1>8

\* the loop where it resumes,
LEMMA HistoryResume ==
  ASSUME IInv, LoopResumes
  PROVE  History'
<1> USE DEF IInv, History
<1>0. UNCHANGED <<wait, node, mem>>
  BY ResumeFrame
<1>1. loopConn \in Conn
  BY DEF LoopResumes, SendSdp, ConnectOut, ClientAdded, StartReader, UnlinkClient, LoopAt, TypeOK,
     TypeRefs, TypeControl
<1>2. CASE UNCHANGED <<sig, video, pc, loopPc, loopConn>>
  BY <1>0, <1>2 DEF Fresh, Born, InOrder, ResumesInOrder
<1>3. CASE loopPc' = "idle" /\ UNCHANGED <<sig, video, pc>>
  BY <1>0, <1>3 DEF Fresh, Born, InOrder, ResumesInOrder
<1>4. CASE /\ loopPc' = "idle" /\ UNCHANGED <<video, pc>>
           /\ loopPc = "sdp" /\ sig' = [sig EXCEPT ![loopConn] = "sdp_nocb"]
  BY <1>0, <1>1, <1>4 DEF Fresh, Born, InOrder, ResumesInOrder, TypeOK, TypeConns
<1>5. CASE /\ loopPc' = "added" /\ UNCHANGED <<sig, pc, loopConn>>
           /\ loopPc = "connect" /\ video' = [video EXCEPT ![loopConn] = "connecting"]
  BY <1>0, <1>1, <1>5 DEF Fresh, Born, InOrder, ResumesInOrder, TypeOK, TypeConns
<1>6. CASE /\ loopPc' = "idle" /\ UNCHANGED sig
           /\ loopPc = "start" /\ video' = [video EXCEPT ![loopConn] = "streaming"]
           /\ pc' \in {pc, [pc EXCEPT ![loopConn] = "created"]}
  BY <1>0, <1>1, <1>6 DEF Fresh, Born, InOrder, ResumesInOrder, TypeOK, TypeConns, TypeControl
<1> QED
  BY <1>2, <1>3, <1>4, <1>5, <1>6, ResumeEffect

\* the callbacks of the connections to the cameras,
LEMMA HistorySdp ==
  ASSUME IInv, NEW n \in Node, SdpPhase(n)
  PROVE  History'
<1> USE DEF IInv, History
<1>0. UNCHANGED <<mem, video, pc, loopPc, loopConn>> /\ loopPc = "idle"
  BY SdpFrame DEF SdpPhase, DevConnected, DevLost, read_dev_sdp_basic_cb,
     read_dev_sdp_digest_cb, LoopReady
<1>1. CASE UNCHANGED <<sig, node>>
  BY <1>0, <1>1 DEF Fresh, Born, InOrder, ResumesInOrder
<1>2. CASE /\ mem[n] # "none"
           /\ sig'  = [c \in Conn |-> IF c \in wait[n] THEN "sdp" ELSE sig[c]]
           /\ node' = [c \in Conn |-> IF c \in wait[n] THEN n ELSE node[c]]
  <2>1. \A c \in wait[n] : sig[c] = "parked"
    BY DEF WaitersIntact
  <2>2. Fresh'
    BY <1>0, <1>2, <2>1 DEF Fresh
  <2>3. Born'
    BY <1>0, <1>2 DEF Born
  <2>4. InOrder'
    BY <1>0, <1>2, <2>1 DEF InOrder
  <2>5. ResumesInOrder'
    BY <1>0 DEF ResumesInOrder
  <2> QED
    BY <2>2, <2>3, <2>4, <2>5
<1> QED
  BY <1>1, <1>2 DEF SdpPhase, DevConnected, DevLost, Broadcast, read_dev_sdp_basic_cb,
     read_dev_sdp_digest_cb, Allocated

\* A signalling callback that only moves sig[c] on.
LEMMA HistorySig ==
  ASSUME IInv, NEW c \in Conn, NEW x,
         sig' = [sig EXCEPT ![c] = x],
         \/ sig[c] = "none" /\ x = "command"
         \/ sig[c] # "none" /\ x \in {"acked", "deaf", "freed"},
         UNCHANGED <<mem, wait, node, video, pc, loopPc, loopConn>>, loopPc = "idle"
  PROVE  History'
<1> USE DEF IInv, History
<1>1. Fresh'
  BY DEF Fresh, TypeOK, TypeConns
<1>2. Born'
  BY DEF Born
<1>3. InOrder'
  BY DEF InOrder, TypeOK, TypeConns
<1>4. ResumesInOrder'
  BY DEF ResumesInOrder
<1> QED
  BY <1>1, <1>2, <1>3, <1>4

\* and the signalling callbacks.
LEMMA HistorySignalling ==
  ASSUME IInv, NEW c \in Conn, Signalling(c)
  PROVE  History'
<1> USE DEF IInv
<1>0. loopPc = "idle"
  BY DEF Signalling, Accept, DealBadCmd, ForwardCmd, deal_client_cmd_error_cb1,
     OpenUnlisted, OpenListed, push_stream, DealServerInfo, deal_client_cmd_error_cb2,
     PeerLostUnseen, LoopReady
<1>a. CASE UNCHANGED <<sig, mem, wait, node, video, pc, loopPc, loopConn>>
  BY <1>a DEF History, Fresh, Born, InOrder, ResumesInOrder
<1>b. sig[c] = "command" => /\ node[c] = None /\ mem[c] = "none" /\ video[c] = "none"
                            /\ pc[c] = "none" /\ \A n \in Node : c \notin wait[n]
  BY DEF History, Fresh, TypeOK, TypeRefs, WaitersIntact
<1>1. CASE Accept(c)
  BY <1>1, <1>0, HistorySig DEF Accept
<1>2. CASE DealBadCmd(c)
  BY <1>2, <1>0, HistorySig DEF DealBadCmd
<1>3. CASE ForwardCmd(c)
  BY <1>3, <1>0, HistorySig DEF ForwardCmd
<1>5. CASE deal_client_cmd_error_cb1(c)
  BY <1>5, <1>0, HistorySig DEF deal_client_cmd_error_cb1
<1>6. ASSUME NEW d \in Wants[c], OpenUnlisted(c, d)
      PROVE  History'
  <2>1. /\ sig[c] = "command" /\ sig' = [sig EXCEPT ![c] = "parked"]
        /\ UNCHANGED <<node, video, pc, loopPc, loopConn>>
        /\ mem' \in {mem, [mem EXCEPT ![c] = "live"]}
    BY <1>6 DEF OpenUnlisted, NewNode
  <2>2. Fresh' /\ Born'
    BY <1>b, <2>1 DEF History, Fresh, Born, TypeOK, TypeConns, TypeRegistry
  <2>3. InOrder' /\ ResumesInOrder'
    BY <1>0, <1>b, <2>1 DEF History, InOrder, ResumesInOrder, TypeOK, TypeConns
  <2> QED
    BY <2>2, <2>3 DEF History
<1>7. ASSUME NEW d \in Wants[c], OpenListed(c, d)
      PROVE  History'
  <2>1. /\ sig[c] = "command" /\ sig' = [sig EXCEPT ![c] = "parked"]
        /\ UNCHANGED <<mem, video, pc>>
    BY <1>7 DEF OpenListed
  <2>2. \/ UNCHANGED <<node, loopPc>>
        \/ /\ UNCHANGED wait
           /\ loopPc' = "sdp" /\ loopConn' = c
           /\ \E n \in listDev : node' = [node EXCEPT ![c] = n]
    BY <1>7 DEF OpenListed, Resume
  <2>3. Fresh'
    BY <1>b, <2>1, <2>2 DEF History, Fresh, TypeOK, TypeConns
  <2>4. Born'
    BY <1>b, <2>1, <2>2 DEF History, Born, RegistryLive, TypeOK, TypeConns, TypeRegistry
  <2>5. InOrder'
    BY <1>b, <2>1, <2>2 DEF History, InOrder, TypeOK, TypeConns
  <2>6. ResumesInOrder'
    BY <1>0, <1>b, <2>1, <2>2 DEF ResumesInOrder, TypeOK, TypeConns
  <2> QED
    BY <2>3, <2>4, <2>5, <2>6 DEF History
<1>8. ASSUME NEW d \in Wants[c], push_stream(c, d)
      PROVE  History'
  <2>1. /\ sig[c] = "command" /\ sig' = [sig EXCEPT ![c] = "acked"]
        /\ UNCHANGED <<video, pc>>
    BY <1>8 DEF push_stream
  <2>2. \/ UNCHANGED <<mem, node, loopPc, loopConn>>
        \/ /\ loopPc' = "connect" /\ loopConn' = c
           /\ \E n \in listDev : node' = [node EXCEPT ![c] = n]
           /\ mem' = mem
        \/ /\ loopPc' = "connect" /\ loopConn' = c
           /\ node' = [node EXCEPT ![c] = c]
           /\ mem' = [mem EXCEPT ![c] = "live"]
    BY <1>8 DEF push_stream, NewNode, Resume
  <2>3. Fresh'
    BY <1>b, <2>1, <2>2 DEF History, Fresh, TypeOK, TypeConns, TypeRegistry
  <2>4. Born'
    BY <1>b, <2>1, <2>2 DEF History, Born, RegistryLive, TypeOK, TypeConns, TypeRegistry
  <2>5. InOrder'
    BY <1>b, <2>1, <2>2 DEF History, InOrder, TypeOK, TypeConns
  <2>6. ResumesInOrder'
    BY <1>0, <1>b, <2>1, <2>2 DEF ResumesInOrder, TypeOK, TypeConns
  <2> QED
    BY <2>3, <2>4, <2>5, <2>6 DEF History
<1>9. CASE DealServerInfo(c)
  <2>1. /\ sig[c] \in {"sdp", "sdp_nocb"}
        /\ UNCHANGED <<mem, wait, node, pc>>
        /\ \/ UNCHANGED <<sig, video, loopPc, loopConn>>
           \/ /\ sig' = [sig EXCEPT ![c] = "freed"]
              /\ video' = [video EXCEPT ![c] = "connecting"]
              /\ loopPc' = "added" /\ loopConn' = c
    BY <1>9 DEF DealServerInfo, AddViewer
  <2>2. Fresh' /\ Born'
    BY <2>1 DEF History, Fresh, Born, TypeOK, TypeConns
  <2>3. InOrder' /\ ResumesInOrder'
    BY <1>0, <2>1 DEF History, InOrder, ResumesInOrder, TypeOK, TypeConns
  <2> QED
    BY <2>2, <2>3 DEF History
<1>10. CASE deal_client_cmd_error_cb2(c)
  <2>1. /\ sig[c] = "sdp"
        /\ UNCHANGED <<mem, wait, node, video, pc, loopPc, loopConn>>
        /\ sig' \in {sig, [sig EXCEPT ![c] = "freed"]}
    BY <1>10 DEF deal_client_cmd_error_cb2
  <2> QED
    BY <1>0, <1>a, <2>1, HistorySig
<1>11. CASE PeerLostUnseen(c)
  BY <1>11, <1>0, HistorySig DEF PeerLostUnseen
<1> QED
  BY <1>1, <1>2, <1>3, <1>5, <1>6, <1>7, <1>8, <1>9, <1>10, <1>11 DEF Signalling

-----------------------------------------------------------------------------
\* The invariant is inductive, and so holds of every reachable state.
LEMMA IInvStep == IInv /\ TypeOK' /\ [Next]_vars => IInv'
<1>1. IInv /\ TypeOK' /\ Next => IInv'
  <2> SUFFICES ASSUME IInv, TypeOK', Next
               PROVE  IInv'
    OBVIOUS
  <2>1. History'
    BY HistorySignalling, HistorySdp, HistoryVideo, HistoryReader, HistoryResume DEF Next
  <2>2. RegistryUnique'
    BY UniqueStep DEF IInv
  <2> QED
    BY <2>1, <2>2, LiveStep, WaitersStep DEF IInv
<1>2. IInv /\ UNCHANGED vars => IInv'
  BY DEF IInv, vars, registry, conns, loopVars, readers, TypeOK, TypeRegistry, TypeClients,
     TypeConns, TypeControl, TypeRefs, History, Fresh, Born, InOrder, ResumesInOrder,
     RegistryLive, FreeingUnlisted, RegistryUnique, WaitersIntact
<1> QED
  BY <1>1, <1>2

\* The invariant holds of every reachable state.
THEOREM IInvHolds == Spec => []IInv
BY TypeCorrect, IInvInit, IInvStep, PTL DEF Spec

\* The lookups of the loop never find released memory.
THEOREM RegistryLiveHolds == Spec => []RegistryLive
<1>1. IInv => RegistryLive
  BY DEF IInv
<1> QED
  BY <1>1, IInvHolds, PTL

\* Nobody on a wait list is closed, answered, or on another wait list.
THEOREM WaitersIntactHolds == Spec => []WaitersIntact
<1>1. IInv => WaitersIntact
  BY DEF IInv
<1> QED
  BY <1>1, IInvHolds, PTL

-----------------------------------------------------------------------------
(* The lock.                                                                 *)

\* A reader owns the lock exactly while it is sending.
LockOwner == \A t \in Conn : lock = t <=> pc[t] = "sending"

\* What the loop does to the lock: it takes and releases it when no reader has it.
LEMMA LoopLock ==
  ASSUME \/ \E c \in Conn : Signalling(c) \/ SdpPhase(c) \/ VideoConnection(c)
         \/ LoopResumes
  PROVE  \/ lock' = lock
         \/ lock \in {"free", "loop"} /\ lock' \in {"free", "loop"}
<1>1. ASSUME NEW c \in Conn, Signalling(c)
      PROVE  lock' = lock \/ (lock \in {"free", "loop"} /\ lock' \in {"free", "loop"})
  BY <1>1 DEF Signalling, Accept, DealBadCmd, ForwardCmd,
     deal_client_cmd_error_cb1, OpenUnlisted, OpenListed, push_stream, DealServerInfo,
     AddViewer, deal_client_cmd_error_cb2, PeerLostUnseen, LoopMayLock, Fault
<1>2. ASSUME NEW c \in Conn, SdpPhase(c)
      PROVE  lock' = lock \/ (lock \in {"free", "loop"} /\ lock' \in {"free", "loop"})
  BY <1>2 DEF SdpPhase, DevConnected, DevLost, Broadcast, read_dev_sdp_basic_cb,
     read_dev_sdp_digest_cb, LoopMayLock, Fault
<1>3. ASSUME NEW c \in Conn, VideoConnection(c)
      PROVE  lock' = lock \/ (lock \in {"free", "loop"} /\ lock' \in {"free", "loop"})
  BY <1>3 DEF VideoConnection, VideoConnected, VideoRefused,
     send_rtsp_to_server_event_error_cb, LoopMayLock, Fault
<1>4. ASSUME LoopResumes
      PROVE  lock' = lock \/ (lock \in {"free", "loop"} /\ lock' \in {"free", "loop"})
  BY <1>4 DEF LoopResumes, SendSdp, ConnectOut, ClientAdded, AddViewer, StartReader, UnlinkClient,
     LoopMayLock, Fault
<1> QED
  BY <1>1, <1>2, <1>3, <1>4

\* No step takes the lock from a reader, or gives it to one that is not sending.
LEMMA LockStep ==
  ASSUME IInv, LockOwner, Next
  PROVE  LockOwner'
<1> USE ConnAssumption DEF IInv
<1>1. ASSUME NEW t \in Conn, Reader(t)
      PROVE  LockOwner'
  <2>1. CASE lock' = lock /\ \E x : pc[t] # "sending" /\ x # "sending" /\ pc' \in {pc, [pc EXCEPT ![t] = x]}
    BY <2>1 DEF LockOwner, TypeOK, TypeControl
  <2>2. CASE ReaderStart(t)
    BY <2>1, <2>2 DEF ReaderStart, ReaderAt, Goto, Fault, readers
  <2>3. CASE ReaderOpen(t)
    BY <2>1, <2>3 DEF ReaderOpen, ReaderAt, Goto, Fault, readers
  <2>4. CASE ReaderCheck(t)
    BY <2>1, <2>4 DEF ReaderCheck, ReaderAt, Goto, Fault, readers
  <2>5. CASE ReaderRead(t)
    BY <2>1, <2>5 DEF ReaderRead, ReaderAt, Goto, Fault, readers
  <2>6. CASE ReaderLock(t)
    <3>1. lock = "free" /\ lock' = t /\ pc' = [pc EXCEPT ![t] = "sending"]
      BY <2>6 DEF ReaderLock, Goto
    <3> QED
      BY <3>1 DEF LockOwner, TypeOK, TypeControl
  <2>7. CASE ReaderSend(t)
    <3>1. UNCHANGED <<lock, pc>>
      BY <2>7 DEF ReaderSend, Fault, readers
    <3> QED
      BY <3>1 DEF LockOwner
  <2>8. CASE ReaderUnlock(t)
    <3>1. pc[t] = "sending" /\ lock' = "free" /\ pc' = [pc EXCEPT ![t] = "check"]
      BY <2>8 DEF ReaderUnlock, ReaderAt, Goto
    <3> QED
      BY <3>1 DEF LockOwner, TypeOK, TypeControl
  <2>9. CASE ReaderClose(t)
    BY <2>1, <2>9 DEF ReaderClose, ReaderAt, Goto, Fault, readers
  <2>10. CASE ReaderFree(t)
    BY <2>1, <2>10 DEF ReaderFree, ReaderAt, Goto
  <2> QED
    BY <1>1, <2>2, <2>3, <2>4, <2>5, <2>6, <2>7, <2>8, <2>9, <2>10 DEF Reader
<1>2. ASSUME \/ \E c \in Conn : Signalling(c) \/ SdpPhase(c) \/ VideoConnection(c)
             \/ LoopResumes
      PROVE  LockOwner'
  <2>1. lock' = lock \/ (lock \in {"free", "loop"} /\ lock' \in {"free", "loop"})
    BY <1>2, LoopLock
  <2>2. pc' = pc \/ (pc' = [pc EXCEPT ![loopConn] = "created"] /\ lock \in {"free", "loop"}
                     /\ lock' \in {"free", "loop"})
    <3>1. (\E c \in Conn : Signalling(c)) => pc' = pc
      BY SignallingFrame
    <3>2. (\E c \in Conn : SdpPhase(c) \/ VideoConnection(c)) => pc' = pc
      BY SdpFrame, VideoFrame
    <3>3. LoopResumes => \/ pc' = pc
                         \/ /\ pc' = [pc EXCEPT ![loopConn] = "created"]
                            /\ lock \in {"free", "loop"} /\ lock' \in {"free", "loop"}
      BY DEF LoopResumes, SendSdp, ConnectOut, ClientAdded, StartReader, UnlinkClient, LoopMayLock
    <3> QED
      BY <1>2, <3>1, <3>2, <3>3
  <2> QED
    BY <2>1, <2>2 DEF LockOwner, TypeOK, TypeControl
<1> QED
  BY <1>1, <1>2 DEF Next

\* A reader owns the lock exactly while it is sending, whatever the loop does.
THEOREM LockOwnerHolds == Spec => []LockOwner
<1>1. Init => LockOwner
  BY ConnAssumption DEF Init, LockOwner
<1>2. IInv /\ LockOwner /\ [Next]_vars => LockOwner'
  BY LockStep DEF LockOwner, vars, readers
<1> QED
  BY IInvHolds, <1>1, <1>2, PTL DEF Spec

-----------------------------------------------------------------------------
(* What holds as long as nobody asks for HLS.                                *)

\* A listed device is being asked for its SDP, or has given it; a device that
\* is being asked is live; and only one that has given it is referred to.
SdpPhaseInv ==
  /\ \A n \in listDev : status[n] \in {"CONNECTED", "CONNECTING"}
  /\ \A n \in Node : devBev[n] \in {"connecting", "basic", "digest"} =>
       mem[n] = "live" /\ status[n] = "CONNECTING"
  /\ \A c \in Conn : node[c] # None => status[node[c]] = "CONNECTED"

\* No step breaks this, if none of them is push_stream.
LEMMA SdpPhaseStep ==
  ASSUME IInv, SdpPhaseInv, Next, "play_hls" \notin Events
  PROVE  SdpPhaseInv'
<1> USE DEF IInv
<1>0. CASE /\ UNCHANGED <<devBev, status, node>> /\ listDev' \subseteq listDev
           /\ \/ mem' = mem
              \/ \E c \in Conn : \E x : mem' = [mem EXCEPT ![node[c]] = x]
  BY <1>0, ConnAssumption DEF SdpPhaseInv, TypeOK, TypeRegistry, TypeConns
<1>1. ASSUME NEW c \in Conn, Signalling(c)
      PROVE  SdpPhaseInv'
  <2>1. CASE UNCHANGED <<devBev, status, node, mem>> /\ listDev' \subseteq listDev
    BY <1>0, <2>1
  <2>2. ASSUME NEW d \in Wants[c], OpenUnlisted(c, d)
        PROVE  SdpPhaseInv'
    <3>1. CASE UNCHANGED registry
      BY <2>1, <2>2, <3>1 DEF OpenUnlisted, registry
    <3>2. CASE ~ UNCHANGED registry
      <4>1. /\ sig[c] = "command" /\ node' = node
            /\ listDev' = listDev \cup {c}
            /\ mem' = [mem EXCEPT ![c] = "live"]
            /\ status' = [status EXCEPT ![c] = "CONNECTING"]
            /\ devBev' = [devBev EXCEPT ![c] = "connecting"]
        BY <2>2, <3>2 DEF OpenUnlisted, NewNode
      <4>2. mem[c] = "none" /\ \A x \in Conn : node[x] # c
        BY <4>1, ConnAssumption DEF History, Fresh, Born
      <4> QED
        BY <4>1, <4>2 DEF SdpPhaseInv, TypeOK, TypeRegistry
    <3> QED
      BY <3>1, <3>2
  <2>3. ASSUME NEW d \in Wants[c], OpenListed(c, d)
        PROVE  SdpPhaseInv'
    <3>1. UNCHANGED <<devBev, status, mem, listDev>>
      BY <2>3 DEF OpenListed
    <3>2. node' = node \/ \E n \in listDev : /\ status[n] = "CONNECTED"
                                            /\ node' = [node EXCEPT ![c] = n]
      BY <2>3 DEF OpenListed
    <3> QED
      BY <3>1, <3>2 DEF SdpPhaseInv, TypeOK, TypeConns
  <2> QED
    BY <1>1, <2>1, <2>2, <2>3 DEF Signalling, Accept, DealBadCmd, ForwardCmd,
       deal_client_cmd_error_cb1, push_stream, DealServerInfo, AddViewer,
       deal_client_cmd_error_cb2, PeerLostUnseen, Fault, registry, conns
<1>2. ASSUME NEW n \in Node, SdpPhase(n)
      PROVE  SdpPhaseInv'
  <2>1. listDev' \subseteq listDev /\ mem' = mem
    BY <1>2, SdpFrame
  <2>2. CASE UNCHANGED <<status, node>> /\ devBev' = devBev
    BY <1>0, <2>1, <2>2
  <2>3. CASE /\ UNCHANGED <<status, node>>
             /\ devBev[n] \in {"connecting", "basic", "digest"}
             /\ \E x : devBev' = [devBev EXCEPT ![n] = x]
    BY <2>1, <2>3 DEF SdpPhaseInv, TypeOK, TypeRegistry
  <2>4. CASE /\ node' = node /\ n \notin listDev'
             /\ devBev[n] \in {"connecting", "basic", "digest"}
             /\ devBev' = [devBev EXCEPT ![n] = "freed"]
             /\ \E x : status' = [status EXCEPT ![n] = x]
    BY <2>1, <2>4 DEF SdpPhaseInv, TypeOK, TypeRegistry
  <2>5. CASE /\ node' = [c \in Conn |-> IF c \in wait[n] THEN n ELSE node[c]]
             /\ devBev' = [devBev EXCEPT ![n] = "freed"]
             /\ status' = [status EXCEPT ![n] = "CONNECTED"]
    BY <2>1, <2>5 DEF SdpPhaseInv, TypeOK, TypeRegistry
  <2>6. DevConnected(n) => \/ UNCHANGED <<status, node, devBev>>
                           \/ /\ UNCHANGED <<status, node>> /\ devBev[n] = "connecting"
                              /\ devBev' = [devBev EXCEPT ![n] = "basic"]
    BY DEF DevConnected, Fault, registry, conns
  <2>7. DevLost(n) => \/ UNCHANGED <<status, node, devBev>>
                      \/ /\ node' = node /\ listDev' = listDev \ {n}
                         /\ devBev[n] \in {"connecting", "basic", "digest"}
                         /\ devBev' = [devBev EXCEPT ![n] = "freed"]
                         /\ status' = [status EXCEPT ![n] = "DISCONNECT"]
    BY DEF DevLost, Fault, registry, conns
  <2>8. Broadcast(n) =>
          \/ UNCHANGED <<status, node, devBev>>
          \/ /\ node' = [c \in Conn |-> IF c \in wait[n] THEN n ELSE node[c]]
             /\ devBev' = [devBev EXCEPT ![n] = "freed"]
             /\ status' = [status EXCEPT ![n] = "CONNECTED"]
    BY DEF Broadcast, Fault, registry, conns
  <2>9. read_dev_sdp_basic_cb(n) =>
          \/ Broadcast(n)
          \/ UNCHANGED <<status, node, devBev>>
          \/ /\ UNCHANGED <<status, node>> /\ devBev[n] = "basic"
             /\ \E x : devBev' = [devBev EXCEPT ![n] = x]
    BY DEF read_dev_sdp_basic_cb, Fault, registry, conns
  <2>10. read_dev_sdp_digest_cb(n) => Broadcast(n)
    BY DEF read_dev_sdp_digest_cb
  <2> QED
    BY <1>2, <2>2, <2>3, <2>4, <2>5, <2>6, <2>7, <2>8, <2>9, <2>10 DEF SdpPhase
<1>3. ASSUME NEW c \in Conn, VideoConnection(c)
      PROVE  SdpPhaseInv'
  BY <1>0, <1>3, VideoFrame, VideoEffect
<1>4. ASSUME NEW t \in Conn, Reader(t)
      PROVE  SdpPhaseInv'
  BY <1>0, <1>4, ReaderFrame, ReaderEffect
<1>5. LoopResumes => SdpPhaseInv'
  BY <1>0, ResumeFrame
<1> QED
  BY <1>1, <1>2, <1>3, <1>4, <1>5 DEF Next

\* Nobody asking for HLS, a camera's callbacks find the node and its waiters.
LEMMA SdpPhaseHolds ==
  ASSUME "play_hls" \notin Events
  PROVE  Spec => []SdpPhaseInv
<1>1. Init => SdpPhaseInv
  BY DEF Init, SdpPhaseInv
<1>2. IInv /\ SdpPhaseInv /\ [Next]_vars => SdpPhaseInv'
  BY SdpPhaseStep DEF SdpPhaseInv, vars, registry, conns
<1> QED
  BY IInvHolds, <1>1, <1>2, PTL DEF Spec

\* Every callback of the loop unlocks, so the lock is a reader's or nobody's.
THEOREM LockReleasedHolds ==
  ASSUME "play_hls" \notin Events
  PROVE  Spec => []LockReleased
<1> DEFINE Unowned == lock # "loop"
<1>1. Init => Unowned
  BY DEF Init
<1>2. SdpPhaseInv /\ Unowned /\ Next => Unowned'
  <2> SUFFICES ASSUME SdpPhaseInv, Unowned, Next
               PROVE  Unowned'
    OBVIOUS
  <2>1. ASSUME NEW c \in Conn, Signalling(c)
        PROVE  Unowned'
    <3>1. ASSUME NEW d \in Wants[c], OpenListed(c, d)
          PROVE  Unowned'
      BY <3>1 DEF OpenListed, SdpPhaseInv
    <3> QED
      BY <2>1, <3>1 DEF Signalling, Accept, DealBadCmd, ForwardCmd,
         deal_client_cmd_error_cb1, OpenUnlisted, push_stream, DealServerInfo, AddViewer,
         deal_client_cmd_error_cb2, PeerLostUnseen, Fault
  <2>2. ASSUME NEW c \in Conn, SdpPhase(c)
        PROVE  Unowned'
    BY <2>2 DEF SdpPhase, DevConnected, DevLost, Broadcast, read_dev_sdp_basic_cb,
       read_dev_sdp_digest_cb, Fault
  <2>3. ASSUME NEW c \in Conn, VideoConnection(c)
        PROVE  Unowned'
    BY <2>3 DEF VideoConnection, VideoConnected, VideoRefused,
       send_rtsp_to_server_event_error_cb, Fault
  <2>4. ASSUME NEW t \in Conn, Reader(t)
        PROVE  Unowned'
    BY <2>4, ConnAssumption DEF Reader, ReaderStart, ReaderOpen, ReaderCheck, ReaderRead, ReaderLock,
       ReaderSend, ReaderUnlock, ReaderClose, ReaderFree, Fault
  <2>5. ASSUME LoopResumes
        PROVE  Unowned'
    BY <2>5 DEF LoopResumes, SendSdp, ConnectOut, ClientAdded, AddViewer, StartReader, UnlinkClient, Fault
  <2> QED
    BY <2>1, <2>2, <2>3, <2>4, <2>5 DEF Next
<1>3. SdpPhaseInv /\ Unowned /\ [Next]_vars => Unowned'
  BY <1>2 DEF vars
<1>4. Unowned /\ LockOwner => LockReleased
  BY DEF LockOwner, LockReleased
<1> QED
  BY SdpPhaseHolds, LockOwnerHolds, <1>1, <1>3, <1>4, PTL DEF Spec

\* A callback on the connection to a camera finds the device node, and every
\* connection it answers, still there.
THEOREM SdpPhaseSafeHolds ==
  ASSUME "play_hls" \notin Events
  PROVE  Spec => []SdpPhaseSafe
<1>1. Init => SdpPhaseSafe
  BY DEF Init, SdpPhaseSafe
<1>2. IInv /\ SdpPhaseInv /\ SdpPhaseSafe /\ Next => SdpPhaseSafe'
  <2> SUFFICES ASSUME IInv, SdpPhaseInv, SdpPhaseSafe, Next
               PROVE  SdpPhaseSafe'
    OBVIOUS
  <2> DEFINE Sites == {"active_connect_eventcb", "read_dev_sdp"}
  <2>1. ASSUME NEW n \in Node, SdpPhase(n)
        PROVE  UNCHANGED fault
    <3>1. devBev[n] \in {"connecting", "basic", "digest"}
      BY <2>1 DEF SdpPhase, DevConnected, DevLost, read_dev_sdp_basic_cb,
         read_dev_sdp_digest_cb
    <3>2. Allocated(n) /\ \A c \in wait[n] : sig[c] # "freed"
      BY <3>1 DEF SdpPhaseInv, Allocated, IInv, WaitersIntact
    <3> QED
      BY <2>1, <3>2 DEF SdpPhase, DevConnected, DevLost, Broadcast, read_dev_sdp_basic_cb,
         read_dev_sdp_digest_cb
  <2>2. ASSUME NEW c \in Conn, Signalling(c)
        PROVE  UNCHANGED fault \/ fault' \notin Sites
    BY <2>2 DEF Signalling, Accept, DealBadCmd, ForwardCmd,
       deal_client_cmd_error_cb1, OpenUnlisted, OpenListed, push_stream, DealServerInfo,
       deal_client_cmd_error_cb2, PeerLostUnseen, Fault
  <2>3. ASSUME NEW c \in Conn, VideoConnection(c)
        PROVE  UNCHANGED fault \/ fault' \notin Sites
    BY <2>3 DEF VideoConnection, VideoConnected, VideoRefused,
       send_rtsp_to_server_event_error_cb, Fault
  <2>4. ASSUME NEW t \in Conn, Reader(t)
        PROVE  UNCHANGED fault \/ fault' \notin Sites
    BY <2>4 DEF Reader, ReaderStart, ReaderOpen, ReaderCheck, ReaderRead, ReaderLock,
       ReaderSend, ReaderUnlock, ReaderClose, ReaderFree, Fault
  <2>5. ASSUME LoopResumes
        PROVE  UNCHANGED fault \/ fault' \notin Sites
    BY <2>5 DEF LoopResumes, SendSdp, ConnectOut, ClientAdded, StartReader, UnlinkClient, Fault
  <2> QED
    BY <2>1, <2>2, <2>3, <2>4, <2>5 DEF Next, SdpPhaseSafe
<1>3. IInv /\ SdpPhaseInv /\ SdpPhaseSafe /\ [Next]_vars => SdpPhaseSafe'
  BY <1>2 DEF SdpPhaseSafe, vars
<1> QED
  BY IInvHolds, SdpPhaseHolds, <1>1, <1>3, PTL DEF Spec

-----------------------------------------------------------------------------
\* A client list changes only on behalf of a connection that refers to the node.
LEMMA ClientsEffect ==
  ASSUME TypeOK, Next
  PROVE  \/ clients' = clients
         \/ /\ node' = node
            /\ \E c \in Conn : \E x : node[c] # None /\ clients' = [clients EXCEPT ![node[c]] = x]
<1> USE DEF TypeOK, TypeRefs
<1>1. ASSUME NEW c \in Conn, Signalling(c)
      PROVE  \/ clients' = clients
             \/ /\ node' = node /\ sig[c] \in {"sdp", "sdp_nocb"}
                /\ \E x : clients' = [clients EXCEPT ![node[c]] = x]
  BY <1>1 DEF Signalling, Accept, DealBadCmd, ForwardCmd,
     deal_client_cmd_error_cb1, OpenUnlisted, OpenListed, push_stream, NewNode,
     DealServerInfo, AddViewer, deal_client_cmd_error_cb2, PeerLostUnseen, Fault, registry
<1>2. ASSUME NEW c \in Conn, SdpPhase(c)
      PROVE  clients' = clients
  BY <1>2 DEF SdpPhase, DevConnected, DevLost, Broadcast, read_dev_sdp_basic_cb,
     read_dev_sdp_digest_cb, Fault, registry
<1>3. ASSUME NEW c \in Conn, VideoConnection(c)
      PROVE  \/ clients' = clients
             \/ /\ node' = node /\ video[c] # "none"
                /\ \E x : clients' = [clients EXCEPT ![node[c]] = x]
  BY <1>3 DEF VideoConnection, VideoConnected, VideoRefused,
     send_rtsp_to_server_event_error_cb, Fault, registry
<1>4. ASSUME NEW t \in Conn, Reader(t)
      PROVE  \/ clients' = clients
             \/ /\ node' = node /\ pc[t] # "none"
                /\ \E x : clients' = [clients EXCEPT ![node[t]] = x]
  <2>1. pc[t] # "none" /\ node' = node
    BY <1>4, ReaderEffect, ReaderFrame
  <2> QED
    BY <1>4, <2>1 DEF Reader, ReaderStart, ReaderOpen, ReaderCheck, ReaderRead, ReaderLock,
       ReaderSend, DropClient, ReaderUnlock, ReaderClose, ReaderFree, Fault, registry
<1>5. ASSUME LoopResumes
      PROVE  \/ clients' = clients
             \/ /\ node' = node /\ loopConn \in Conn
                /\ \E x : clients' = [clients EXCEPT ![node[loopConn]] = x]
  BY <1>5 DEF LoopResumes, SendSdp, ConnectOut, ClientAdded, AddViewer, StartReader, UnlinkClient, LoopAt,
     TypeControl, Fault, registry
<1>6. QED
  BY <1>1, <1>2, <1>3, <1>4, <1>5 DEF Next

\* Memory that has been allocated never again counts as not yet allocated.
LEMMA MemStep ==
  ASSUME IInv, Next
  PROVE  \A n \in Node : mem[n] # "none" => mem'[n] # "none"
<1>1. \/ mem' = mem
      \/ \E m, x : x # "none" /\ mem' = [mem EXCEPT ![m] = x]
  <2>1. ASSUME NEW c \in Conn, Signalling(c)
        PROVE  \E m, x : x # "none" /\ mem' \in {mem, [mem EXCEPT ![m] = x]}
    <3>1. mem' = mem \/ mem' = [mem EXCEPT ![c] = "live"]
      BY <2>1, SignallingFrame
    <3> QED
      BY <3>1
  <2>2. ASSUME NEW c \in Conn, SdpPhase(c)
        PROVE  mem' = mem
    BY <2>2, SdpFrame
  <2>3. ASSUME NEW c \in Conn, VideoConnection(c)
        PROVE  \E m, x : x # "none" /\ mem' \in {mem, [mem EXCEPT ![m] = x]}
    BY <2>3, VideoEffect
  <2>4. ASSUME NEW c \in Conn, Reader(c)
        PROVE  \E m, x : x # "none" /\ mem' \in {mem, [mem EXCEPT ![m] = x]}
    BY <2>4, ReaderEffect
  <2> QED
    BY <2>1, <2>2, <2>3, <2>4, ResumeFrame DEF Next
<1> QED
  BY <1>1 DEF IInv, TypeOK, TypeRegistry

\* An emptied client list is the empty list.
LEMMA NoneLeft ==
  ASSUME NEW S, NEW s \in Seq(S), Len(s) < 1
  PROVE  s = <<>>
OBVIOUS

-----------------------------------------------------------------------------
(* What list_append and list_delete make of a client list.                   *)

NoRepeats(s) == \A i, j \in DOMAIN s : s[i] = s[j] => i = j

\* An appended client comes last, after all who were there.
LEMMA AppendToSet ==
  ASSUME NEW S, NEW s \in Seq(S), NEW e \in S
  PROVE  /\ ToSet(Append(s, e)) = ToSet(s) \cup {e}
         /\ NoRepeats(s) /\ e \notin ToSet(s) => NoRepeats(Append(s, e))
<1> DEFINE t == Append(s, e)
<1>1. /\ Len(s) \in Nat /\ DOMAIN s = 1..Len(s)
      /\ t \in Seq(S) /\ Len(t) = Len(s) + 1 /\ DOMAIN t = 1..Len(t)
      /\ \A i \in 1..Len(s) : t[i] = s[i]
      /\ t[Len(s) + 1] = e
  BY AppendProperties, LenProperties
<1> HIDE DEF t
<1>2. ToSet(t) = ToSet(s) \cup {e}
  <2>1. \A i \in 1..Len(t) : i \in 1..Len(s) \/ i = Len(s) + 1
    BY <1>1
  <2>2. \A i \in 1..Len(s) : i \in 1..Len(t)
    BY <1>1
  <2>3. Len(s) + 1 \in 1..Len(t)
    BY <1>1
  <2> QED
    BY <1>1, <2>1, <2>2, <2>3 DEF ToSet
<1>3. NoRepeats(s) /\ e \notin ToSet(s) => NoRepeats(t)
  BY <1>1 DEF NoRepeats, ToSet
<1> QED
  BY <1>2, <1>3 DEF t

\* The list without a client that is in it: what came after moves up by one.
LEMMA RemoveFirstAt ==
  ASSUME NEW S, NEW s \in Seq(S), NEW e \in ToSet(s)
  PROVE  \E k \in 1..Len(s) :
           /\ s[k] = e
           /\ RemoveFirst(s, e) \in Seq(S)
           /\ Len(RemoveFirst(s, e)) = Len(s) - 1
           /\ \A i \in 1..(Len(s) - 1) :
                RemoveFirst(s, e)[i] = IF i < k THEN s[i] ELSE s[i + 1]
<1> DEFINE I == {i \in 1..Len(s) : s[i] = e}
           k == Min(I)
           before == SubSeq(s, 1, k - 1)
           after  == SubSeq(s, k + 1, Len(s))
<1>0. Len(s) \in Nat /\ DOMAIN s = 1..Len(s) /\ \A i \in 1..Len(s) : s[i] \in S
  BY LenProperties
<1>1. \E i \in 1..Len(s) : s[i] = e
  BY <1>0 DEF ToSet
<1>2. RemoveFirst(s, e) = before \o after
  BY <1>1 DEF RemoveFirst, SelectInSeq, RemoveAt
<1>3. k \in 1..Len(s) /\ s[k] = e
  <2>1. I \in SUBSET Nat /\ I # {}
    BY <1>1
  <2> HIDE DEF I
  <2>2. k \in I
    BY <2>1, MinOfNats
  <2> QED
    BY <2>2 DEF I
<1> HIDE DEF k
<1>4. /\ before \in Seq(S) /\ Len(before) = k - 1
      /\ \A i \in 1..(k - 1) : before[i] = s[i]
  <2>1. 1 \in Int /\ k - 1 \in Int /\ \A i \in 1..(k - 1) : s[i] \in S
    BY <1>0, <1>3
  <2>2. /\ before \in Seq(S)
        /\ Len(before) = IF 1 <= k - 1 THEN k - 1 - 1 + 1 ELSE 0
        /\ \A i \in 1..(k - 1 - 1 + 1) : before[i] = s[1 + i - 1]
    BY <2>1, SubSeqProperties
  <2> QED
    BY <1>3, <2>2
<1>5. /\ after \in Seq(S) /\ Len(after) = Len(s) - k
      /\ \A i \in 1..(Len(s) - k) : after[i] = s[k + i]
  <2>1. k + 1 \in Int /\ Len(s) \in Int /\ \A i \in (k + 1)..Len(s) : s[i] \in S
    BY <1>0, <1>3
  <2>2. /\ after \in Seq(S)
        /\ Len(after) = IF k + 1 <= Len(s) THEN Len(s) - (k + 1) + 1 ELSE 0
        /\ \A i \in 1..(Len(s) - (k + 1) + 1) : after[i] = s[k + 1 + i - 1]
    BY <2>1, SubSeqProperties
  <2>3. PICK n \in Nat : n = Len(s)
    BY <1>0
  <2>4. n \in Nat /\ k \in 1..n
    BY <1>3, <2>3
  <2>5. /\ n - (k + 1) + 1 = n - k
        /\ (IF k + 1 <= n THEN n - (k + 1) + 1 ELSE 0) = n - k
    BY ONLY <2>4
  <2>6. ASSUME NEW i \in 1..(n - k) PROVE k + 1 + i - 1 = k + i
    BY ONLY <2>4, <2>6
  <2> HIDE DEF after
  <2>7. after \in Seq(S) /\ Len(after) = n - k /\ \A i \in 1..(n - k) : after[i] = s[k + 1 + i - 1]
    BY <2>2, <2>3, <2>5
  <2>8. ASSUME NEW i \in 1..(n - k) PROVE after[i] = s[k + i]
    BY ONLY <2>6, <2>7, <2>8
  <2> QED
    BY <2>3, <2>7, <2>8
<1> HIDE DEF before, after
<1>6. /\ before \o after \in Seq(S)
      /\ Len(before \o after) = Len(before) + Len(after)
      /\ \A i \in 1..(Len(before) + Len(after)) :
           (before \o after)[i] = IF i <= Len(before) THEN before[i] ELSE after[i - Len(before)]
  BY <1>4, <1>5, ConcatProperties
<1>7. ASSUME NEW i \in 1..(Len(s) - 1)
      PROVE  RemoveFirst(s, e)[i] = IF i < k THEN s[i] ELSE s[i + 1]
  <2>1. CASE i < k
    BY <1>0, <1>2, <1>3, <1>4, <1>5, <1>6, <2>1
  <2>2. CASE i >= k
    <3>1. /\ i - (k - 1) \in 1..(Len(s) - k) /\ k + (i - (k - 1)) = i + 1
          /\ i \in 1..(Len(before) + Len(after)) /\ ~ (i <= Len(before))
          /\ i - Len(before) = i - (k - 1)
      BY <1>0, <1>3, <1>4, <1>5, <2>2
    <3>2. after[i - (k - 1)] = s[i + 1]
      BY <1>5, <3>1
    <3> QED
      BY <1>2, <1>6, <2>2, <3>1, <3>2, <1>3
  <2> QED
    BY <2>1, <2>2, <1>3
<1>8. RemoveFirst(s, e) \in Seq(S) /\ Len(RemoveFirst(s, e)) = Len(s) - 1
  BY <1>0, <1>2, <1>3, <1>4, <1>5, <1>6
<1> QED
  BY <1>3, <1>7, <1>8, Zenon

\* Deleting a client from a list without repetitions deletes that client, and
\* leaves a list without repetitions.
LEMMA RemoveFirstToSet ==
  ASSUME NEW S, NEW s \in Seq(S), NEW e \in ToSet(s), NoRepeats(s)
  PROVE  /\ ToSet(RemoveFirst(s, e)) = ToSet(s) \ {e}
         /\ NoRepeats(RemoveFirst(s, e))
<1> DEFINE r == RemoveFirst(s, e)
<1>1. PICK k \in 1..Len(s) :
        /\ s[k] = e /\ r \in Seq(S) /\ Len(r) = Len(s) - 1
        /\ \A i \in 1..(Len(s) - 1) : r[i] = IF i < k THEN s[i] ELSE s[i + 1]
  BY RemoveFirstAt
<1> HIDE DEF r
<1>2. Len(s) \in Nat /\ DOMAIN s = 1..Len(s) /\ DOMAIN r = 1..(Len(s) - 1)
  BY <1>1, LenProperties
<1>3. \A i, j \in 1..Len(s) : s[i] = s[j] => i = j
  BY <1>2 DEF NoRepeats
<1>4. NoRepeats(r)
  <2> SUFFICES ASSUME NEW i \in 1..(Len(s) - 1), NEW j \in 1..(Len(s) - 1), r[i] = r[j]
               PROVE  i = j
    BY <1>2 DEF NoRepeats
  <2>1. r[i] = (IF i < k THEN s[i] ELSE s[i + 1]) /\ r[j] = (IF j < k THEN s[j] ELSE s[j + 1])
    BY <1>1
  <2>2. i \in 1..Len(s) /\ i + 1 \in 1..Len(s) /\ j \in 1..Len(s) /\ j + 1 \in 1..Len(s)
    BY <1>2
  <2>3. CASE i < k /\ j < k
    BY <1>3, <2>1, <2>2, <2>3
  <2>4. CASE ~ (i < k) /\ ~ (j < k)
    <3>1. s[i + 1] = s[j + 1]
      BY <2>1, <2>4
    <3>2. i + 1 = j + 1
      BY <1>3, <2>2, <3>1, Zenon
    <3> QED
      BY <1>2, <3>2
  <2>5. CASE i < k /\ ~ (j < k)
    <3>1. i # j + 1
      BY <1>2, <2>5
    <3> QED
      BY <1>3, <2>1, <2>2, <2>5, <3>1
  <2>6. CASE ~ (i < k) /\ j < k
    <3>1. i + 1 # j
      BY <1>2, <2>6
    <3> QED
      BY <1>3, <2>1, <2>2, <2>6, <3>1
  <2> QED
    BY <2>3, <2>4, <2>5, <2>6
<1>5. ASSUME NEW x \in ToSet(r)
      PROVE  x \in ToSet(s) \ {e}
  <2>1. PICK i \in 1..(Len(s) - 1) : x = r[i]
    BY <1>2 DEF ToSet
  <2>2. x = IF i < k THEN s[i] ELSE s[i + 1]
    BY <1>1, <2>1
  <2>3. i \in 1..Len(s) /\ i + 1 \in 1..Len(s) /\ (i < k => i # k) /\ (~ (i < k) => i + 1 # k)
    BY <1>2
  <2>4. x # s[k]
    BY <1>3, <2>2, <2>3
  <2> QED
    BY <1>1, <1>2, <2>2, <2>3, <2>4 DEF ToSet
<1>6. ASSUME NEW x \in ToSet(s), x # e
      PROVE  x \in ToSet(r)
  <2>1. PICK i \in 1..Len(s) : x = s[i]
    BY <1>2 DEF ToSet
  <2>2. CASE i < k
    BY <1>1, <1>2, <2>1, <2>2 DEF ToSet
  <2>3. CASE i > k
    <3>1. i - 1 \in 1..(Len(s) - 1) /\ ~ (i - 1 < k) /\ (i - 1) + 1 = i
      BY <1>2, <2>3
    <3>2. r[i - 1] = s[i]
      BY <1>1, <3>1
    <3> QED
      BY <1>2, <2>1, <3>1, <3>2 DEF ToSet
  <2>4. i # k
    BY <1>1, <1>6, <2>1
  <2> QED
    BY <2>2, <2>3, <2>4
<1> QED
  BY <1>4, <1>5, <1>6 DEF r

-----------------------------------------------------------------------------
\* What list_delete leaves of a list has at most one client less.
LEMMA LeavesRest ==
  ASSUME NEW S, NEW s \in Seq(S), NEW e, Len(RemoveFirst(s, e)) < 1
  PROVE  Len(s) <= 1
<1>1. CASE e \in ToSet(s)
  BY <1>1, RemoveFirstAt, LenProperties
<1>2. CASE e \notin ToSet(s)
  <2>1. ~ \E i \in 1..Len(s) : s[i] = e
    BY <1>2, LenProperties DEF ToSet
  <2> QED
    BY <2>1 DEF RemoveFirst
<1> QED
  BY <1>1, <1>2

\* A step that takes a device off the list for one of its viewers finds no other
\* viewer, and nobody waiting.
LEMMA OthersStep ==
  ASSUME IInv, TypeOK', SdpPhaseInv, Next, "play_hls" \notin Events,
         NEW n \in listDev, n \notin listDev'
  PROVE  CameraEnds(n) \/ (Len(clients[n]) <= 1 /\ wait[n] = {})
<1> USE DEF IInv
<1>1. \A c \in Conn : node[c] # None => wait[node[c]] = {}
  <2>1. \A m \in Node : wait[m] # {} => status[m] = "CONNECTING"
    BY DEF WaitersIntact
  <2> QED
    BY <2>1 DEF SdpPhaseInv, TypeOK, TypeConns
<1>2. ASSUME NEW c \in Conn, Signalling(c)
      PROVE  Len(clients[n]) <= 1 /\ wait[n] = {}
  <2>1. deal_client_cmd_error_cb2(c)
    BY <1>2 DEF Signalling, Accept, DealBadCmd, ForwardCmd, deal_client_cmd_error_cb1,
       OpenUnlisted, OpenListed, push_stream, NewNode, DealServerInfo, AddViewer,
       PeerLostUnseen, Fault, registry
  <2>2. clients[n] = <<>> /\ wait[n] = {}
    BY <2>1 DEF deal_client_cmd_error_cb2, Fault, registry
  <2> QED
    BY <2>2
<1>3. ASSUME NEW m \in Node, SdpPhase(m)
      PROVE  CameraEnds(n)
  <2>1. DevLost(m) /\ n = m
    BY <1>3 DEF SdpPhase, DevConnected, DevLost, Broadcast, read_dev_sdp_basic_cb,
       read_dev_sdp_digest_cb, Fault, registry
  <2>2. devBev[n] \in {"connecting", "basic", "digest"} /\ status' = [status EXCEPT ![n] = "DISCONNECT"]
    BY <2>1 DEF DevLost, Fault, registry
  <2> QED
    BY <2>1, <2>2 DEF CameraEnds, SdpPhaseInv, TypeOK, TypeRegistry
<1>4. ASSUME NEW c \in Conn, VideoConnection(c)
      PROVE  Len(clients[n]) <= 1 /\ wait[n] = {}
  <2>1. node[c] # None
    BY <1>4, VideoEffect DEF TypeOK, TypeRefs
  <2>2. VideoRefused(c)
    BY <1>4 DEF VideoConnection, VideoConnected, send_rtsp_to_server_event_error_cb, Fault, registry
  <2>3. n = node[c] /\ Len(clients[n]) < 1
    BY <2>2 DEF VideoRefused, Fault, registry
  <2>4. Len(clients[n]) \in Nat
    BY <2>1, <2>3 DEF TypeOK, TypeClients, TypeConns
  <2> QED
    BY <1>1, <2>1, <2>3, <2>4
<1>5. ASSUME NEW t \in Conn, Reader(t)
      PROVE  CameraEnds(n)
  <2>1. ReaderClose(t)
    BY <1>5 DEF Reader, ReaderStart, ReaderOpen, ReaderCheck, ReaderRead, ReaderLock,
       ReaderSend, ReaderUnlock, ReaderFree, Fault, registry
  <2>2. n = node[t] /\ pc[t] = "closing" /\ pc' = [pc EXCEPT ![t] = "freeing"]
    BY <2>1 DEF ReaderClose, Fault, registry
  <2> QED
    BY <2>2 DEF CameraEnds, TypeOK, TypeControl
<1>6. ASSUME LoopResumes
      PROVE  Len(clients[n]) <= 1 /\ wait[n] = {}
  <2>1. UnlinkClient
    BY <1>6 DEF LoopResumes, SendSdp, ConnectOut, ClientAdded, AddViewer, StartReader, Fault, registry
  <2>2. /\ n = node[loopConn] /\ Len(RemoveFirst(clients[n], loopConn)) < 1
        /\ loopPc = "unlink"
    BY <2>1 DEF UnlinkClient, Fault, registry, LoopAt
  <2>3. loopConn \in Conn /\ node[loopConn] # None
    BY <2>2 DEF TypeOK, TypeRefs, TypeControl
  <2>4. clients[n] \in Seq(Conn)
    BY <2>2, <2>3 DEF TypeOK, TypeClients, TypeConns
  <2> QED
    BY <1>1, <2>2, <2>3, <2>4, LeavesRest
<1> QED
  BY <1>2, <1>3, <1>4, <1>5, <1>6 DEF Next

\* Nobody asking for HLS, only the last viewer's callbacks take a device off the
\* list: one with another viewer, or with waiters, leaves it with its camera.
THEOREM OthersKeepDeviceHolds ==
  ASSUME "play_hls" \notin Events
  PROVE  Spec => OthersKeepDevice
<1>1. IInv /\ TypeOK' /\ SdpPhaseInv /\ [Next]_vars
        => [\A n \in listDev : n \notin listDev' =>
             CameraEnds(n) \/ (Len(clients[n]) <= 1 /\ wait[n] = {})]_vars
  BY OthersStep
<1> QED
  BY TypeCorrect, IInvHolds, SdpPhaseHolds, <1>1, PTL DEF Spec, OthersKeepDevice

-----------------------------------------------------------------------------
(* The client lists.  What is claimed of the lists of live nodes is kept up  *)
(* by three further facts about what precedes and what follows a node's life *)
(* and a connection's stay in a list.                                        *)

\* Whoever is in a list, of whatever node, got there by connecting for it.
ListedConnect == \A n \in Node : \A c \in ToSet(clients[n]) : node[c] = n /\ video[c] # "none"

\* Nobody is in a list of a node that is still to be created.
Untouched == \A n \in Node : mem[n] = "none" => clients[n] = <<>> /\ wait[n] = {}

\* The client the loop is about to unlink is disabled.
UnlinksDisabled == loopPc = "unlink" => video[loopConn] = "disabled"

VInv == ViewersIntact /\ ListedConnect /\ Untouched /\ UnlinksDisabled

\* Initially the lists are empty.
LEMMA VInvInit == Init => VInv
<1> SUFFICES ASSUME Init
             PROVE  VInv
  OBVIOUS
<1>1. \A n \in Node : clients[n] = <<>> /\ ToSet(clients[n]) = {}
  BY DEF Init, ToSet
<1> QED
  BY <1>1 DEF Init, VInv, ViewersIntact, ListedConnect, Untouched, UnlinksDisabled, Viewing, Node

\* What is claimed of the lists, in the terms of the lemmas about lists.
Intact(n) ==
  /\ NoRepeats(clients[n])
  /\ ToSet(clients[n]) = {c \in Conn : node[c] = n /\ Viewing(c)}

\* ViewersIntact, node by node.
LEMMA IntactDef == ViewersIntact <=> \A n \in Node : mem[n] = "live" => Intact(n)
BY DEF ViewersIntact, Intact, NoRepeats

\* A step that leaves the lists alone keeps them intact if nobody begins or
\* ends to be a viewer, whoever gets a node has not connected out, and a node
\* that comes alive has no viewers.
LEMMA ListsKept ==
  ASSUME ViewersIntact, ListedConnect, UNCHANGED clients,
         \A n \in Node : \/ mem'[n] = "live" => mem[n] = "live"
                         \/ clients[n] = <<>> /\ \A e \in Conn : node'[e] = n => ~ Viewing(e),
         \A e \in Conn : Viewing(e)' <=> Viewing(e),
         \A e \in Conn : node'[e] = node[e] \/ (video[e] = "none" /\ ~ Viewing(e)),
         \A e \in Conn : video[e] # "none" => video'[e] # "none",
         TypeOK
  PROVE  ViewersIntact' /\ ListedConnect'
<1>1. \A n \in Node : ToSet(clients[n]) \subseteq Conn
  BY LenProperties, ElementOfSeq DEF TypeOK, TypeClients, ToSet
<1>2. ListedConnect'
  BY <1>1 DEF ListedConnect, Node
<1>3. ASSUME NEW n \in Node, mem'[n] = "live"
      PROVE  Intact(n)'
  <2>1. CASE mem[n] = "live"
    <3>1. Intact(n)
      BY <2>1, IntactDef
    <3>2. {c \in Conn : node'[c] = n /\ Viewing(c)'} = {c \in Conn : node[c] = n /\ Viewing(c)}
      <4>1. ASSUME NEW c \in Conn
            PROVE  node'[c] = n /\ Viewing(c)' <=> node[c] = n /\ Viewing(c)
        OBVIOUS
      <4> QED
        BY <4>1
    <3> QED
      BY <3>1, <3>2 DEF Intact
  <2>2. CASE clients[n] = <<>> /\ \A e \in Conn : node'[e] = n => ~ Viewing(e)
    <3>1. ToSet(clients[n]) = {} /\ NoRepeats(clients[n])
      BY <2>2 DEF ToSet, NoRepeats
    <3>2. {c \in Conn : node'[c] = n /\ Viewing(c)'} = {}
      BY <2>2
    <3> QED
      BY <3>1, <3>2 DEF Intact
  <2> QED
    BY <1>3, <2>1, <2>2
<1> QED
  BY <1>2, <1>3, IntactDef DEF ViewersIntact, Intact, NoRepeats

\* The elements of a client list are connections.
LEMMA ListElements ==
  ASSUME TypeOK, NEW n \in Node
  PROVE  clients[n] \in Seq(Conn) /\ ToSet(clients[n]) \subseteq Conn
BY LenProperties, ElementOfSeq DEF TypeOK, TypeClients, ToSet

\* A step that puts a new viewer on the list of its live node.
LEMMA ListJoined ==
  ASSUME ViewersIntact, ListedConnect, TypeOK, NEW c \in Conn, NEW n \in Node,
         n = node[c], mem[n] = "live", ~ Viewing(c), Viewing(c)', video'[c] # "none",
         clients' = [clients EXCEPT ![n] = Append(@, c)], UNCHANGED <<mem, node>>,
         \A e \in Conn : e # c => (Viewing(e)' <=> Viewing(e)) /\ video'[e] = video[e]
  PROVE  ViewersIntact' /\ ListedConnect'
<1>1. Intact(n)
  BY IntactDef
<1>2. clients[n] \in Seq(Conn) /\ ToSet(clients[n]) \subseteq Conn
  BY ListElements
<1>3. clients'[n] = Append(clients[n], c) /\ \A m \in Node : m # n => clients'[m] = clients[m]
  BY DEF TypeOK, TypeClients
<1>4. /\ ToSet(clients'[n]) = ToSet(clients[n]) \cup {c}
      /\ NoRepeats(clients'[n])
  BY <1>1, <1>2, <1>3, AppendToSet DEF Intact
<1>5. ListedConnect'
  BY <1>2, <1>3, <1>4, ListElements DEF ListedConnect, Node
<1>6. ASSUME NEW m \in Node, mem'[m] = "live"
      PROVE  Intact(m)'
  <2>1. Intact(m)
    BY <1>6, IntactDef
  <2>2. CASE m = n
    <3>1. {e \in Conn : node'[e] = m /\ Viewing(e)'} = {e \in Conn : node[e] = m /\ Viewing(e)} \cup {c}
      BY <2>2
    <3> QED
      BY <1>4, <2>1, <2>2, <3>1 DEF Intact
  <2>3. CASE m # n
    <3>1. \A e \in Conn : node'[e] = m /\ Viewing(e)' <=> node[e] = m /\ Viewing(e)
      BY <2>3
    <3> QED
      BY <1>3, <2>1, <2>3, <3>1 DEF Intact
  <2> QED
    BY <2>2, <2>3
<1> QED
  BY <1>5, <1>6 DEF ViewersIntact, Intact, NoRepeats

\* A step that takes a viewer off the list of its live node.
LEMMA ListLeft ==
  ASSUME ViewersIntact, ListedConnect, TypeOK, NEW c \in Conn, NEW n \in Node,
         n = node[c], mem[n] = "live", Viewing(c), ~ Viewing(c)', video'[c] # "none",
         clients' = [clients EXCEPT ![n] = RemoveFirst(@, c)], UNCHANGED node,
         \A m \in Node : mem'[m] = "live" => mem[m] = "live",
         \A e \in Conn : e # c => (Viewing(e)' <=> Viewing(e)) /\ video'[e] = video[e]
  PROVE  ViewersIntact' /\ ListedConnect' /\ ToSet(clients'[n]) = ToSet(clients[n]) \ {c}
<1>1. Intact(n)
  BY IntactDef
<1>2. clients[n] \in Seq(Conn) /\ ToSet(clients[n]) \subseteq Conn /\ c \in ToSet(clients[n])
  BY <1>1, ListElements DEF Intact
<1>3. clients'[n] = RemoveFirst(clients[n], c) /\ \A m \in Node : m # n => clients'[m] = clients[m]
  BY DEF TypeOK, TypeClients
<1>4. /\ ToSet(clients'[n]) = ToSet(clients[n]) \ {c}
      /\ NoRepeats(clients'[n])
  BY <1>1, <1>2, <1>3, RemoveFirstToSet DEF Intact
<1>5. ListedConnect'
  BY <1>2, <1>3, <1>4, ListElements DEF ListedConnect, Node
<1>6. ASSUME NEW m \in Node, mem'[m] = "live"
      PROVE  Intact(m)'
  <2>1. Intact(m)
    BY <1>6, IntactDef
  <2>2. CASE m = n
    <3>1. {e \in Conn : node'[e] = m /\ Viewing(e)'} = {e \in Conn : node[e] = m /\ Viewing(e)} \ {c}
      BY <2>2
    <3> QED
      BY <1>4, <2>1, <2>2, <3>1 DEF Intact
  <2>3. CASE m # n
    <3>1. \A e \in Conn : node'[e] = m /\ Viewing(e)' <=> node[e] = m /\ Viewing(e)
      BY <2>3
    <3> QED
      BY <1>3, <2>1, <2>3, <3>1 DEF Intact
  <2> QED
    BY <2>2, <2>3
<1> QED
  BY <1>4, <1>5, <1>6 DEF ViewersIntact, Intact, NoRepeats

\* A step that destroys the list of a node along with the node.
LEMMA ListDestroyed ==
  ASSUME ViewersIntact, ListedConnect, TypeOK, NEW n \in Node,
         clients' = [clients EXCEPT ![n] = <<>>], mem' = [mem EXCEPT ![n] = "shut"],
         UNCHANGED <<node, video, loopPc, loopConn>>
  PROVE  ViewersIntact' /\ ListedConnect'
<1>1. /\ clients'[n] = <<>> /\ \A m \in Node : m # n => clients'[m] = clients[m]
      /\ \A m \in Node : mem'[m] = "live" => m # n /\ mem[m] = "live"
  BY DEF TypeOK, TypeClients, TypeRegistry
<1>2. ToSet(clients'[n]) = {}
  BY <1>1 DEF ToSet
<1>3. ListedConnect'
  BY <1>1, <1>2 DEF ListedConnect
<1>4. ViewersIntact'
  BY <1>1 DEF ViewersIntact, Viewing
<1> QED
  BY <1>3, <1>4

-----------------------------------------------------------------------------
(* No step breaks a list.                                                    *)

\* A callback begins when no other is under way.
LEMMA LoopIdle ==
  ASSUME NEW c \in Conn, Signalling(c) \/ SdpPhase(c) \/ VideoConnection(c)
  PROVE  loopPc = "idle"
BY DEF Signalling, Accept, DealBadCmd, ForwardCmd, deal_client_cmd_error_cb1,
   OpenUnlisted, OpenListed, push_stream, DealServerInfo, deal_client_cmd_error_cb2,
   PeerLostUnseen, SdpPhase, DevConnected, DevLost, read_dev_sdp_basic_cb,
   read_dev_sdp_digest_cb, VideoConnection, VideoConnected, VideoRefused,
   send_rtsp_to_server_event_error_cb, LoopReady

\* A connection whose command has not been read has neither node nor viewer.
LEMMA CommandUnused ==
  ASSUME IInv, NEW c \in Conn, sig[c] = "command"
  PROVE  /\ node[c] = None /\ mem[c] = "none" /\ video[c] = "none" /\ pc[c] = "none"
         /\ \A e \in Conn : node[e] # c
         /\ \A n \in Node : c \notin wait[n]
         /\ loopConn # c
BY ConnAssumption DEF IInv, History, Fresh, Born, TypeOK, TypeRefs, WaitersIntact, Node

\* A step that moves no video connection, no client list and no node, and after
\* which the loop does not unlink if it did not before, breaks no list.
LEMMA ListsQuiet ==
  ASSUME IInv, VInv, UNCHANGED <<clients, node, video>>,
         (loopPc # "unlink" /\ loopPc' # "unlink") \/ UNCHANGED <<loopPc, loopConn>>,
         \A n \in Node : mem'[n] = "live" => mem[n] = "live"
  PROVE  ViewersIntact' /\ ListedConnect'
<1>1. \A e \in Conn : Viewing(e)' <=> Viewing(e)
  BY DEF Viewing
<1> QED
  BY <1>1, ListsKept DEF IInv, VInv

\* The signalling callbacks.
LEMMA ListsSignalling ==
  ASSUME IInv, VInv, NEW c \in Conn, Signalling(c)
  PROVE  ViewersIntact' /\ ListedConnect'
<1> USE DEF IInv, VInv
<1>0. loopPc = "idle"
  BY LoopIdle
<1>1. CASE \/ Accept(c) \/ DealBadCmd(c) \/ ForwardCmd(c)
           \/ deal_client_cmd_error_cb1(c) \/ deal_client_cmd_error_cb2(c) \/ PeerLostUnseen(c)
  <2>1. UNCHANGED <<clients, node, video, loopPc, loopConn, mem>>
    BY <1>1 DEF Accept, DealBadCmd, ForwardCmd, deal_client_cmd_error_cb1,
       deal_client_cmd_error_cb2, PeerLostUnseen, Fault, registry, loopVars, conns
  <2> QED
    BY <2>1, ListsQuiet
<1>2. ASSUME sig[c] = "command", UNCHANGED <<clients, video>>,
             \E n : node' \in {node, [node EXCEPT ![c] = n]},
             mem' \in {mem, [mem EXCEPT ![c] = "live"]}, loopPc' # "unlink"
      PROVE  ViewersIntact' /\ ListedConnect'
  <2>1. \A e \in Conn : Viewing(e)' <=> Viewing(e)
    BY <1>0, <1>2 DEF Viewing
  <2>2. /\ video[c] = "none" /\ ~ Viewing(c) /\ clients[c] = <<>>
        /\ \A e \in Conn : node[e] # c
    BY <1>0, <1>2, CommandUnused DEF Viewing, Untouched, Node
  <2>3. \A e \in Conn : node'[e] = node[e] \/ e = c
    BY <1>2 DEF TypeOK, TypeConns
  <2>4. \A n \in Node : n # c => (mem'[n] = "live" => mem[n] = "live")
    BY <1>2 DEF TypeOK, TypeRegistry
  <2>5. \A n \in Node : \/ mem'[n] = "live" => mem[n] = "live"
                        \/ clients[n] = <<>> /\ \A e \in Conn : node'[e] = n => ~ Viewing(e)
    BY <2>2, <2>3, <2>4
  <2> QED
    BY <1>2, <2>1, <2>2, <2>3, <2>5, ListsKept
<1>3. ASSUME NEW d \in Wants[c], OpenUnlisted(c, d) \/ OpenListed(c, d) \/ push_stream(c, d)
      PROVE  ViewersIntact' /\ ListedConnect'
  BY <1>0, <1>2, <1>3 DEF OpenUnlisted, OpenListed, push_stream, NewNode, Resume, registry,
     loopVars, conns
<1>4. CASE DealServerInfo(c)
  <2>1. CASE fault' # fault
    <3>1. UNCHANGED <<clients, node, video, loopPc, loopConn, mem>>
      BY <1>4, <2>1 DEF DealServerInfo, Fault, registry, loopVars, conns
    <3> QED
      BY <3>1, ListsQuiet
  <2>2. CASE fault' = fault
    <3>1. /\ sig[c] \in {"sdp", "sdp_nocb"} /\ mem[node[c]] = "live"
          /\ clients' = [clients EXCEPT ![node[c]] = Append(@, c)]
          /\ video' = [video EXCEPT ![c] = "connecting"]
          /\ loopPc' = "added" /\ UNCHANGED <<mem, node>>
      BY <1>4, <2>2 DEF DealServerInfo, AddViewer, Fault, LoopReady, loopVars
    <3>2. node[c] \in Node /\ video[c] = "none"
      BY <3>1 DEF TypeOK, TypeRefs, TypeConns, History, InOrder, Node
    <3>3. ~ Viewing(c) /\ Viewing(c)' /\ video'[c] # "none"
      BY <1>0, <3>1, <3>2 DEF Viewing, TypeOK, TypeConns
    <3>4. \A e \in Conn : e # c => (Viewing(e)' <=> Viewing(e)) /\ video'[e] = video[e]
      BY <1>0, <3>1 DEF Viewing, TypeOK, TypeConns
    <3> QED
      BY <3>1, <3>2, <3>3, <3>4, ListJoined
  <2> QED
    BY <2>1, <2>2
<1> QED
  BY <1>1, <1>3, <1>4 DEF Signalling

\* The callbacks of the connections to the cameras.
LEMMA ListsSdp ==
  ASSUME IInv, VInv, NEW n \in Node, SdpPhase(n)
  PROVE  ViewersIntact' /\ ListedConnect'
<1> USE DEF IInv, VInv
<1>0. loopPc = "idle" /\ UNCHANGED <<mem, video, loopPc, loopConn>>
  BY LoopIdle, SdpFrame DEF Node
<1>1. clients' = clients
  BY DEF SdpPhase, DevConnected, DevLost, Broadcast, read_dev_sdp_basic_cb,
     read_dev_sdp_digest_cb, Fault, registry
<1>2. \/ node' = node
      \/ node' = [c \in Conn |-> IF c \in wait[n] THEN n ELSE node[c]]
  BY DEF SdpPhase, DevConnected, DevLost, Broadcast, Answered, read_dev_sdp_basic_cb,
     read_dev_sdp_digest_cb, Fault, conns
<1>3. \A c \in wait[n] : video[c] = "none"
  BY DEF WaitersIntact, History, InOrder, TypeOK, TypeRegistry, Node
<1>4. \A e \in Conn : node'[e] = node[e] \/ (video[e] = "none" /\ ~ Viewing(e))
  BY <1>0, <1>2, <1>3 DEF Viewing
<1>5. \A e \in Conn : Viewing(e)' <=> Viewing(e)
  BY <1>0 DEF Viewing
<1> QED
  BY <1>0, <1>1, <1>4, <1>5, ListsKept

\* A step that changes one video connection, which is a viewer before and after.
LEMMA ListsMoved ==
  ASSUME IInv, VInv, NEW c \in Conn, NEW x, video' = [video EXCEPT ![c] = x],
         Viewing(c), Viewing(c)', x # "none",
         \A e \in Conn : e # c => loopConn # e \/ loopPc # "unlink",
         \A e \in Conn : e # c => loopConn' # e \/ loopPc' # "unlink",
         UNCHANGED <<clients, node, mem>>
  PROVE  ViewersIntact' /\ ListedConnect'
<1>1. \A e \in Conn : Viewing(e)' <=> Viewing(e)
  BY DEF Viewing, IInv, TypeOK, TypeConns
<1>2. \A e \in Conn : video[e] # "none" => video'[e] # "none"
  BY DEF IInv, TypeOK, TypeConns
<1> QED
  BY <1>1, <1>2, ListsKept DEF IInv, VInv

\* A video connection that is refused leaves its list.
LEMMA RefusedLeaves ==
  ASSUME IInv, VInv, NEW c \in Conn, VideoRefused(c), fault' = fault
  PROVE  /\ video[c] = "connecting" /\ node[c] \in Node /\ mem[node[c]] = "live"
         /\ ViewersIntact' /\ ListedConnect'
         /\ c \in ToSet(clients[node[c]])
         /\ ToSet(clients'[node[c]]) = ToSet(clients[node[c]]) \ {c}
         /\ clients' = [clients EXCEPT ![node[c]] = RemoveFirst(@, c)]
         /\ UNCHANGED <<listDev, mem, status, wait, sig, node, loopPc, loopConn>>
<1> USE DEF IInv, VInv
<1>1. /\ video[c] = "connecting" /\ mem[node[c]] = "live" /\ loopPc = "idle"
      /\ clients' = [clients EXCEPT ![node[c]] = RemoveFirst(@, c)]
      /\ video' = [video EXCEPT ![c] = "freed"]
      /\ UNCHANGED <<status, wait, sig, node, loopPc, loopConn>>
      /\ Len(clients[node[c]]) >= 1 => UNCHANGED <<listDev, mem>>
  BY DEF VideoRefused, Fault, LoopReady, loopVars, TypeOK, TypeClients
<1>2. node[c] \in Node /\ Viewing(c)
  BY <1>1 DEF Viewing, TypeOK, TypeRefs, TypeConns, Node
<1>3. c \in ToSet(clients[node[c]])
  BY <1>1, <1>2, IntactDef DEF Intact
<1>4. Len(clients[node[c]]) >= 1
  BY <1>2, <1>3, LenProperties DEF TypeOK, TypeClients, ToSet
<1>5. ~ Viewing(c)' /\ video'[c] # "none"
  BY <1>1 DEF Viewing, TypeOK, TypeConns
<1>6. \A e \in Conn : e # c => (Viewing(e)' <=> Viewing(e)) /\ video'[e] = video[e]
  BY <1>1 DEF Viewing, TypeOK, TypeConns
<1>7. \A m \in Node : mem'[m] = "live" => mem[m] = "live"
  BY <1>1, <1>4
<1> QED
  BY <1>1, <1>2, <1>3, <1>4, <1>5, <1>6, <1>7, ListLeft

\* The callbacks of the video connections.
LEMMA ListsVideo ==
  ASSUME IInv, VInv, NEW c \in Conn, VideoConnection(c)
  PROVE  ViewersIntact' /\ ListedConnect'
<1> USE DEF IInv, VInv
<1>0. loopPc = "idle"
  BY LoopIdle
<1>1. CASE fault' # fault
  <2>1. UNCHANGED <<clients, node, video, loopPc, loopConn, mem>>
    BY <1>1 DEF VideoConnection, VideoConnected, VideoRefused,
       send_rtsp_to_server_event_error_cb, Fault, registry, loopVars, conns
  <2> QED
    BY <2>1, ListsQuiet
<1>2. CASE VideoConnected(c)
  BY <1>0, <1>2, ListsMoved DEF VideoConnected, Resume, Viewing, TypeOK, TypeConns, registry
<1>3. CASE VideoRefused(c) /\ fault' = fault
  BY <1>3, RefusedLeaves
<1>4. CASE send_rtsp_to_server_event_error_cb(c) /\ fault' = fault
  <2>1. /\ video[c] = "streaming" /\ UNCHANGED <<clients, node, mem>>
        /\ \/ video' = [video EXCEPT ![c] = "flagged"] /\ UNCHANGED <<loopPc, loopConn>>
           \/ /\ video' = [video EXCEPT ![c] = "disabled"]
              /\ loopPc' = "unlink" /\ loopConn' = c
    BY <1>4 DEF send_rtsp_to_server_event_error_cb, Fault, LoopReady, Resume, registry, loopVars
  <2> QED
    BY <1>0, <2>1, ListsMoved DEF Viewing, TypeOK, TypeConns
<1> QED
  BY <1>1, <1>2, <1>3, <1>4 DEF VideoConnection

\* A video connection lost before its reader runs leaves its list.
LEMMA UnlinkLeaves ==
  ASSUME IInv, VInv, UnlinkClient, fault' = fault, NEW c \in Conn, c = loopConn
  PROVE  /\ loopPc = "unlink" /\ video[c] = "disabled"
         /\ node[c] \in Node /\ mem[node[c]] = "live"
         /\ ViewersIntact' /\ ListedConnect'
         /\ c \in ToSet(clients[node[c]])
         /\ ToSet(clients'[node[c]]) = ToSet(clients[node[c]]) \ {c}
         /\ clients' = [clients EXCEPT ![node[c]] = RemoveFirst(@, c)]
         /\ listDev' = IF Len(clients'[node[c]]) < 1 THEN listDev \ {node[c]} ELSE listDev
         /\ loopPc' = "idle"
         /\ UNCHANGED <<mem, status, wait, sig, node>>
<1> USE DEF IInv, VInv
<1>1. /\ loopPc = "unlink" /\ loopPc' = "idle" /\ mem[node[c]] = "live"
      /\ clients' = [clients EXCEPT ![node[c]] = RemoveFirst(@, c)]
      /\ listDev' = IF Len(RemoveFirst(clients[node[c]], c)) < 1
                    THEN listDev \ {node[c]} ELSE listDev
      /\ UNCHANGED <<mem, status, wait, sig, node, video>>
  BY DEF UnlinkClient, Fault, LoopAt, Return, Resume, conns
<1>2. node[c] \in Node
  BY <1>1 DEF TypeOK, TypeRefs, TypeControl, TypeConns, Node
<1>3. video[c] = "disabled" /\ Viewing(c) /\ ~ Viewing(c)'
  BY <1>1, <1>2 DEF UnlinksDisabled, Viewing
<1>4. c \in ToSet(clients[node[c]])
  BY <1>1, <1>2, <1>3, IntactDef DEF Intact
<1>5. \A e \in Conn : e # c => (Viewing(e)' <=> Viewing(e)) /\ video'[e] = video[e]
  BY <1>1 DEF Viewing
<1>6. clients'[node[c]] = RemoveFirst(clients[node[c]], c)
  BY <1>1, <1>2 DEF TypeOK, TypeClients
<1>7. ViewersIntact' /\ ListedConnect' /\ ToSet(clients'[node[c]]) = ToSet(clients[node[c]]) \ {c}
  BY <1>1, <1>2, <1>3, <1>5, ListLeft
<1> QED
  BY <1>1, <1>2, <1>3, <1>4, <1>6, <1>7

\* The loop where it resumes.
LEMMA ListsResume ==
  ASSUME IInv, VInv, LoopResumes
  PROVE  ViewersIntact' /\ ListedConnect'
<1> USE DEF IInv, VInv
<1>0. PICK c \in Conn : c = loopConn /\ node[c] \in Node
  BY DEF LoopResumes, SendSdp, ConnectOut, ClientAdded, StartReader, UnlinkClient, LoopAt, TypeOK,
     TypeRefs, TypeControl, TypeConns, Node
<1>1. CASE fault' # fault \/ SendSdp \/ ClientAdded
  <2>1. /\ UNCHANGED <<clients, node, video, mem>>
        /\ (loopPc # "unlink" /\ loopPc' # "unlink") \/ UNCHANGED <<loopPc, loopConn>>
    BY <1>1 DEF LoopResumes, SendSdp, ConnectOut, ClientAdded, AddViewer, StartReader, UnlinkClient, Fault,
       LoopAt, Return, Resume, registry, loopVars, conns
  <2> QED
    BY <2>1, ListsQuiet
<1>2. CASE ConnectOut /\ fault' = fault
  <2>1. /\ loopPc = "connect" /\ loopPc' = "added" /\ mem[node[c]] = "live"
        /\ clients' = [clients EXCEPT ![node[c]] = Append(@, c)]
        /\ video' = [video EXCEPT ![c] = "connecting"]
        /\ UNCHANGED <<mem, node>>
    BY <1>0, <1>2 DEF ConnectOut, AddViewer, Fault, LoopAt, Return, Resume
  <2>2. ~ Viewing(c) /\ Viewing(c)' /\ video'[c] # "none"
    BY <1>0, <2>1 DEF Viewing, History, ResumesInOrder, TypeOK, TypeConns
  <2>3. \A e \in Conn : e # c => (Viewing(e)' <=> Viewing(e)) /\ video'[e] = video[e]
    BY <1>0, <2>1 DEF Viewing, TypeOK, TypeConns
  <2> QED
    BY <1>0, <2>1, <2>2, <2>3, ListJoined
<1>3. CASE StartReader /\ fault' = fault
  <2>1. /\ loopPc = "start" /\ loopPc' = "idle"
        /\ video' = [video EXCEPT ![c] = "streaming"]
        /\ UNCHANGED <<clients, node, mem>>
    BY <1>0, <1>3 DEF StartReader, Fault, LoopAt, Return, Resume, registry
  <2>2. Viewing(c) /\ Viewing(c)'
    BY <1>0, <2>1 DEF Viewing, History, ResumesInOrder, TypeOK, TypeConns
  <2> QED
    BY <1>0, <2>1, <2>2, ListsMoved
<1>4. CASE UnlinkClient /\ fault' = fault
  BY <1>0, <1>4, UnlinkLeaves
<1> QED
  BY <1>1, <1>2, <1>3, <1>4 DEF LoopResumes

\* A reader drops nobody but viewers of its node, and takes them off the list.
LEMMA DropLeaves ==
  ASSUME IInv, VInv, NEW t \in Conn, ReaderSend(t), ~ UNCHANGED <<clients, video>>
  PROVE  /\ node[t] \in Node /\ mem[node[t]] = "live"
         /\ ViewersIntact' /\ ListedConnect'
         /\ UNCHANGED <<listDev, mem, status, wait, sig, node, loopPc, loopConn>>
         /\ \E c \in ToSet(clients[node[t]]) :
              /\ video[c] = "flagged"
              /\ clients' = [clients EXCEPT ![node[t]] = RemoveFirst(@, c)]
              /\ ToSet(clients'[node[t]]) = ToSet(clients[node[t]]) \ {c}
<1> USE DEF IInv, VInv
<1> DEFINE n == node[t]
<1>1. PICK c : /\ c = clients[n][pos[t] + 1] /\ mem[n] = "live" /\ pos[t] < Len(clients[n])
               /\ video[c] = "flagged" /\ video' = [video EXCEPT ![c] = "freed"]
               /\ clients' = [clients EXCEPT ![n] = RemoveFirst(@, c)]
               /\ UNCHANGED <<listDev, mem, status, wait, sig, node, loopPc, loopConn>>
  BY DEF ReaderSend, DropClient, Flagged, Fault, registry, conns, loopVars
<1>2. n \in Node
  <2>1. pc[t] # "none"
    BY DEF ReaderSend, ReaderAt
  <2> QED
    BY <2>1 DEF TypeOK, TypeRefs, TypeConns, Node
<1> HIDE DEF n
<1>3. c \in ToSet(clients[n]) /\ c \in Conn
  <2>1. clients[n] \in Seq(Conn) /\ ToSet(clients[n]) \subseteq Conn
    BY <1>2, ListElements
  <2>2. pos[t] + 1 \in 1..Len(clients[n]) /\ DOMAIN clients[n] = 1..Len(clients[n])
    <3>1. PICK s, p : s = clients[n] /\ p = pos[t]
      OBVIOUS
    <3>2. s \in Seq(Conn) /\ p < Len(s)
      BY ONLY <1>1, <2>1, <3>1
    <3>3. p \in Nat
      BY <3>1 DEF TypeOK, TypeClients
    <3>4. Len(s) \in Nat /\ DOMAIN s = 1..Len(s)
      BY ONLY <3>2, LenProperties
    <3>5. p + 1 \in 1..Len(s)
      BY ONLY <3>2, <3>3, <3>4
    <3> QED
      BY ONLY <3>1, <3>4, <3>5
  <2>3. c \in ToSet(clients[n])
    BY <1>1, <2>2 DEF ToSet
  <2> QED
    BY <2>1, <2>3
<1>4. node[c] = n
  BY <1>2, <1>3 DEF ListedConnect
<1>5. Viewing(c) /\ ~ Viewing(c)' /\ video'[c] # "none"
  BY <1>1, <1>3 DEF Viewing, UnlinksDisabled, TypeOK, TypeConns
<1>6. \A e \in Conn : e # c => (Viewing(e)' <=> Viewing(e)) /\ video'[e] = video[e]
  BY <1>1, <1>3 DEF Viewing, TypeOK, TypeConns
<1>7. ViewersIntact' /\ ListedConnect' /\ ToSet(clients'[n]) = ToSet(clients[n]) \ {c}
  BY <1>1, <1>2, <1>3, <1>4, <1>5, <1>6, ListLeft
<1> QED
  BY <1>1, <1>2, <1>3, <1>7 DEF n

\* The readers.
LEMMA ListsReader ==
  ASSUME IInv, VInv, NEW t \in Conn, Reader(t)
  PROVE  ViewersIntact' /\ ListedConnect'
<1> USE DEF IInv, VInv
<1>0. UNCHANGED <<node, loopPc, loopConn>> /\ pc[t] # "none"
  BY ReaderFrame, ReaderEffect
<1>1. node[t] \in Node
  BY <1>0 DEF TypeOK, TypeRefs, TypeConns, Node
<1>2. CASE \/ ReaderStart(t) \/ ReaderOpen(t) \/ ReaderCheck(t) \/ ReaderRead(t)
           \/ ReaderLock(t) \/ ReaderUnlock(t) \/ (ReaderSend(t) /\ UNCHANGED <<clients, video>>)
           \/ fault' # fault
  <2>1. UNCHANGED <<clients, mem, video>>
    <3>1. CASE fault' # fault
      BY <3>1 DEF Reader, ReaderStart, ReaderOpen, ReaderCheck, ReaderRead, ReaderLock,
         ReaderSend, ReaderUnlock, ReaderClose, ReaderFree, Fault, registry, conns
    <3>2. CASE ReaderSend(t) /\ UNCHANGED <<clients, video>>
      BY <3>2 DEF ReaderSend, Fault, registry
    <3>3. CASE \/ ReaderStart(t) \/ ReaderOpen(t) \/ ReaderCheck(t) \/ ReaderRead(t)
               \/ ReaderLock(t) \/ ReaderUnlock(t)
      BY <3>3 DEF ReaderStart, ReaderOpen, ReaderCheck, ReaderRead, ReaderLock, ReaderUnlock,
         Fault, registry, conns
    <3> QED
      BY <1>2, <3>1, <3>2, <3>3
  <2> QED
    BY <1>0, <2>1, ListsQuiet
<1>3. CASE ReaderSend(t) /\ ~ UNCHANGED <<clients, video>>
  BY <1>3, DropLeaves
<1>4. CASE ReaderClose(t) /\ fault' = fault
  <2>1. /\ clients' = [clients EXCEPT ![node[t]] = <<>>] /\ mem' = [mem EXCEPT ![node[t]] = "shut"]
        /\ video' = video
    BY <1>4 DEF ReaderClose, ReaderAt, Fault, conns
  <2> QED
    BY <1>0, <1>1, <2>1, ListDestroyed
<1>5. CASE ReaderFree(t)
  <2>1. UNCHANGED <<clients, video>> /\ mem' = [mem EXCEPT ![node[t]] = "freed"]
    BY <1>5 DEF ReaderFree, conns
  <2>2. \A n \in Node : mem'[n] = "live" => mem[n] = "live"
    BY <2>1 DEF TypeOK, TypeRegistry
  <2> QED
    BY <1>0, <2>1, <2>2, ListsQuiet
<1> QED
  BY <1>2, <1>3, <1>4, <1>5 DEF Reader

\* What precedes a node's life and what follows the loss of a video connection.
LEMMA UntouchedStep ==
  ASSUME IInv, VInv, Next
  PROVE  Untouched'
<1> USE DEF IInv, VInv
<1>1. \A n \in Node : mem'[n] = "none" => mem[n] = "none"
  BY MemStep
<1>2. \A n \in Node : mem'[n] = "none" => clients'[n] = clients[n]
  BY <1>1, ClientsEffect DEF History, Born, TypeOK, TypeClients
<1>3. ASSUME NEW c \in Conn, Signalling(c)
      PROVE  \/ wait' = wait
             \/ \E n \in listDev : wait' = [wait EXCEPT ![n] = @ \cup {c}]
             \/ mem' = [mem EXCEPT ![c] = "live"] /\ \E W : wait' = [wait EXCEPT ![c] = W]
  BY <1>3 DEF Signalling, Accept, DealBadCmd, ForwardCmd,
     deal_client_cmd_error_cb1, OpenUnlisted, OpenListed, push_stream, NewNode, Listed,
     DealServerInfo, AddViewer, deal_client_cmd_error_cb2, PeerLostUnseen, Fault, registry
<1>4. ASSUME NEW c \in Conn, SdpPhase(c)
      PROVE  wait' = wait \/ wait' = [wait EXCEPT ![c] = {}]
  BY <1>4 DEF SdpPhase, DevConnected, DevLost, Broadcast, DestroyWaiters,
     read_dev_sdp_basic_cb, read_dev_sdp_digest_cb, Fault, registry
<1>5. ASSUME NEW n \in Node, mem'[n] = "none"
      PROVE  wait'[n] = {}
  <2>1. wait[n] = {} /\ mem[n] = "none"
    BY <1>1, <1>5 DEF Untouched
  <2>2. CASE wait' = wait \/ \E c \in Conn : wait' = [wait EXCEPT ![c] = {}]
    BY <2>1, <2>2 DEF TypeOK, TypeRegistry, Node
  <2>3. CASE \E c \in Conn : \E m \in listDev : wait' = [wait EXCEPT ![m] = @ \cup {c}]
    BY <2>1, <2>3 DEF RegistryLive, TypeOK, TypeRegistry
  <2>4. CASE \E c \in Conn : /\ mem' = [mem EXCEPT ![c] = "live"]
                             /\ \E W : wait' = [wait EXCEPT ![c] = W]
    BY <1>5, <2>1, <2>4 DEF TypeOK, TypeRegistry, Node
  <2> QED
    BY <1>3, <1>4, <2>2, <2>3, <2>4, ReaderFrame, VideoFrame, ResumeFrame DEF Next
<1> QED
  BY <1>1, <1>2, <1>5 DEF Untouched

\* UnlinksDisabled is kept by every step.
LEMMA UnlinksStep ==
  ASSUME IInv, VInv, Next
  PROVE  UnlinksDisabled'
<1> USE DEF IInv, VInv
<1>1. ASSUME NEW c \in Conn, Signalling(c)
      PROVE  loopPc' # "unlink"
  BY <1>1, LoopIdle DEF Signalling, Accept, DealBadCmd, ForwardCmd,
     deal_client_cmd_error_cb1, OpenUnlisted, OpenListed, push_stream, DealServerInfo, AddViewer,
     deal_client_cmd_error_cb2, PeerLostUnseen, Fault, Resume, loopVars
<1>2. ASSUME NEW n \in Conn, SdpPhase(n)
      PROVE  loopPc' # "unlink"
  BY <1>2, LoopIdle, SdpFrame DEF Node
<1>3. ASSUME NEW c \in Conn, VideoConnection(c)
      PROVE  loopPc' = "unlink" => loopConn' = c /\ video'[c] = "disabled"
  BY <1>3, LoopIdle DEF VideoConnection, VideoConnected, VideoRefused,
     send_rtsp_to_server_event_error_cb, Fault, Resume, loopVars, TypeOK, TypeConns
<1>4. ASSUME NEW t \in Conn, Reader(t)
      PROVE  UnlinksDisabled'
  <2>1. UNCHANGED <<loopPc, loopConn>>
    BY <1>4, ReaderFrame
  <2>2. video' = video \/ \E c : video[c] = "flagged" /\ video' = [video EXCEPT ![c] = "freed"]
    BY <1>4, ReaderEffect
  <2> QED
    BY <2>1, <2>2 DEF UnlinksDisabled, TypeOK, TypeConns, TypeRefs, TypeControl
<1>5. ASSUME LoopResumes
      PROVE  UnlinksDisabled'
  <2>1. UNCHANGED <<video, loopPc, loopConn>> \/ loopPc' \in {"idle", "added"}
    BY <1>5, ResumeEffect
  <2> QED
    BY <2>1 DEF UnlinksDisabled
<1> QED
  BY <1>1, <1>2, <1>3, <1>4, <1>5 DEF Next, UnlinksDisabled

\* The invariant the viewers' lists rest on holds in every state.
THEOREM VInvHolds == Spec => []VInv
<1>1. IInv /\ VInv /\ Next => VInv'
  <2> SUFFICES ASSUME IInv, VInv, Next
               PROVE  VInv'
    OBVIOUS
  <2>1. ViewersIntact' /\ ListedConnect'
    BY ListsSignalling, ListsSdp, ListsVideo, ListsReader, ListsResume DEF Next, Node
  <2> QED
    BY <2>1, UntouchedStep, UnlinksStep DEF VInv
<1>2. VInv /\ UNCHANGED vars => VInv'
  BY DEF VInv, ViewersIntact, ListedConnect, Untouched, UnlinksDisabled, Viewing, vars,
     registry, conns, loopVars
<1> QED
  BY IInvHolds, VInvInit, <1>1, <1>2, PTL DEF Spec

\* The client list of a live node holds exactly its viewers, each once: the loop
\* and the readers, who both change it, never lose, duplicate or forget one.
THEOREM ViewersIntactHolds == Spec => []ViewersIntact
<1>1. VInv => ViewersIntact
  BY DEF VInv
<1> QED
  BY <1>1, VInvHolds, PTL

\* Nobody asking for HLS, the loop never resumes to connect out.
LEMMA NeverConnects ==
  ASSUME loopPc # "connect", Next, "play_hls" \notin Events
  PROVE  loopPc' # "connect"
<1>1. ASSUME NEW c \in Conn, Signalling(c)
      PROVE  loopPc' # "connect"
  BY <1>1 DEF Signalling, Accept, DealBadCmd, ForwardCmd,
     deal_client_cmd_error_cb1, OpenUnlisted, OpenListed, push_stream, DealServerInfo, AddViewer,
     deal_client_cmd_error_cb2, PeerLostUnseen, Fault, Resume, loopVars
<1>2. ASSUME NEW c \in Conn, SdpPhase(c) \/ VideoConnection(c) \/ Reader(c)
      PROVE  loopPc' # "connect"
  BY <1>2, SdpFrame, VideoEffect, ReaderFrame DEF Node
<1> QED
  BY <1>1, <1>2, ResumeEffect DEF Next

-----------------------------------------------------------------------------
(* Where RelayServer can use memory it has released: as long as no two       *)
(* viewers share a node and no stream fails, nowhere but in the reader's     *)
(* send loop.  A viewer that has its node for itself keeps it alive: only    *)
(* its own reader releases the node, and only when the viewer is gone.       *)

\* Whoever waits for an SDP has no node yet.
WaitersNodeless == \A n \in Node : \A c \in wait[n] : node[c] = None

\* The node of a connection is alive until the connection's reader closes it.
Alive ==
  \A c \in Conn : node[c] # None /\ pc[c] \notin {"freeing", "done"} => mem[node[c]] = "live"

\* A reader closes only when the connection it was started for does not view.
Ended == \A c \in Conn : pc[c] \in {"closing", "freeing", "done"} => ~ Viewing(c)

Sound == Alive /\ Ended /\ fault \in {"none", "list_get_at"}

\* What is assumed of the events: nobody asks for HLS, and no stream fails.
StreamsLast == {"play_hls", "open_fail", "read_fail"} \cap Events = {}

-----------------------------------------------------------------------------
\* A connection gets a node once, and while it waits it has none.
LEMMA NodelessStep ==
  ASSUME IInv, WaitersNodeless, Next
  PROVE  WaitersNodeless' /\ \A c \in Conn : node[c] # None => node'[c] = node[c]
<1> USE DEF IInv
<1>1. ASSUME NEW c \in Conn, Signalling(c)
      PROVE  WaitersNodeless' /\ \A e \in Conn : node[e] # None => node'[e] = node[e]
  <2>1. CASE UNCHANGED <<wait, node>>
    BY <2>1 DEF WaitersNodeless
  <2>2. CASE sig[c] = "command" /\ wait' = wait /\ \E n : node' = [node EXCEPT ![c] = n]
    BY <2>2, CommandUnused DEF WaitersNodeless, TypeOK, TypeConns
  <2>3. CASE /\ sig[c] = "command" /\ node' = node
             /\ \E n : \E W \in {{}, {c}, wait[n] \cup {c}} : wait' = [wait EXCEPT ![n] = W]
    BY <2>3, CommandUnused DEF WaitersNodeless, TypeOK, TypeRegistry
  <2>4. CASE /\ sig[c] = "command" /\ \E n : node' = [node EXCEPT ![c] = n]
             /\ wait' = [wait EXCEPT ![c] = {}]
    BY <2>4, CommandUnused DEF WaitersNodeless, TypeOK, TypeRegistry, TypeConns
  <2>5. ASSUME NEW d \in Wants[c], OpenUnlisted(c, d)
        PROVE  WaitersNodeless' /\ \A e \in Conn : node[e] # None => node'[e] = node[e]
    BY <2>1, <2>3, <2>5 DEF OpenUnlisted, NewNode, registry
  <2>6. ASSUME NEW d \in Wants[c], OpenListed(c, d)
        PROVE  WaitersNodeless' /\ \A e \in Conn : node[e] # None => node'[e] = node[e]
    BY <2>1, <2>2, <2>3, <2>6 DEF OpenListed
  <2>7. ASSUME NEW d \in Wants[c], push_stream(c, d)
        PROVE  WaitersNodeless' /\ \A e \in Conn : node[e] # None => node'[e] = node[e]
    BY <2>1, <2>2, <2>4, <2>7 DEF push_stream, NewNode, registry
  <2>8. CASE \/ Accept(c) \/ DealBadCmd(c) \/ ForwardCmd(c)
             \/ deal_client_cmd_error_cb1(c) \/ deal_client_cmd_error_cb2(c)
             \/ PeerLostUnseen(c) \/ DealServerInfo(c)
    BY <2>1, <2>8 DEF Accept, DealBadCmd, ForwardCmd, deal_client_cmd_error_cb1,
       deal_client_cmd_error_cb2, PeerLostUnseen, DealServerInfo, AddViewer, Fault, registry, conns
  <2> QED
    BY <1>1, <2>5, <2>6, <2>7, <2>8 DEF Signalling
<1>2. ASSUME NEW n \in Node, SdpPhase(n)
      PROVE  WaitersNodeless' /\ \A e \in Conn : node[e] # None => node'[e] = node[e]
  <2>1. CASE node' = node /\ wait' \in {wait, [wait EXCEPT ![n] = {}]}
    BY <2>1 DEF WaitersNodeless, TypeOK, TypeRegistry
  <2>2. CASE /\ node' = [c \in Conn |-> IF c \in wait[n] THEN n ELSE node[c]]
             /\ wait' = [wait EXCEPT ![n] = {}]
    <3>1. \A m \in Node : m # n => wait[m] \cap wait[n] = {} /\ wait[m] \subseteq Conn
      BY DEF WaitersIntact, TypeOK, TypeRegistry
    <3> QED
      BY <2>2, <3>1 DEF WaitersNodeless, TypeOK, TypeRegistry
  <2> QED
    BY <1>2, <2>1, <2>2 DEF SdpPhase, DevConnected, DevLost, Broadcast, DestroyWaiters, Answered,
       read_dev_sdp_basic_cb, read_dev_sdp_digest_cb, Fault, registry, conns
<1>3. CASE UNCHANGED <<wait, node>>
  BY <1>3 DEF WaitersNodeless
<1> QED
  BY <1>1, <1>2, <1>3, ReaderFrame, VideoFrame, ResumeFrame DEF Next, Node

\* Who shares a node shares it for good.
LEMMA SharingStays ==
  ASSUME IInv, WaitersNodeless, Next, Sharing
  PROVE  Sharing'
BY NodelessStep DEF Sharing

-----------------------------------------------------------------------------
(* No step makes the state unsound, unless it makes two viewers share.       *)

\* A step that releases no node, gives out none but live ones, begins no viewer
\* whose reader runs, and moves no reader on to its end.
LEMMA SoundKept ==
  ASSUME Sound, UNCHANGED fault, TypeOK,
         \A n \in Node : mem[n] = "live" => mem'[n] = "live",
         \A e \in Conn : node'[e] = node[e] \/ mem'[node'[e]] = "live",
         \A e \in Conn : Viewing(e)' => Viewing(e) \/ pc'[e] = "none",
         \A e \in Conn : \/ pc'[e] = pc[e]
                         \/ /\ pc'[e] \notin {"closing", "freeing", "done"}
                            /\ pc[e] \notin {"freeing", "done"}
  PROVE  Sound'
<1>1. Alive'
  BY DEF Sound, Alive, TypeOK, TypeConns, Node
<1>2. Ended'
  BY DEF Sound, Ended
<1> QED
  BY <1>1, <1>2 DEF Sound

\* The node of a connection that has no reader, or still views, is alive.
LEMMA NodeAlive ==
  ASSUME IInv, Sound, NEW c \in Conn, node[c] # None,
         \/ sig[c] \in {"parked", "sdp", "sdp_nocb"}
         \/ video[c] \in {"none", "connecting", "connected"}
         \/ Viewing(c)
  PROVE  mem[node[c]] = "live" /\ Allocated(node[c])
BY DEF IInv, History, InOrder, Sound, Alive, Ended, Allocated

\* The signalling callbacks.
LEMMA SoundSignalling ==
  ASSUME IInv, WaitersNodeless, Sound, StreamsLast, NEW c \in Conn, Signalling(c)
  PROVE  Sound'
<1> USE DEF IInv
<1>0. loopPc = "idle"
  BY LoopIdle
<1>1. sig[c] \in {"sdp", "sdp_nocb"} =>
        node[c] # None /\ mem[node[c]] = "live" /\ Allocated(node[c]) /\ pc[c] = "none"
  BY NodeAlive DEF TypeOK, TypeRefs, History, InOrder
<1>2. UNCHANGED <<pc, fault>> /\ loopPc' # "unlink"
  BY <1>0, <1>1 DEF Signalling, Accept, DealBadCmd, ForwardCmd,
     deal_client_cmd_error_cb1, OpenUnlisted, OpenListed, push_stream, DealServerInfo, AddViewer,
     deal_client_cmd_error_cb2, PeerLostUnseen, Resume, loopVars, readers
<1>3. video' = video \/ (pc[c] = "none" /\ video' = [video EXCEPT ![c] = "connecting"])
  BY <1>1 DEF Signalling, Accept, DealBadCmd, ForwardCmd,
     deal_client_cmd_error_cb1, OpenUnlisted, OpenListed, push_stream, DealServerInfo, AddViewer,
     deal_client_cmd_error_cb2, PeerLostUnseen, Fault, conns
<1>4. node' = node \/ \E n \in listDev : mem' = mem /\ node' = [node EXCEPT ![c] = n]
  BY DEF Signalling, Accept, DealBadCmd, ForwardCmd, deal_client_cmd_error_cb1,
     OpenUnlisted, OpenListed, push_stream, DealServerInfo, AddViewer, Listed, StreamsLast,
     deal_client_cmd_error_cb2, PeerLostUnseen, Fault, conns
<1>5. mem' = mem \/ mem' = [mem EXCEPT ![c] = "live"]
  BY SignallingFrame
<1>6. \A n \in Node : mem[n] = "live" => mem'[n] = "live"
  BY <1>5 DEF TypeOK, TypeRegistry
<1>7. \A e \in Conn : node'[e] = node[e] \/ mem'[node'[e]] = "live"
  BY <1>4 DEF RegistryLive, TypeOK, TypeConns
<1>8. \A e \in Conn : Viewing(e)' => Viewing(e) \/ pc'[e] = "none"
  BY <1>2, <1>3 DEF Viewing, TypeOK, TypeConns
<1> QED
  BY <1>2, <1>6, <1>7, <1>8, SoundKept

\* The callbacks of the connections to the cameras.
LEMMA SoundSdp ==
  ASSUME IInv, SdpPhaseInv, Sound, NEW n \in Node, SdpPhase(n)
  PROVE  Sound'
<1> USE DEF IInv
<1>0. loopPc = "idle" /\ UNCHANGED <<mem, video, pc, loopPc, loopConn>>
  BY LoopIdle, SdpFrame DEF Node
<1>1. mem[n] = "live"
  BY DEF SdpPhase, DevConnected, DevLost, read_dev_sdp_basic_cb, read_dev_sdp_digest_cb,
     SdpPhaseInv
<1>2. fault' = fault
  <2>1. \A c \in wait[n] : sig[c] # "freed"
    BY DEF WaitersIntact
  <2> QED
    BY <1>1, <2>1 DEF SdpPhase, DevConnected, DevLost, Broadcast, read_dev_sdp_basic_cb,
       read_dev_sdp_digest_cb, Allocated
<1>3. node' = node \/ node' = [c \in Conn |-> IF c \in wait[n] THEN n ELSE node[c]]
  BY DEF SdpPhase, DevConnected, DevLost, Broadcast, Answered, read_dev_sdp_basic_cb,
     read_dev_sdp_digest_cb, Fault, conns
<1>4. \A e \in Conn : node'[e] = node[e] \/ mem'[node'[e]] = "live"
  BY <1>0, <1>1, <1>3
<1>5. \A e \in Conn : Viewing(e)' => Viewing(e) \/ pc'[e] = "none"
  BY <1>0 DEF Viewing
<1> QED
  BY <1>0, <1>2, <1>4, <1>5, SoundKept

\* The callbacks of the video connections.
LEMMA SoundVideo ==
  ASSUME IInv, VInv, Sound, NEW c \in Conn, VideoConnection(c)
  PROVE  Sound'
<1> USE DEF IInv
<1>0. loopPc = "idle" /\ UNCHANGED <<node, pc>> /\ video[c] # "none"
  BY LoopIdle, VideoFrame, VideoEffect
<1>1. node[c] # None
  BY <1>0 DEF TypeOK, TypeRefs
<1>2. video[c] \in {"connecting", "streaming"}
  BY DEF VideoConnection, VideoConnected, VideoRefused, send_rtsp_to_server_event_error_cb
<1>3. mem[node[c]] = "live" /\ Allocated(node[c])
  BY <1>1, <1>2, NodeAlive DEF Viewing
<1>4. fault' = fault
  BY <1>3 DEF VideoConnection, VideoConnected, VideoRefused, send_rtsp_to_server_event_error_cb
<1>5. mem' = mem
  BY <1>4, RefusedLeaves DEF VideoConnection, VideoConnected,
     send_rtsp_to_server_event_error_cb, Fault, registry
<1>6. \A e \in Conn : Viewing(e)' => Viewing(e)
  <2>1. video' = video \/ \E x : video' = [video EXCEPT ![c] = x]
    BY VideoEffect
  <2>2. loopPc' = "unlink" => loopConn' = c
    BY <1>0, VideoEffect
  <2>3. \A e \in Conn : e # c => video'[e] = video[e]
    BY <2>1 DEF TypeOK, TypeConns
  <2> QED
    BY <1>0, <1>2, <2>2, <2>3 DEF Viewing
<1> QED
  BY <1>0, <1>4, <1>5, <1>6, SoundKept

\* The loop where it resumes.
LEMMA SoundResume ==
  ASSUME IInv, VInv, Sound, loopPc # "connect", LoopResumes
  PROVE  Sound'
<1> USE DEF IInv, VInv
<1>0. PICK c \in Conn : c = loopConn /\ node[c] # None
  BY DEF LoopResumes, SendSdp, ConnectOut, ClientAdded, StartReader, UnlinkClient, LoopAt, TypeOK,
     TypeRefs, TypeControl
<1>1. UNCHANGED <<node, mem>>
  BY ResumeFrame
<1>2. mem[node[c]] = "live" /\ Allocated(node[c])
  BY <1>0, NodeAlive DEF LoopResumes, SendSdp, ConnectOut, ClientAdded, StartReader, UnlinkClient, LoopAt,
     History, ResumesInOrder, Viewing
<1>3. fault' = fault
  BY <1>0, <1>2 DEF LoopResumes, SendSdp, ConnectOut, ClientAdded, StartReader, UnlinkClient, LoopAt
<1>4. CASE UNCHANGED <<video, pc>> /\ (loopPc' = "idle" \/ UNCHANGED <<loopPc, loopConn>>)
  <2>1. \A e \in Conn : Viewing(e)' => Viewing(e)
    BY <1>4 DEF Viewing
  <2> QED
    BY <1>1, <1>3, <1>4, <2>1, SoundKept
<1>5. CASE /\ loopPc = "start" /\ loopPc' = "idle"
           /\ video' = [video EXCEPT ![c] = "streaming"]
           /\ pc' \in {pc, [pc EXCEPT ![c] = "created"]}
  <2>1. video[c] = "connected" /\ pc[c] = "none"
    BY <1>0, <1>5 DEF History, ResumesInOrder, InOrder
  <2>2. \A e \in Conn : Viewing(e)' => Viewing(e)
    BY <1>5, <2>1 DEF Viewing, TypeOK, TypeConns
  <2>3. \A e \in Conn : pc'[e] = pc[e] \/ (e = c /\ pc'[e] = "created" /\ pc[e] = "none")
    BY <1>5, <2>1 DEF TypeOK, TypeControl
  <2> QED
    BY <1>1, <1>3, <2>2, <2>3, SoundKept
<1> QED
  BY <1>0, <1>4, <1>5, ResumeEffect

\* A reader finds its list empty only when the connection it was started for has
\* left the list.
LEMMA SoundReader ==
  ASSUME IInv, VInv, Sound, StreamsLast, ~ Sharing, NEW t \in Conn, Reader(t)
  PROVE  Sound'
<1> USE DEF IInv, VInv
<1>0. UNCHANGED <<node, loopPc, loopConn>> /\ pc[t] # "none"
  BY ReaderFrame, ReaderEffect
<1>1. PICK n \in Node : n = node[t] /\ n # None
  BY <1>0 DEF TypeOK, TypeRefs, TypeConns, Node
<1>2. \A e \in Conn : Viewing(e)' => Viewing(e)
  <2>1. video' = video \/ \E c : video[c] = "flagged" /\ video' = [video EXCEPT ![c] = "freed"]
    BY ReaderEffect
  <2> QED
    BY <1>0, <2>1 DEF Viewing, TypeOK, TypeConns
<1>3. pc[t] \notin {"freeing", "done"} => mem[n] = "live" /\ Allocated(n)
  BY <1>1 DEF Sound, Alive, Allocated
<1>4. CASE \/ ReaderStart(t) \/ ReaderOpen(t) \/ ReaderRead(t) \/ ReaderLock(t) \/ ReaderUnlock(t)
  <2>1. UNCHANGED <<mem, fault>>
    BY <1>1, <1>3, <1>4 DEF ReaderStart, ReaderOpen, ReaderRead, ReaderLock, ReaderUnlock,
       ReaderAt, StreamsLast, registry
  <2>2. /\ pc[t] \notin {"freeing", "done"}
        /\ \E x : x \notin {"closing", "freeing", "done"} /\ pc' = [pc EXCEPT ![t] = x]
    BY <1>1, <1>3, <1>4 DEF ReaderStart, ReaderOpen, ReaderRead, ReaderLock, ReaderUnlock,
       ReaderAt, StreamsLast, Goto
  <2>3. \A e \in Conn : pc'[e] = pc[e] \/ (e = t /\ pc'[e] \notin {"closing", "freeing", "done"})
    BY <2>2 DEF TypeOK, TypeControl
  <2> QED
    BY <1>0, <1>2, <2>1, <2>2, <2>3, SoundKept
<1>5. CASE ReaderSend(t)
  <2>1. mem' = mem /\ fault' \in {fault, "list_get_at"}
    BY <1>5 DEF ReaderSend, Fault, registry
  <2>2. pc' = pc
    BY <1>5 DEF ReaderSend, Fault, readers
  <2>3. Alive' /\ Ended'
    BY <1>0, <1>2, <2>1, <2>2 DEF Sound, Alive, Ended
  <2> QED
    BY <2>1, <2>3 DEF Sound
<1>6. CASE ReaderCheck(t)
  <2>1. /\ UNCHANGED <<mem, fault, clients>> /\ pc[t] = "check"
        /\ pc' = [pc EXCEPT ![t] = IF NoClient(n) THEN "closing" ELSE "read"]
    BY <1>1, <1>3, <1>6 DEF ReaderCheck, ReaderAt, Goto, registry
  <2>2. NoClient(n) => ~ Viewing(t)
    <3>1. mem[n] = "live"
      BY <1>3, <2>1
    <3>2. Viewing(t) => t \in ToSet(clients[n])
      BY <1>1, <3>1 DEF ViewersIntact
    <3>3. NoClient(n) => ToSet(clients[n]) = {}
      BY ListElements, NoneLeft DEF NoClient, ToSet
    <3> QED
      BY <3>2, <3>3
  <2>3. Alive'
    BY <1>0, <2>1 DEF Sound, Alive, TypeOK, TypeControl
  <2>4. Ended'
    BY <1>2, <2>1, <2>2 DEF Sound, Ended, TypeOK, TypeControl
  <2> QED
    BY <2>1, <2>3, <2>4 DEF Sound
<1>7. CASE ReaderClose(t) \/ ReaderFree(t)
  <2>1. /\ fault' = fault /\ pc[t] \in {"closing", "freeing"}
        /\ \E x \in {"freeing", "done"} : pc' = [pc EXCEPT ![t] = x]
        /\ \E x : mem' = [mem EXCEPT ![n] = x]
    BY <1>1, <1>3, <1>7 DEF ReaderClose, ReaderFree, ReaderAt, Goto
  <2>2. \A e \in Conn : e # t => node[e] # n
    BY <1>1 DEF Sharing
  <2>3. Alive'
    BY <1>0, <1>1, <2>1, <2>2 DEF Sound, Alive, TypeOK, TypeControl, TypeRegistry, TypeConns, Node
  <2>4. Ended'
    BY <1>2, <2>1 DEF Sound, Ended, TypeOK, TypeControl
  <2> QED
    BY <2>1, <2>3, <2>4 DEF Sound
<1> QED
  BY <1>4, <1>5, <1>6, <1>7 DEF Reader

\* As long as no two viewers share a node and no stream fails, memory that has
\* been released can only be used in the reader's send loop.
THEOREM OnlyCountIsStaleHolds ==
  ASSUME StreamsLast
  PROVE  Spec => []OnlyCountIsStale
<1> DEFINE Inv == WaitersNodeless /\ (Sharing \/ Sound) /\ loopPc # "connect"
<1>0. "play_hls" \notin Events
  BY DEF StreamsLast
<1>1. Init => Inv
  BY DEF Init, WaitersNodeless, Sound, Alive, Ended
<1>2. IInv /\ VInv /\ SdpPhaseInv /\ Inv /\ [Next]_vars => Inv'
  <2> SUFFICES ASSUME IInv, VInv, SdpPhaseInv, Inv, [Next]_vars
               PROVE  Inv'
    OBVIOUS
  <2>1. CASE UNCHANGED vars
    BY <2>1 DEF WaitersNodeless, Sharing, Sound, Alive, Ended, Viewing, vars, registry, conns,
       loopVars, readers
  <2>2. CASE Next
    <3>1. loopPc' # "connect"
      BY <1>0, <2>2, NeverConnects
    <3>2. CASE Sharing
      BY <2>2, <3>1, <3>2, NodelessStep, SharingStays
    <3>3. CASE ~ Sharing
      <4>1. Sound'
        BY <2>2, <3>3, SoundSignalling, SoundSdp, SoundVideo, SoundReader, SoundResume DEF Next, Node
      <4> QED
        BY <2>2, <3>1, <4>1, NodelessStep
    <3> QED
      BY <3>2, <3>3
  <2> QED
    BY <2>1, <2>2
<1>3. Inv => OnlyCountIsStale
  BY DEF Sound, OnlyCountIsStale
<1> HIDE DEF Inv
<1> QED
  BY <1>0, IInvHolds, VInvHolds, SdpPhaseHolds, <1>1, <1>2, <1>3, PTL DEF Spec


-----------------------------------------------------------------------------
(***************************************************************************)
(* RelayServer implements ViewerSpec: every initial state of it maps to an *)
(* initial state, and every step to a step or to a stutter, as long as     *)
(* nobody asks for HLS.                                                    *)
(***************************************************************************)
(* The mapping, and the steps of ViewerSpec in its terms: one lemma for each, *)
(* which says node by node what the step asks of RelayServer's variables.     *)

FreshOnes   == {c \in Conn : sig[c] \in {"none", "command"}}
InformedOf(n) == {c \in Conn : Informed(c) /\ node[c] = n}
WatchersOf(n) == ToSet(clients[n])

SamePhases   == \A m \in Node : PhaseOf(m)' = PhaseOf(m)
SameInformed == \A m \in Node : InformedOf(m)' = InformedOf(m)
SameWatchers == \A m \in Node : WatchersOf(m)' = WatchersOf(m)

\* A step that changes none of what the mapping shows is a stutter.
LEMMA Stutters ==
  ASSUME SamePhases, SameInformed, SameWatchers, UNCHANGED <<listDev, wait, FreshOnes>>
  PROVE  UNCHANGED Viewers!vars
BY DEF Viewers!vars, SamePhases, SameInformed, SameWatchers, InformedOf, WatchersOf, FreshOnes

\* A fresh connection opens a device nobody has opened.
LEMMA Begins ==
  ASSUME NEW n \in Node, NEW c \in Conn, PhaseOf(n) = "none", c \in FreshOnes,
         FreshOnes' = FreshOnes \ {c}, listDev' = listDev \cup {n},
         wait' = [wait EXCEPT ![n] = @ \cup {c}],
         \A m \in Node : PhaseOf(m)' = IF m = n THEN "asking" ELSE PhaseOf(m),
         SameInformed, SameWatchers
  PROVE  Viewers!Begin(n, c)
<1> DEFINE phase == [m \in Node |-> PhaseOf(m)]
<1>1. phase' = [phase EXCEPT ![n] = "asking"] /\ phase[n] = "none"
  OBVIOUS
<1>2. [m \in Node |-> InformedOf(m)]' = [m \in Node |-> InformedOf(m)]
  BY DEF SameInformed
<1>3. [m \in Node |-> WatchersOf(m)]' = [m \in Node |-> WatchersOf(m)]
  BY DEF SameWatchers
<1> QED
  BY <1>1, <1>2, <1>3 DEF Viewers!Begin, Viewers!Enters, InformedOf, WatchersOf, FreshOnes

\* A fresh connection joins those who wait for a listed device's SDP,
LEMMA JoinsWaiters ==
  ASSUME NEW n \in listDev, NEW c \in Conn, n \in Node, PhaseOf(n) = "asking", c \in FreshOnes,
         FreshOnes' = FreshOnes \ {c}, wait' = [wait EXCEPT ![n] = @ \cup {c}],
         UNCHANGED listDev, SamePhases, SameInformed, SameWatchers
  PROVE  Viewers!Join(n, c)
<1>1. /\ [m \in Node |-> PhaseOf(m)]' = [m \in Node |-> PhaseOf(m)]
      /\ [m \in Node |-> PhaseOf(m)][n] = "asking"
  BY DEF SamePhases
<1>2. [m \in Node |-> InformedOf(m)]' = [m \in Node |-> InformedOf(m)]
  BY DEF SameInformed
<1>3. [m \in Node |-> WatchersOf(m)]' = [m \in Node |-> WatchersOf(m)]
  BY DEF SameWatchers
<1> QED
  BY <1>1, <1>2, <1>3 DEF Viewers!Join, Viewers!Enters, InformedOf, WatchersOf, FreshOnes

\* or is told the SDP if the device has given it.
LEMMA JoinsInformed ==
  ASSUME NEW n \in listDev, NEW c \in Conn, n \in Node, PhaseOf(n) = "open", c \in FreshOnes,
         FreshOnes' = FreshOnes \ {c}, UNCHANGED <<listDev, wait>>,
         \A m \in Node : InformedOf(m)' = IF m = n THEN InformedOf(m) \cup {c} ELSE InformedOf(m),
         SamePhases, SameWatchers
  PROVE  Viewers!Join(n, c)
<1> DEFINE informed == [m \in Node |-> InformedOf(m)]
<1>1. /\ [m \in Node |-> PhaseOf(m)]' = [m \in Node |-> PhaseOf(m)]
      /\ [m \in Node |-> PhaseOf(m)][n] = "open"
  BY DEF SamePhases
<1>2. informed' = [informed EXCEPT ![n] = @ \cup {c}]
  OBVIOUS
<1>3. [m \in Node |-> WatchersOf(m)]' = [m \in Node |-> WatchersOf(m)]
  BY DEF SameWatchers
<1> QED
  BY <1>1, <1>2, <1>3 DEF Viewers!Join, Viewers!Enters, InformedOf, WatchersOf, FreshOnes

\* A fresh connection gets no device.
LEMMA TurnsAway ==
  ASSUME NEW c \in FreshOnes, FreshOnes' = FreshOnes \ {c},
         UNCHANGED <<listDev, wait>>, SamePhases, SameInformed, SameWatchers
  PROVE  Viewers!TurnAway(c)
BY DEF Viewers!TurnAway, SamePhases, SameInformed, SameWatchers, InformedOf, WatchersOf, FreshOnes

\* All who wait for a device are told its SDP.
LEMMA Answers ==
  ASSUME NEW n \in Node, PhaseOf(n) = "asking", UNCHANGED <<listDev, FreshOnes>>,
         wait' = [wait EXCEPT ![n] = {}],
         \A m \in Node : PhaseOf(m)' = IF m = n THEN "open" ELSE PhaseOf(m),
         \A m \in Node : InformedOf(m)' = IF m = n THEN InformedOf(m) \cup wait[n] ELSE InformedOf(m),
         SameWatchers
  PROVE  Viewers!Answer(n)
<1> DEFINE phase    == [m \in Node |-> PhaseOf(m)]
           informed == [m \in Node |-> InformedOf(m)]
<1>1. phase' = [phase EXCEPT ![n] = "open"] /\ phase[n] = "asking"
  OBVIOUS
<1>2. informed' = [informed EXCEPT ![n] = @ \cup wait[n]]
  OBVIOUS
<1>3. [m \in Node |-> WatchersOf(m)]' = [m \in Node |-> WatchersOf(m)]
  BY DEF SameWatchers
<1> QED
  BY <1>1, <1>2, <1>3 DEF Viewers!Answer, Viewers!Empties, InformedOf, WatchersOf, FreshOnes

\* Nobody who waits for a device is told its SDP, and it is unlisted.
LEMMA Fails ==
  ASSUME NEW n \in Node, PhaseOf(n) = "asking", UNCHANGED FreshOnes,
         listDev' = listDev \ {n}, wait' = [wait EXCEPT ![n] = {}],
         \A m \in Node : PhaseOf(m)' = IF m = n THEN "closed" ELSE PhaseOf(m),
         SameInformed, SameWatchers
  PROVE  Viewers!Fail(n)
<1> DEFINE phase == [m \in Node |-> PhaseOf(m)]
<1>1. phase' = [phase EXCEPT ![n] = "closed"] /\ phase[n] = "asking"
  OBVIOUS
<1>2. [m \in Node |-> InformedOf(m)]' = [m \in Node |-> InformedOf(m)]
  BY DEF SameInformed
<1>3. [m \in Node |-> WatchersOf(m)]' = [m \in Node |-> WatchersOf(m)]
  BY DEF SameWatchers
<1> QED
  BY <1>1, <1>2, <1>3 DEF Viewers!Fail, Viewers!Empties, InformedOf, WatchersOf, FreshOnes

\* One who knows the SDP connects out.
LEMMA Watches ==
  ASSUME NEW n \in Node, NEW c \in Conn, PhaseOf(n) = "open", c \in InformedOf(n),
         SamePhases, UNCHANGED <<listDev, wait, FreshOnes>>,
         \A m \in Node : InformedOf(m)' = IF m = n THEN InformedOf(m) \ {c} ELSE InformedOf(m),
         \A m \in Node : WatchersOf(m)' = IF m = n THEN WatchersOf(m) \cup {c} ELSE WatchersOf(m)
  PROVE  Viewers!Watch(n, c)
<1> DEFINE informed == [m \in Node |-> InformedOf(m)]
           watching == [m \in Node |-> WatchersOf(m)]
<1>1. informed' = [informed EXCEPT ![n] = @ \ {c}]
  OBVIOUS
<1>2. watching' = [watching EXCEPT ![n] = @ \cup {c}]
  OBVIOUS
<1>3. [m \in Node |-> PhaseOf(m)]' = [m \in Node |-> PhaseOf(m)]
  BY DEF SamePhases
<1>4. [m \in Node |-> PhaseOf(m)][n] = "open" /\ c \in informed[n]
  OBVIOUS
<1> QED
  BY <1>1, <1>2, <1>3, <1>4 DEF Viewers!Watch, Viewers!Leaves, Viewers!Enters, InformedOf,
     WatchersOf, FreshOnes

\* One who knows the SDP, or watches, goes away; the device may be unlisted with
\* the last who watches it if nobody waits for it.
LEMMA GoesAway ==
  ASSUME NEW n \in Node, NEW c \in Conn, c \in InformedOf(n) \cup WatchersOf(n),
         SamePhases, UNCHANGED <<wait, FreshOnes>>,
         \A m \in Node : InformedOf(m)' = IF m = n THEN InformedOf(m) \ {c} ELSE InformedOf(m),
         \A m \in Node : WatchersOf(m)' = IF m = n THEN WatchersOf(m) \ {c} ELSE WatchersOf(m),
         \/ UNCHANGED listDev
         \/ WatchersOf(n)' = {} /\ wait[n] = {} /\ listDev' = listDev \ {n}
  PROVE  Viewers!Leave(n, c)
<1> DEFINE informed == [m \in Node |-> InformedOf(m)]
           watching == [m \in Node |-> WatchersOf(m)]
<1>1. informed' = [informed EXCEPT ![n] = @ \ {c}]
  OBVIOUS
<1>2. watching' = [watching EXCEPT ![n] = @ \ {c}]
  OBVIOUS
<1>3. [m \in Node |-> PhaseOf(m)]' = [m \in Node |-> PhaseOf(m)]
  BY DEF SamePhases
<1>4. c \in informed[n] \cup watching[n]
  OBVIOUS
<1>5. UNCHANGED listDev \/ (watching'[n] = {} /\ wait[n] = {} /\ listDev' = listDev \ {n})
  OBVIOUS
<1> QED
  BY <1>1, <1>2, <1>3, <1>4, <1>5 DEF Viewers!Leave, Viewers!Leaves, InformedOf, WatchersOf,
     FreshOnes

\* The device is unlisted, for whoever watches it.
LEMMA Closes ==
  ASSUME NEW n \in Node, PhaseOf(n) = "open", UNCHANGED <<wait, FreshOnes>>,
         listDev' = listDev \ {n},
         \A m \in Node : PhaseOf(m)' = IF m = n THEN "closed" ELSE PhaseOf(m),
         \A m \in Node : WatchersOf(m)' = IF m = n THEN {} ELSE WatchersOf(m),
         SameInformed
  PROVE  Viewers!Close(n)
<1> DEFINE phase    == [m \in Node |-> PhaseOf(m)]
           watching == [m \in Node |-> WatchersOf(m)]
<1>1. phase' = [phase EXCEPT ![n] = "closed"] /\ phase[n] = "open"
  OBVIOUS
<1>2. watching' = [watching EXCEPT ![n] = {}]
  OBVIOUS
<1>3. [m \in Node |-> InformedOf(m)]' = [m \in Node |-> InformedOf(m)]
  BY DEF SameInformed
<1> QED
  BY <1>1, <1>2, <1>3 DEF Viewers!Close, Viewers!Empties, InformedOf, WatchersOf, FreshOnes

-----------------------------------------------------------------------------
(* What a step leaves alone of the mapping.                                  *)

\* Sessions keep their phase while no node is allocated, released or changes its
\* status.
LEMMA PhasesKept ==
  ASSUME UNCHANGED <<mem, status>>
  PROVE  SamePhases
BY DEF SamePhases, PhaseOf

\* Who is informed follows from the signalling connections alone, outside of the
\* broadcast of an SDP.
LEMMA InformedKept ==
  ASSUME UNCHANGED <<sig, node>>,
         UNCHANGED <<loopPc, loopConn>> \/ (loopPc # "sdp" /\ loopPc' # "sdp")
  PROVE  SameInformed /\ UNCHANGED FreshOnes
BY DEF SameInformed, InformedOf, Informed, FreshOnes

\* And who watches from the client lists.
LEMMA WatchersKept ==
  ASSUME UNCHANGED clients
  PROVE  SameWatchers
BY DEF SameWatchers, WatchersOf

\* A step that changes no list, no status and no signalling connection.
LEMMA QuietStutters ==
  ASSUME UNCHANGED <<listDev, mem, status, clients, wait, sig, node>>,
         UNCHANGED <<loopPc, loopConn>> \/ (loopPc # "sdp" /\ loopPc' # "sdp")
  PROVE  UNCHANGED Viewers!vars
BY PhasesKept, InformedKept, WatchersKept, Stutters

\* A step that uses released memory is the last one, and changes nothing.
LEMMA FaultStutters ==
  ASSUME NEW f, Fault(f)
  PROVE  UNCHANGED Viewers!vars
BY QuietStutters DEF Fault, registry, conns, loopVars

\* The signalling connection c, and no other, stops being read or answered.
LEMMA OneSigMoves ==
  ASSUME TypeOK, NEW c \in Conn, NEW x, sig' = [sig EXCEPT ![c] = x],
         x \notin {"none", "command", "sdp", "sdp_nocb"}, loopPc # "sdp", loopPc' # "sdp",
         UNCHANGED node
  PROVE  /\ FreshOnes' = FreshOnes \ {c}
         /\ \A m \in Node : InformedOf(m)' = InformedOf(m) \ {c}
         /\ \A m \in Node : m # node[c] => c \notin InformedOf(m)
         /\ sig[c] \notin {"sdp", "sdp_nocb"} => SameInformed
BY DEF FreshOnes, SameInformed, InformedOf, Informed, TypeOK, TypeConns

\* Where a step of ViewerSpec is one of Next.
LEMMA ViewersTurnAway ==
  ASSUME NEW c \in Conn, Viewers!TurnAway(c)
  PROVE  Viewers!Next
BY DEF Viewers!Next

\* Those of a session are.
LEMMA ViewersNode ==
  ASSUME NEW n \in Node, Viewers!Answer(n) \/ Viewers!Fail(n) \/ Viewers!Close(n)
  PROVE  Viewers!Next
BY DEF Viewers!Next

\* And those of a session and a viewer.
LEMMA ViewersBoth ==
  ASSUME NEW n \in Node, NEW c \in Conn,
         Viewers!Begin(n, c) \/ Viewers!Join(n, c) \/ Viewers!Watch(n, c) \/ Viewers!Leave(n, c)
  PROVE  Viewers!Next
BY DEF Viewers!Next

-----------------------------------------------------------------------------
(* Every step is a step of ViewerSpec or a stutter.                          *)

Serves == Viewers!Next \/ UNCHANGED Viewers!vars

\* A fresh connection that is refused, forwarded or lost is turned away.
LEMMA FreshTurnedAway ==
  ASSUME TypeOK, NEW c \in Conn, sig[c] = "command", NEW x,
         x \notin {"none", "command", "sdp", "sdp_nocb"},
         sig' = [sig EXCEPT ![c] = x], loopPc # "sdp", loopPc' # "sdp",
         UNCHANGED <<listDev, mem, status, clients, wait, node>>
  PROVE  Serves
<1>1. SamePhases /\ SameWatchers
  BY PhasesKept, WatchersKept
<1>2. FreshOnes' = FreshOnes \ {c} /\ SameInformed
  BY OneSigMoves
<1>3. c \in FreshOnes
  BY DEF FreshOnes
<1> QED
  BY <1>1, <1>2, <1>3, TurnsAway, ViewersTurnAway DEF Serves

\* One who knows the SDP, and does not watch yet, goes away.
LEMMA InformedLeaves ==
  ASSUME IInv, VInv, NEW c \in Conn, sig[c] \in {"sdp", "sdp_nocb"}, NEW x,
         x \notin {"none", "command", "sdp", "sdp_nocb"},
         sig' = [sig EXCEPT ![c] = x], loopPc # "sdp", loopPc' # "sdp",
         UNCHANGED <<mem, status, clients, wait, node>>,
         \/ UNCHANGED listDev
         \/ Unused(node[c]) /\ listDev' = listDev \ {node[c]}
  PROVE  Serves
<1> USE DEF IInv, VInv
<1>1. PICK n \in Node : n = node[c] /\ video[c] = "none"
  BY DEF TypeOK, TypeRefs, TypeConns, History, InOrder, Node
<1>2. SamePhases /\ SameWatchers
  BY PhasesKept, WatchersKept
<1>3. FreshOnes' = FreshOnes
  BY OneSigMoves DEF FreshOnes
<1>4. \A m \in Node : InformedOf(m)' = IF m = n THEN InformedOf(m) \ {c} ELSE InformedOf(m)
  <2>1. /\ \A m \in Node : InformedOf(m)' = InformedOf(m) \ {c}
        /\ \A m \in Node : m # n => c \notin InformedOf(m)
    BY <1>1, OneSigMoves
  <2>2. ASSUME NEW m \in Node
        PROVE  InformedOf(m)' = IF m = n THEN InformedOf(m) \ {c} ELSE InformedOf(m)
    <3>1. InformedOf(m)' = InformedOf(m) \ {c} /\ (m # n => c \notin InformedOf(m))
      BY ONLY <2>1, m \in Node
    <3> QED
      BY ONLY <3>1
  <2> QED
    BY ONLY <2>2
<1>5. \A m \in Node : WatchersOf(m)' = IF m = n THEN WatchersOf(m) \ {c} ELSE WatchersOf(m)
  <2>1. \A m \in Node : c \notin WatchersOf(m)
    BY <1>1 DEF ListedConnect, WatchersOf
  <2> QED
    BY <1>2, <2>1 DEF SameWatchers
<1>6. c \in InformedOf(n)
  BY <1>1 DEF InformedOf, Informed
<1>7. \/ UNCHANGED listDev
      \/ WatchersOf(n)' = {} /\ wait[n] = {} /\ listDev' = listDev \ {n}
  BY <1>1, <1>5 DEF Unused, WatchersOf, ToSet
<1>8. Viewers!Leave(n, c)
  BY <1>1, <1>2, <1>3, <1>4, <1>5, <1>6, <1>7, GoesAway
<1> QED
  BY <1>1, <1>8, ViewersBoth DEF Serves

\* open_video for an unlisted device.
LEMMA OpenUnlistedServes ==
  ASSUME IInv, VInv, NEW c \in Conn, NEW d \in Wants[c], OpenUnlisted(c, d)
  PROVE  Serves
<1> USE DEF IInv, VInv
<1>1. /\ sig[c] = "command" /\ sig' = [sig EXCEPT ![c] = "parked"]
      /\ loopPc = "idle" /\ UNCHANGED <<node, loopPc, loopConn>>
      /\ UNCHANGED registry \/ NewNode(c, d, "CONNECTING", {c}, "connecting")
  BY DEF OpenUnlisted, LoopReady, loopVars
<1>2. CASE UNCHANGED registry
  BY <1>1, <1>2, FreshTurnedAway DEF registry
<1>3. CASE NewNode(c, d, "CONNECTING", {c}, "connecting")
  <2>1. /\ listDev' = listDev \cup {c} /\ mem' = [mem EXCEPT ![c] = "live"]
        /\ status' = [status EXCEPT ![c] = "CONNECTING"] /\ wait' = [wait EXCEPT ![c] = {c}]
        /\ UNCHANGED clients
    BY <1>3 DEF NewNode
  <2>2. mem[c] = "none" /\ wait[c] = {}
    BY <1>1, CommandUnused DEF Untouched, Node
  <2>3. FreshOnes' = FreshOnes \ {c} /\ SameInformed /\ c \in FreshOnes
    BY <1>1, OneSigMoves DEF FreshOnes
  <2>4. wait' = [wait EXCEPT ![c] = @ \cup {c}]
    BY <2>1, <2>2 DEF TypeOK, TypeRegistry, Node
  <2>5. PhaseOf(c) = "none" /\ PhaseOf(c)' = "asking"
    BY <2>1, <2>2 DEF PhaseOf, TypeOK, TypeRegistry, Node
  <2>6. ASSUME NEW m \in Node, m # c
        PROVE  PhaseOf(m)' = PhaseOf(m)
    BY <2>1, <2>6 DEF PhaseOf, TypeOK, TypeRegistry
  <2>7. \A m \in Node : PhaseOf(m)' = IF m = c THEN "asking" ELSE PhaseOf(m)
    BY <2>5, <2>6
  <2>8. Viewers!Begin(c, c)
    BY <2>1, <2>3, <2>4, <2>5, <2>7, WatchersKept, Begins DEF Node
  <2> QED
    BY <2>8, ViewersBoth DEF Serves, Node
<1> QED
  BY <1>1, <1>2, <1>3

\* open_video for a listed device.
LEMMA OpenListedServes ==
  ASSUME IInv, VInv, SdpPhaseInv, NEW c \in Conn, NEW d \in Wants[c], OpenListed(c, d)
  PROVE  Serves
<1> USE DEF IInv, VInv
<1>1. PICK n \in listDev :
        /\ sig[c] = "command" /\ sig' = [sig EXCEPT ![c] = "parked"] /\ loopPc = "idle"
        /\ wait' = IF status[n] = "CONNECTING" THEN [wait EXCEPT ![n] = @ \cup {c}] ELSE wait
        /\ IF status[n] = "CONNECTED"
           THEN loopPc' = "sdp" /\ loopConn' = c /\ node' = [node EXCEPT ![c] = n]
           ELSE UNCHANGED <<loopPc, loopConn, node>>
        /\ UNCHANGED <<listDev, mem, status, clients>>
  BY DEF OpenListed, Listed, LoopReady, Resume, loopVars
<1>2. n \in Node /\ mem[n] = "live" /\ status[n] \in {"CONNECTED", "CONNECTING"}
  BY DEF RegistryLive, SdpPhaseInv, TypeOK, TypeRegistry
<1>3. SamePhases /\ SameWatchers
  BY <1>1, PhasesKept, WatchersKept
<1>4. c \in FreshOnes /\ FreshOnes' = FreshOnes \ {c}
  BY <1>1 DEF FreshOnes, TypeOK, TypeConns
<1>5. CASE status[n] = "CONNECTING"
  <2>1. PhaseOf(n) = "asking"
    BY <1>2, <1>5 DEF PhaseOf
  <2>2. SameInformed
    BY <1>1, <1>5, OneSigMoves
  <2>3. wait' = [wait EXCEPT ![n] = @ \cup {c}]
    BY <1>1, <1>5
  <2>4. Viewers!Join(n, c)
    BY <1>1, <1>2, <1>3, <1>4, <2>1, <2>2, <2>3, JoinsWaiters
  <2> QED
    BY <1>2, <2>4, ViewersBoth DEF Serves
<1>6. CASE status[n] = "CONNECTED"
  <2>1. PhaseOf(n) = "open"
    BY <1>2, <1>6 DEF PhaseOf
  <2>2. \A m \in Node : InformedOf(m)' = IF m = n THEN InformedOf(m) \cup {c} ELSE InformedOf(m)
    BY <1>1, <1>2, <1>6 DEF InformedOf, Informed, TypeOK, TypeConns
  <2>3. Viewers!Join(n, c)
    BY <1>1, <1>2, <1>3, <1>4, <1>6, <2>1, <2>2, JoinsInformed
  <2> QED
    BY <1>2, <2>3, ViewersBoth DEF Serves
<1> QED
  BY <1>2, <1>5, <1>6

\* server_info: the connection that knows the SDP connects out.
LEMMA DealServerInfoServes ==
  ASSUME IInv, VInv, SdpPhaseInv, NEW c \in Conn, DealServerInfo(c)
  PROVE  Serves
<1> USE DEF IInv, VInv
<1>1. CASE Fault("connect_to_rtsp_server")
  BY <1>1, FaultStutters DEF Serves
<1>2. CASE ~ Fault("connect_to_rtsp_server")
  <2>1. PICK n : /\ n = node[c] /\ sig[c] \in {"sdp", "sdp_nocb"} /\ mem[n] = "live"
                 /\ loopPc = "idle" /\ sig' = [sig EXCEPT ![c] = "freed"]
                 /\ clients' = [clients EXCEPT ![n] = Append(@, c)]
                 /\ loopPc' = "added" /\ UNCHANGED <<listDev, mem, status, wait, node>>
    BY <1>2 DEF DealServerInfo, AddViewer, LoopReady, loopVars
  <2>2. n \in Node /\ status[n] = "CONNECTED"
    BY <2>1 DEF SdpPhaseInv, TypeOK, TypeRefs, TypeConns, Node
  <2>3. PhaseOf(n) = "open" /\ c \in InformedOf(n)
    BY <2>1, <2>2 DEF PhaseOf, InformedOf, Informed
  <2>4. FreshOnes' = FreshOnes
    BY <2>1, OneSigMoves DEF FreshOnes
  <2>5. \A m \in Node : InformedOf(m)' = IF m = n THEN InformedOf(m) \ {c} ELSE InformedOf(m)
    <3>1. /\ \A m \in Node : InformedOf(m)' = InformedOf(m) \ {c}
          /\ \A m \in Node : m # n => c \notin InformedOf(m)
      BY <2>1, OneSigMoves
    <3> QED
      BY <3>1
  <2>6. \A m \in Node : WatchersOf(m)' = IF m = n THEN WatchersOf(m) \cup {c} ELSE WatchersOf(m)
    <3>1. clients'[n] = Append(clients[n], c) /\ \A m \in Node : m # n => clients'[m] = clients[m]
      BY <2>1, <2>2 DEF TypeOK, TypeClients
    <3>2. ToSet(clients'[n]) = ToSet(clients[n]) \cup {c}
      BY <2>2, <3>1, ListElements, AppendToSet
    <3> QED
      BY <3>1, <3>2 DEF WatchersOf
  <2>7. Viewers!Watch(n, c)
    BY <2>1, <2>2, <2>3, <2>4, <2>5, <2>6, PhasesKept, Watches
  <2> QED
    BY <2>2, <2>7, ViewersBoth DEF Serves
<1> QED
  BY <1>1, <1>2

\* The signalling callbacks.
LEMMA SignallingServes ==
  ASSUME IInv, VInv, SdpPhaseInv, "play_hls" \notin Events, NEW c \in Conn, Signalling(c)
  PROVE  Serves
<1> USE DEF IInv
<1>0. loopPc = "idle"
  BY LoopIdle
<1>1. CASE Accept(c)
  <2>1. /\ sig[c] = "none" /\ sig' = [sig EXCEPT ![c] = "command"]
        /\ UNCHANGED <<listDev, mem, status, clients, wait, node, loopPc, loopConn>>
    BY <1>1 DEF Accept, registry, loopVars
  <2>2. FreshOnes' = FreshOnes
    BY <2>1 DEF FreshOnes, TypeOK, TypeConns
  <2>3. SameInformed
    BY <2>1 DEF SameInformed, InformedOf, Informed, TypeOK, TypeConns
  <2> QED
    BY <2>1, <2>2, <2>3, PhasesKept, WatchersKept, Stutters DEF Serves
<1>2. CASE ForwardCmd(c) \/ deal_client_cmd_error_cb1(c)
  <2>1. \E x \in {"acked", "freed"} :
          /\ sig[c] = "command" /\ sig' = [sig EXCEPT ![c] = x]
          /\ UNCHANGED <<listDev, mem, status, clients, wait, node, loopPc, loopConn>>
    BY <1>2 DEF ForwardCmd, deal_client_cmd_error_cb1, registry, loopVars
  <2> QED
    BY <1>0, <2>1, FreshTurnedAway
<1>3. CASE DealBadCmd(c)
  <2>1. /\ sig[c] \in {"command", "sdp", "sdp_nocb"} /\ sig' = [sig EXCEPT ![c] = "freed"]
        /\ UNCHANGED <<listDev, mem, status, clients, wait, node, loopPc, loopConn>>
    BY <1>3 DEF DealBadCmd, registry, loopVars
  <2>2. CASE sig[c] = "command"
    BY <1>0, <2>1, <2>2, FreshTurnedAway
  <2>3. CASE sig[c] # "command"
    BY <1>0, <2>1, <2>3, InformedLeaves
  <2> QED
    BY <2>2, <2>3
<1>4. ASSUME NEW d \in Wants[c], OpenUnlisted(c, d) \/ OpenListed(c, d) \/ push_stream(c, d)
      PROVE  Serves
  BY <1>4, OpenUnlistedServes, OpenListedServes DEF push_stream
<1>5. CASE deal_client_cmd_error_cb2(c)
  <2>1. CASE Fault("deal_client_cmd_error_cb2")
    BY <2>1, FaultStutters DEF Serves
  <2>2. CASE ~ Fault("deal_client_cmd_error_cb2")
    <3>1. /\ sig[c] = "sdp" /\ sig' = [sig EXCEPT ![c] = "freed"]
          /\ UNCHANGED <<mem, status, clients, wait, node, loopPc, loopConn>>
          /\ UNCHANGED listDev \/ (Unused(node[c]) /\ listDev' = listDev \ {node[c]})
      BY <1>5, <2>2 DEF deal_client_cmd_error_cb2, Unlist, loopVars
    <3> QED
      BY <1>0, <3>1, InformedLeaves
  <2> QED
    BY <2>1, <2>2
<1>6. CASE PeerLostUnseen(c)
  <2>1. /\ sig[c] = "sdp_nocb" /\ sig' = [sig EXCEPT ![c] = "deaf"]
        /\ UNCHANGED <<listDev, mem, status, clients, wait, node, loopPc, loopConn>>
    BY <1>6 DEF PeerLostUnseen, registry, loopVars
  <2> QED
    BY <1>0, <2>1, InformedLeaves
<1> QED
  BY <1>1, <1>2, <1>3, <1>4, <1>5, <1>6, DealServerInfoServes DEF Signalling

\* The callbacks of the connections to the cameras.
LEMMA SdpServes ==
  ASSUME IInv, SdpPhaseInv, NEW n \in Node, SdpPhase(n)
  PROVE  Serves
<1> USE DEF IInv
<1>0. loopPc = "idle" /\ UNCHANGED <<loopPc, loopConn>>
  BY LoopIdle, SdpFrame DEF Node
<1>1. /\ mem[n] = "live" /\ status[n] = "CONNECTING"
      /\ PhaseOf(n) = "asking" /\ wait[n] \subseteq Conn
  BY DEF SdpPhase, DevConnected, DevLost, read_dev_sdp_basic_cb, read_dev_sdp_digest_cb,
     SdpPhaseInv, PhaseOf, TypeOK, TypeRegistry, Node
<1>2. CASE UNCHANGED <<listDev, mem, status, clients, wait, sig, node>>
  BY <1>0, <1>2, QuietStutters DEF Serves
<1>3. CASE DevLost(n)
  <2>1. CASE Fault("active_connect_eventcb")
    BY <2>1, FaultStutters DEF Serves
  <2>2. CASE ~ Fault("active_connect_eventcb")
    <3>1. /\ status' = [status EXCEPT ![n] = "DISCONNECT"] /\ wait' = [wait EXCEPT ![n] = {}]
          /\ listDev' = listDev \ {n} /\ UNCHANGED <<mem, clients, sig, node>>
      BY <1>3, <2>2 DEF DevLost, DestroyWaiters, Unlist, conns
    <3>2. \A m \in Node : PhaseOf(m)' = IF m = n THEN "closed" ELSE PhaseOf(m)
      <4>1. PhaseOf(n)' = "closed"
        BY <1>1, <3>1 DEF PhaseOf, TypeOK, TypeRegistry
      <4>2. ASSUME NEW m \in Node, m # n
            PROVE  PhaseOf(m)' = PhaseOf(m)
        BY <3>1, <4>2 DEF PhaseOf, TypeOK, TypeRegistry
      <4> QED
        BY <4>1, <4>2
    <3>3. Viewers!Fail(n)
      BY <1>0, <1>1, <3>1, <3>2, InformedKept, WatchersKept, Fails
    <3> QED
      BY <3>3, ViewersNode DEF Serves
  <2> QED
    BY <2>1, <2>2
<1>4. CASE Broadcast(n)
  <2>1. CASE Fault("read_dev_sdp")
    BY <2>1, FaultStutters DEF Serves
  <2>2. CASE ~ Fault("read_dev_sdp")
    <3>1. /\ status' = [status EXCEPT ![n] = "CONNECTED"] /\ wait' = [wait EXCEPT ![n] = {}]
          /\ sig'  = [c \in Conn |-> IF c \in wait[n] THEN "sdp" ELSE sig[c]]
          /\ node' = [c \in Conn |-> IF c \in wait[n] THEN n ELSE node[c]]
          /\ UNCHANGED <<listDev, mem, clients>>
      BY <1>4, <2>2 DEF Broadcast, DestroyWaiters, Answered
    <3>2. \A m \in Node : PhaseOf(m)' = IF m = n THEN "open" ELSE PhaseOf(m)
      <4>1. PhaseOf(n)' = "open"
        BY <1>1, <3>1 DEF PhaseOf, TypeOK, TypeRegistry
      <4>2. ASSUME NEW m \in Node, m # n
            PROVE  PhaseOf(m)' = PhaseOf(m)
        BY <3>1, <4>2 DEF PhaseOf, TypeOK, TypeRegistry
      <4> QED
        BY <4>1, <4>2
    <3>3. \A c \in wait[n] : sig[c] = "parked"
      BY DEF WaitersIntact
    <3>4. FreshOnes' = FreshOnes
      BY <3>1, <3>3 DEF FreshOnes
    <3>5. \A m \in Node :
            InformedOf(m)' = IF m = n THEN InformedOf(m) \cup wait[n] ELSE InformedOf(m)
      BY <1>0, <1>1, <3>1, <3>3 DEF InformedOf, Informed
    <3>6. Viewers!Answer(n)
      BY <1>1, <3>1, <3>2, <3>4, <3>5, WatchersKept, Answers
    <3> QED
      BY <3>6, ViewersNode DEF Serves
  <2> QED
    BY <2>1, <2>2
<1> QED
  BY <1>2, <1>3, <1>4 DEF SdpPhase, DevConnected, read_dev_sdp_basic_cb,
     read_dev_sdp_digest_cb, Fault, registry, conns

\* A viewer is taken off the list of its node, and with the last one, if nobody
\* waits, the node off the registry.
LEMMA WatcherLeaves ==
  ASSUME IInv, VInv, NEW n \in Node, NEW c \in Conn, c \in ToSet(clients[n]),
         ToSet(clients'[n]) = ToSet(clients[n]) \ {c},
         NEW r, clients' = [clients EXCEPT ![n] = r],
         sig[c] \notin {"sdp", "sdp_nocb"}, ~ (loopPc = "sdp" /\ loopConn = c),
         UNCHANGED <<loopPc, loopConn>> \/ (loopPc # "sdp" /\ loopPc' # "sdp"),
         UNCHANGED <<mem, status, wait, sig, node>>,
         \/ UNCHANGED listDev
         \/ clients'[n] = <<>> /\ wait[n] = {} /\ listDev' = listDev \ {n}
  PROVE  Serves
<1>1. SamePhases
  BY PhasesKept
<1>2. SameInformed /\ UNCHANGED FreshOnes
  BY InformedKept
<1>3. \A m \in Node : InformedOf(m)' = IF m = n THEN InformedOf(m) \ {c} ELSE InformedOf(m)
  <2>1. \A m \in Node : c \notin InformedOf(m)
    BY DEF InformedOf, Informed
  <2> QED
    BY <1>2, <2>1 DEF SameInformed
<1>4. \A m \in Node : WatchersOf(m)' = IF m = n THEN WatchersOf(m) \ {c} ELSE WatchersOf(m)
  <2>1. ASSUME NEW m \in Node, m # n
        PROVE  WatchersOf(m)' = WatchersOf(m)
    <3>1. clients'[m] = clients[m]
      BY <2>1 DEF IInv, TypeOK, TypeClients
    <3> QED
      BY <3>1 DEF WatchersOf
  <2>2. WatchersOf(n)' = WatchersOf(n) \ {c}
    BY DEF WatchersOf
  <2> QED
    BY <2>1, <2>2
<1>5. \/ UNCHANGED listDev
      \/ WatchersOf(n)' = {} /\ wait[n] = {} /\ listDev' = listDev \ {n}
  BY DEF WatchersOf, ToSet
<1>6. c \in InformedOf(n) \cup WatchersOf(n)
  BY DEF WatchersOf
<1>7. Viewers!Leave(n, c)
  BY <1>1, <1>2, <1>3, <1>4, <1>5, <1>6, GoesAway
<1> QED
  BY <1>7, ViewersBoth DEF Serves

\* The callbacks of the video connections.
LEMMA VideoServes ==
  ASSUME IInv, VInv, NEW c \in Conn, VideoConnection(c)
  PROVE  Serves
<1> USE DEF IInv
<1>0. loopPc = "idle"
  BY LoopIdle
<1>1. CASE VideoConnected(c)
  BY <1>0, <1>1, QuietStutters DEF VideoConnected, Resume, registry, Serves
<1>2. CASE send_rtsp_to_server_event_error_cb(c)
  BY <1>0, <1>2, QuietStutters, FaultStutters DEF send_rtsp_to_server_event_error_cb, Resume,
     registry, loopVars, Serves
<1>3. CASE VideoRefused(c)
  <2>1. CASE fault' # fault
    <3>1. Fault("connect_to_rtsp_server_event_cb")
      BY <1>3, <2>1 DEF VideoRefused
    <3> QED
      BY <3>1, FaultStutters DEF Serves
  <2>2. CASE fault' = fault
    <3>1. PICK n \in Node :
            /\ video[c] = "connecting" /\ n = node[c] /\ c \in ToSet(clients[n])
            /\ ToSet(clients'[n]) = ToSet(clients[n]) \ {c}
            /\ clients' = [clients EXCEPT ![n] = RemoveFirst(@, c)]
            /\ UNCHANGED <<listDev, mem, status, wait, sig, node, loopPc, loopConn>>
      BY <1>3, <2>2, RefusedLeaves
    <3>2. sig[c] \notin {"sdp", "sdp_nocb"}
      BY <3>1 DEF History, InOrder
    <3> QED
      BY <1>0, <3>1, <3>2, WatcherLeaves
  <2> QED
    BY <2>1, <2>2
<1> QED
  BY <1>1, <1>2, <1>3 DEF VideoConnection

\* The loop where it resumes.
LEMMA ResumeServes ==
  ASSUME IInv, VInv, SdpPhaseInv, loopPc # "connect", LoopResumes
  PROVE  Serves
<1> USE DEF IInv
<1>0. PICK c \in Conn : c = loopConn
  BY DEF LoopResumes, SendSdp, ConnectOut, ClientAdded, StartReader, UnlinkClient, LoopAt, TypeOK,
     TypeRefs, TypeControl
<1>1. CASE SendSdp
  <2>1. CASE Fault("deal_open_video_cmd")
    BY <2>1, FaultStutters DEF Serves
  <2>2. CASE ~ Fault("deal_open_video_cmd")
    <3>1. /\ loopPc = "sdp" /\ loopPc' = "idle" /\ sig' = [sig EXCEPT ![c] = "sdp_nocb"]
          /\ UNCHANGED <<listDev, mem, status, clients, wait, node>>
      BY <1>0, <1>1, <2>2 DEF SendSdp, LoopAt, Return, Resume, registry
    <3>2. sig[c] = "parked"
      BY <1>0, <3>1 DEF History, ResumesInOrder
    <3>3. FreshOnes' = FreshOnes
      BY <3>1, <3>2 DEF FreshOnes, TypeOK, TypeConns
    <3>4. SameInformed
      BY <1>0, <3>1 DEF SameInformed, InformedOf, Informed, TypeOK, TypeConns
    <3> QED
      BY <3>1, <3>3, <3>4, PhasesKept, WatchersKept, Stutters DEF Serves
  <2> QED
    BY <2>1, <2>2
<1>2. CASE StartReader
  <2>1. CASE Fault("connect_to_rtsp_server_event_cb")
    BY <2>1, FaultStutters DEF Serves
  <2>2. CASE ~ Fault("connect_to_rtsp_server_event_cb")
    <3>1. /\ loopPc = "start" /\ loopPc' = "idle"
          /\ UNCHANGED <<listDev, mem, status, clients, wait, sig, node>>
      BY <1>2, <2>2 DEF StartReader, LoopAt, Return, Resume, registry
    <3> QED
      BY <3>1, QuietStutters DEF Serves
  <2> QED
    BY <2>1, <2>2
<1>3. CASE UnlinkClient
  <2>1. CASE fault' # fault
    <3>1. Fault("send_rtsp_to_server_event_error_cb")
      BY <1>3, <2>1 DEF UnlinkClient
    <3> QED
      BY <3>1, FaultStutters DEF Serves
  <2>2. CASE fault' = fault
    <3>1. PICK n \in Node :
            /\ loopPc = "unlink" /\ loopPc' = "idle" /\ video[c] = "disabled"
            /\ n = node[c] /\ mem[n] = "live" /\ c \in ToSet(clients[n])
            /\ ToSet(clients'[n]) = ToSet(clients[n]) \ {c}
            /\ clients' = [clients EXCEPT ![n] = RemoveFirst(@, c)]
            /\ listDev' = IF Len(clients'[n]) < 1 THEN listDev \ {n} ELSE listDev
            /\ UNCHANGED <<mem, status, wait, sig, node>>
      BY <1>0, <1>3, <2>2, UnlinkLeaves
    <3>2. sig[c] \notin {"sdp", "sdp_nocb"}
      BY <3>1 DEF History, InOrder
    <3>3. wait[n] = {}
      BY <3>1, ConnAssumption DEF SdpPhaseInv, WaitersIntact, Node
    <3>4. clients'[n] \in Seq(Conn)
      BY <3>1, RemoveFirstType, ListElements DEF TypeOK, TypeClients
    <3>5. UNCHANGED listDev \/ (clients'[n] = <<>> /\ listDev' = listDev \ {n})
      BY <3>1, <3>4, NoneLeft
    <3> QED
      BY <3>1, <3>2, <3>3, <3>5, WatcherLeaves
  <2> QED
    BY <2>1, <2>2
<1>4. CASE ClientAdded
  <2>1. CASE Fault("connect_to_rtsp_server")
    BY <2>1, FaultStutters DEF Serves
  <2>2. CASE ~ Fault("connect_to_rtsp_server")
    <3>1. /\ loopPc = "added" /\ loopPc' = "idle"
          /\ UNCHANGED <<listDev, mem, status, clients, wait, sig, node>>
      BY <1>4, <2>2 DEF ClientAdded, LoopAt, Return, Resume, registry, conns
    <3> QED
      BY <3>1, QuietStutters DEF Serves
  <2> QED
    BY <2>1, <2>2
<1> QED
  BY <1>1, <1>2, <1>3, <1>4 DEF LoopResumes, ConnectOut, LoopAt

\* The node a reader is about to release is not alive any more.
Closing == \A t \in Conn : pc[t] = "freeing" => mem[node[t]] \in {"shut", "freed"}

\* The readers.
LEMMA ReaderServes ==
  ASSUME IInv, VInv, SdpPhaseInv, Closing, NEW t \in Conn, Reader(t)
  PROVE  Serves
<1> USE DEF IInv
<1>0. UNCHANGED <<status, wait, sig, node, loopPc, loopConn>> /\ pc[t] # "none"
  BY ReaderFrame, ReaderEffect
<1>1. PICK n \in Node : n = node[t] /\ status[n] = "CONNECTED"
  BY <1>0 DEF SdpPhaseInv, TypeOK, TypeRefs, TypeConns, Node
<1>2. CASE \/ ReaderStart(t) \/ ReaderOpen(t) \/ ReaderCheck(t) \/ ReaderRead(t)
           \/ ReaderLock(t) \/ ReaderUnlock(t)
  <2>1. UNCHANGED <<listDev, mem, clients>>
    BY <1>2 DEF ReaderStart, ReaderOpen, ReaderCheck, ReaderRead, ReaderLock, ReaderUnlock,
       Fault, registry
  <2> QED
    BY <1>0, <2>1, QuietStutters DEF Serves
<1>3. CASE ReaderSend(t)
  <2>1. CASE UNCHANGED <<clients, video>>
    <3>1. UNCHANGED <<listDev, mem>>
      BY <1>3 DEF ReaderSend, Fault, registry
    <3> QED
      BY <1>0, <2>1, <3>1, QuietStutters DEF Serves
  <2>2. CASE ~ UNCHANGED <<clients, video>>
    <3>1. PICK c \in ToSet(clients[n]) :
            /\ video[c] = "flagged" /\ UNCHANGED <<listDev, mem>>
            /\ clients' = [clients EXCEPT ![n] = RemoveFirst(@, c)]
            /\ ToSet(clients'[n]) = ToSet(clients[n]) \ {c}
      BY <1>1, <1>3, <2>2, DropLeaves
    <3>2. c \in Conn
      BY ListElements
    <3>3. sig[c] \notin {"sdp", "sdp_nocb"} /\ ~ (loopPc = "sdp" /\ loopConn = c)
      BY <3>1, <3>2 DEF History, InOrder, ResumesInOrder
    <3> QED
      BY <1>0, <3>1, <3>2, <3>3, WatcherLeaves
  <2> QED
    BY <2>1, <2>2
<1>4. CASE ReaderClose(t)
  <2>1. CASE Fault("list_destroy")
    BY <2>1, FaultStutters DEF Serves
  <2>2. CASE ~ Fault("list_destroy")
    <3>1. /\ mem[n] = "live" /\ mem' = [mem EXCEPT ![n] = "shut"]
          /\ listDev' = listDev \ {n} /\ clients' = [clients EXCEPT ![n] = <<>>]
      BY <1>1, <1>4, <2>2 DEF ReaderClose, Unlist
    <3>2. PhaseOf(n) = "open" /\ PhaseOf(n)' = "closed"
      BY <1>1, <3>1 DEF PhaseOf, TypeOK, TypeRegistry
    <3>3. ASSUME NEW m \in Node, m # n
          PROVE  PhaseOf(m)' = PhaseOf(m)
      BY <1>0, <3>1, <3>3 DEF PhaseOf, TypeOK, TypeRegistry
    <3>4. \A m \in Node : WatchersOf(m)' = IF m = n THEN {} ELSE WatchersOf(m)
      BY <3>1 DEF WatchersOf, ToSet, TypeOK, TypeClients
    <3>5. Viewers!Close(n)
      BY <1>0, <3>1, <3>2, <3>3, <3>4, InformedKept, Closes
    <3> QED
      BY <3>5, ViewersNode DEF Serves
  <2> QED
    BY <2>1, <2>2
<1>5. CASE ReaderFree(t)
  <2>1. /\ mem[n] \in {"shut", "freed"} /\ mem' = [mem EXCEPT ![n] = "freed"]
        /\ UNCHANGED <<listDev, clients>>
    BY <1>1, <1>5 DEF ReaderFree, ReaderAt, Closing
  <2>2. SamePhases
    BY <1>0, <2>1 DEF SamePhases, PhaseOf, TypeOK, TypeRegistry
  <2> QED
    BY <1>0, <2>1, <2>2, InformedKept, WatchersKept, Stutters DEF Serves
<1> QED
  BY <1>2, <1>3, <1>4, <1>5 DEF Reader

\* No step brings a node to life that a reader is about to release.
LEMMA ClosingStep ==
  ASSUME IInv, Closing, Next
  PROVE  Closing'
<1> USE DEF IInv
<1>0. \A c \in Conn : pc[c] # "none" => node'[c] = node[c]
  BY NodeStep
<1>1. \A t \in Conn : pc[t] = "freeing" => node[t] \in Node /\ mem[node[t]] \in {"shut", "freed"}
  BY DEF Closing, TypeOK, TypeRefs, TypeConns, Node
<1>2. ASSUME \A t \in Conn : pc'[t] = "freeing" => pc[t] = "freeing",
             \A n \in Node : mem[n] \in {"shut", "freed"} => mem'[n] \in {"shut", "freed"}
      PROVE  Closing'
  BY <1>0, <1>1, <1>2 DEF Closing
<1>3. ASSUME NEW c \in Conn, Signalling(c)
      PROVE  Closing'
  <2>1. pc' = pc /\ (mem' = mem \/ (sig[c] = "command" /\ mem' = [mem EXCEPT ![c] = "live"]))
    BY <1>3, SignallingFrame
  <2>2. sig[c] = "command" => mem[c] = "none"
    BY CommandUnused
  <2> QED
    BY <1>2, <2>1, <2>2 DEF TypeOK, TypeRegistry
<1>4. ASSUME NEW n \in Conn, SdpPhase(n)
      PROVE  Closing'
  BY <1>2, <1>4, SdpFrame DEF Node
<1>5. ASSUME NEW c \in Conn, VideoConnection(c)
      PROVE  Closing'
  <2>1. pc' = pc /\ (mem' = mem \/ mem' = [mem EXCEPT ![node[c]] = "freed"])
    BY <1>5, VideoFrame, VideoEffect
  <2> QED
    BY <1>2, <2>1 DEF TypeOK, TypeRegistry
<1>6. ASSUME NEW t \in Conn, Reader(t)
      PROVE  Closing'
  <2>1. node' = node /\ pc[t] # "none"
    BY <1>6, ReaderFrame, ReaderEffect
  <2>2. node[t] \in Node
    BY <2>1 DEF TypeOK, TypeRefs, TypeConns, Node
  <2>3. CASE mem' = mem /\ \E x : x # "freeing" /\ pc' \in {pc, [pc EXCEPT ![t] = x]}
    BY <1>2, <2>3 DEF TypeOK, TypeControl
  <2>4. CASE mem' = [mem EXCEPT ![node[t]] = "shut"] /\ pc' = [pc EXCEPT ![t] = "freeing"]
    BY <1>1, <2>1, <2>2, <2>4 DEF Closing, TypeOK, TypeRegistry, TypeControl
  <2>5. CASE mem' = [mem EXCEPT ![node[t]] = "freed"] /\ pc' = [pc EXCEPT ![t] = "done"]
    BY <1>1, <2>1, <2>2, <2>5 DEF Closing, TypeOK, TypeRegistry, TypeControl
  <2> QED
    BY <1>6, <2>3, <2>4, <2>5, ReaderEffect
<1>7. ASSUME LoopResumes
      PROVE  Closing'
  <2>1. \A t \in Conn : pc'[t] = "freeing" => pc[t] = "freeing"
    BY <1>7, ResumeEffect DEF TypeOK, TypeControl
  <2> QED
    BY <1>2, <1>7, <2>1, ResumeFrame
<1> QED
  BY <1>3, <1>4, <1>5, <1>6, <1>7 DEF Next

\* Nobody asking for HLS, RelayServer does nothing that ViewerSpec does not
\* allow: every viewer goes from asking to watching in its steps only.
THEOREM ServesViewersHolds ==
  ASSUME "play_hls" \notin Events
  PROVE  Spec => ServesViewers
<1> DEFINE RInv == Closing /\ loopPc # "connect"
<1>1. Init => RInv
  BY DEF Init, Closing
<1>2. IInv /\ RInv /\ [Next]_vars => RInv'
  BY ClosingStep, NeverConnects DEF vars, registry, conns, loopVars, readers, Closing
<1>3. Init => Viewers!Init
  <2> SUFFICES ASSUME Init
               PROVE  Viewers!Init
    OBVIOUS
  <2>1. \A n \in Node : PhaseOf(n) = "none" /\ InformedOf(n) = {} /\ WatchersOf(n) = {}
    BY DEF Init, PhaseOf, InformedOf, Informed, WatchersOf, ToSet
  <2>2. FreshOnes = Conn
    BY DEF Init, FreshOnes
  <2>3. listDev = {} /\ wait = [n \in Node |-> {}]
    BY DEF Init
  <2> QED
    BY <2>1, <2>2, <2>3 DEF Viewers!Init, InformedOf, WatchersOf, FreshOnes
<1>4. IInv /\ VInv /\ SdpPhaseInv /\ RInv /\ [Next]_vars => [Viewers!Next]_(Viewers!vars)
  <2> SUFFICES ASSUME IInv, VInv, SdpPhaseInv, RInv, [Next]_vars
               PROVE  Serves
    BY DEF Serves
  <2>1. CASE Next
    BY <2>1, SignallingServes, SdpServes, VideoServes, ReaderServes, ResumeServes DEF Next, Node
  <2>2. CASE UNCHANGED vars
    BY <2>2, QuietStutters DEF vars, registry, conns, loopVars, Serves
  <2> QED
    BY <2>1, <2>2
<1> HIDE DEF RInv
<1> QED
  BY IInvHolds, VInvHolds, SdpPhaseHolds, <1>1, <1>2, <1>3, <1>4, PTL DEF Spec, ServesViewers,
     Viewers!Spec

=============================================================================
