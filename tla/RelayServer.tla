---------------------------- MODULE RelayServer ----------------------------
(***************************************************************************)
(* The control core of the BoxRtsp push client: one libevent loop thread   *)
(* and one reader thread per opened device, over the shared device list.   *)
(*                                                                         *)
(* The RTSP server opens a signalling connection c to port 8109 and sends  *)
(* one command.  Everything c gives rise to carries its name: the device   *)
(* node it creates when its device is not listed yet (so Node == Conn),    *)
(* the video connection the box opens for it, with the CLIENT_LIST_OBJ and *)
(* the callback argument of that connection, and the reader thread started *)
(* when that connection is the first one up.  node[c] is the device node   *)
(* that c, its video connection and its reader thread refer to.            *)
(*                                                                         *)
(* Callbacks of the loop never overlap.  A callback is one action unless   *)
(* it touches shared state and then waits for rwlockMyLock, or goes on     *)
(* after giving it back; loopPc then says where it resumes.  The callbacks *)
(* of a video connection run with the lock of its bufferevent held (it is  *)
(* made with BEV_OPT_DEFER_CALLBACKS and BEV_OPT_THREADSAFE, and without   *)
(* BEV_OPT_UNLOCK_CALLBACKS), the lock the reader takes to queue a frame.  *)
(* A step that uses memory the program has already released ends the       *)
(* behaviour with fault naming the function: what the program does from    *)
(* there on is not defined.                                                *)
(***************************************************************************)
EXTENDS Naturals, Sequences, SequencesExt

CONSTANTS
  Conn,     \* signalling connections, each used once
  Dev,      \* device keys: id, channel and stream type
  Wants,    \* connection -> the devices it may ask for
  Decoded,  \* device -> the one whose id is what url_decode makes of its id
  None,     \* no connection, no device, no node
  Events    \* what the peers, the database and the cameras may do

AllEvents ==
  {"open_video", "play_hls", "forward", "bad_command", "peer_lost",  \* signalling
   "db_found", "db_missing",                                  \* database
   "dev_lost", "sdp", "digest", "unusable",                   \* camera, SDP phase
   "video_refused", "video_lost",                             \* video connection
   "open_fail", "frame", "skip", "read_fail"}                 \* camera, stream

ASSUME ConnAssumption ==
  /\ None \notin Conn \cup Dev
  /\ {"free", "loop"} \cap Conn = {}
ASSUME WantsAssumption  == Wants \in [Conn -> SUBSET Dev]
ASSUME DecodedAssumption == Decoded \in [Dev -> Dev]
ASSUME EventsAssumption == Events \subseteq AllEvents

Node == Conn

VARIABLES
  listDev,   \* listDevList: the nodes open_video and push_stream can find
  mem,       \* node -> "none", "live", "shut" (client list destroyed), "freed"
  key,       \* node -> the device it stands for
  status,    \* node -> enumDevConnectStatus; "zero" is what memset leaves
  started,   \* node -> iStartThreadFlag
  clients,   \* node -> listRtspClient, in order
  wait,      \* node -> listWaitClient
  devBev,    \* node -> the connection to the camera during the SDP phase
  sig,       \* conn -> state of the signalling bufferevent
  node,      \* conn -> the node its callbacks, video connection and reader use
  video,     \* conn -> state of the video bufferevent
  loopPc,    \* where the loop's current callback resumes
  loopConn,  \* the connection that callback is about
  pc,        \* reader -> program counter
  num,       \* reader -> iClientNum
  pos,       \* reader -> i, counted from 0
  lock,      \* rwlockMyLock, only ever taken for writing: its owner
  fault      \* the function that used released memory, or "none"

registry == <<listDev, mem, key, status, started, clients, wait, devBev>>
conns    == <<sig, node, video>>
loopVars == <<loopPc, loopConn>>
readers  == <<pc, num, pos>>
vars     == <<registry, conns, loopVars, readers, lock, fault>>

Init ==
  /\ listDev  = {}
  /\ mem      = [n \in Node |-> "none"]
  /\ key      = [n \in Node |-> None]
  /\ status   = [n \in Node |-> "zero"]
  /\ started  = [n \in Node |-> FALSE]
  /\ clients  = [n \in Node |-> <<>>]
  /\ wait     = [n \in Node |-> {}]
  /\ devBev   = [n \in Node |-> "none"]
  /\ sig      = [c \in Conn |-> "none"]
  /\ node     = [c \in Conn |-> None]
  /\ video    = [c \in Conn |-> "none"]
  /\ loopPc   = "idle"
  /\ loopConn = None
  /\ pc       = [t \in Conn |-> "none"]
  /\ num      = [t \in Conn |-> 0]
  /\ pos      = [t \in Conn |-> 0]
  /\ lock     = "free"
  /\ fault    = "none"

-----------------------------------------------------------------------------
LoopReady   == fault = "none" /\ loopPc = "idle"
LoopAt(at)  == fault = "none" /\ loopPc = at
ReaderAt(t, at) == fault = "none" /\ pc[t] = at

\* pthread_rwlock_wrlock by the loop: when the loop thread already owns the
\* lock it returns EDEADLK, which nobody looks at, and the callback goes on.
LoopMayLock == lock \in {"free", "loop"}

\* The loop waits for rwlockMyLock, or is about to, in a callback of the video
\* connection c, and so with the lock of c's bufferevent held.  (So it does in
\* VideoRefused, of a connection that no reader writes to.)
BevHeld(c) == loopPc \in {"start", "unlink"} /\ loopConn = c

\* The node's memory is still the node: its scalar fields can be read.
Allocated(n) == mem[n] \in {"live", "shut"}

Fault(function) ==
  /\ fault' = function
  /\ UNCHANGED <<registry, conns, loopVars, readers, lock>>

\* The loop's callback goes on from `at` about connection c, or is over.
Resume(at, c) == loopPc' = at /\ loopConn' = c
Return        == Resume("idle", None)

-----------------------------------------------------------------------------
(* What several callbacks and the readers do alike.  The definitions that a  *)
(* comment calls a mutant are what a slip in the code would make of the one  *)
(* that follows: the properties below tell them apart.                       *)

\* url_decode, then list_seek over listDevList with DevSeeker.
\* Mutant: only connected devices are found.
ListedConnected(d) == {n \in listDev : key[n] = Decoded[d] /\ status[n] = "CONNECTED"}
Listed(d) == {n \in listDev : key[n] = Decoded[d]}

\* list_delete(&listDevList, pDevNode).
\* Mutant: the node stays listed.
UnlistNothing(n) == UNCHANGED listDev
Unlist(n) == listDev' = listDev \ {n}

\* pthread_rwlock_unlock.
Unlock == lock' = "free"

\* What deal_open_video_cmd leaves of the lock when it finds a node: its last
\* branch has no unlock.  Mutant: nor has the CONNECTED one.
UnlockIfConnecting(st) == lock' = IF st = "CONNECTING" THEN "free" ELSE "loop"
UnlockIfKnown(st) == lock' = IF st \in {"CONNECTED", "CONNECTING"} THEN "free" ELSE "loop"

\* list_destroy(plistWaitClient).  Mutant: the waiters stay.
KeepWaiters(n)    == UNCHANGED wait
DestroyWaiters(n) == wait' = [wait EXCEPT ![n] = {}]

\* The waiters the SDP is written to.  Mutant: the loop starts at 1, past the
\* connection that created the node.
AnsweredLater(n) == wait[n] \ {n}
Answered(n)      == wait[n]

\* bufferevent_free(pConnectToDeviceBev).  Mutant: it is missing.
KeepDevBev(n) == UNCHANGED devBev
FreeDevBev(n) == devBev' = [devBev EXCEPT ![n] = "freed"]

\* The test of deal_client_cmd_error_cb2.  Mutant: only the waiters count.
NobodyWaits(n) == wait[n] = {}
Unused(n)      == clients[n] = <<>> /\ wait[n] = {}

\* The test at the head of the reader's loop.  Mutants: off by one, both ways.
OneLeft(n)   == Len(clients[n]) <= 1
NeverDone(n) == Len(clients[n]) < 0
NoClient(n)  == Len(clients[n]) < 1

\* iDelFlag is set and the connection is there.  Mutant: the flag is ignored.
NeverFlagged(c) == FALSE
Flagged(c)      == video[c] = "flagged"

\* bufferevent_write, bufferevent_free and the length of the output buffer need
\* the bufferevent's lock.  Mutant: any callback of the loop keeps it.
NoCallbackRuns(c) == loopPc = "idle"
ReaderMayWrite(c) == ~ BevHeld(c)

\* The reader drops client c: bufferevent_free, list_delete, --i, --iClientNum.
\* Mutants: without list_delete; iClientNum decremented twice.
FreeClientOnly(t, c) ==
  /\ video' = [video EXCEPT ![c] = "freed"]
  /\ num'   = [num   EXCEPT ![t] = @ - 1]
  /\ UNCHANGED <<clients, pos>>
DropClientTwice(t, c) ==
  /\ video'   = [video   EXCEPT ![c] = "freed"]
  /\ clients' = [clients EXCEPT ![node[t]] = RemoveFirst(@, c)]
  /\ num'     = [num     EXCEPT ![t] = @ - 2]
  /\ UNCHANGED pos
DropClient(t, c) ==
  /\ video'   = [video   EXCEPT ![c] = "freed"]
  /\ clients' = [clients EXCEPT ![node[t]] = RemoveFirst(@, c)]
  /\ num'     = [num     EXCEPT ![t] = @ - 1]
  /\ UNCHANGED pos

-----------------------------------------------------------------------------
(* Signalling: the read and event callbacks of the accepted bufferevents.    *)
(* sig[c] is "command" (first command awaited, cb1), "parked" (reading       *)
(* disabled until the SDP is known), "sdp" (SDP sent, cb2), "sdp_nocb" (SDP  *)
(* sent, no event callback), "deaf" (nothing will ever be read), "acked"     *)
(* (a play or stop command acknowledged, nothing else to do) or "freed".     *)

Accept(c) ==
  /\ LoopReady
  /\ sig[c] = "none"
  /\ sig' = [sig EXCEPT ![c] = "command"]
  /\ UNCHANGED <<registry, node, video, loopVars, readers, lock, fault>>

\* A header that is not "hBzHbox@", or a command of no known protocol, the first
\* on the connection or after the SDP.
DealBadCmd(c) ==
  /\ LoopReady
  /\ "bad_command" \in Events
  /\ sig[c] \in {"command", "sdp", "sdp_nocb"}
  /\ sig' = [sig EXCEPT ![c] = "freed"]
  /\ UNCHANGED <<registry, node, video, loopVars, readers, lock, fault>>

\* rtsp play or stop, hls stop: acknowledge, and pass the command on to the
\* push client at port 8103, over a connection that touches nothing modelled here.
\* deal_write_ok, which would close c, is set as its read callback and reading
\* is disabled: c stays acknowledged for good.
ForwardCmd(c) ==
  /\ LoopReady
  /\ "forward" \in Events
  /\ sig[c] = "command"
  /\ sig' = [sig EXCEPT ![c] = "acked"]
  /\ UNCHANGED <<registry, node, video, loopVars, readers, lock, fault>>

\* End of file, error or ten seconds of silence before the first command.
deal_client_cmd_error_cb1(c) ==
  /\ LoopReady
  /\ "peer_lost" \in Events
  /\ sig[c] = "command"
  /\ sig' = [sig EXCEPT ![c] = "freed"]
  /\ UNCHANGED <<registry, node, video, loopVars, readers, lock, fault>>

\* malloc, the database row, list_append: node c now stands for the device of
\* the id that is copied into it.
NewNode(c, id, st, waiting, bev) ==
  /\ listDev' = listDev \cup {c}
  /\ mem'     = [mem    EXCEPT ![c] = "live"]
  /\ key'     = [key    EXCEPT ![c] = id]
  /\ status'  = [status EXCEPT ![c] = st]
  /\ wait'    = [wait   EXCEPT ![c] = waiting]
  /\ devBev'  = [devBev EXCEPT ![c] = bev]
  /\ UNCHANGED <<started, clients>>

\* open_video for a device that is not listed: look it up in the database and
\* start the SDP exchange, or give up; either way c is no longer being read.
\* The node gets the id as it was sent, not the decoded one it was sought by.
OpenUnlisted(c, d) ==
  /\ LoopReady
  /\ "open_video" \in Events
  /\ sig[c] = "command"
  /\ LoopMayLock
  /\ Listed(d) = {}
  /\ \/ /\ "db_found" \in Events
        /\ NewNode(c, d, "CONNECTING", {c}, "connecting")
     \/ /\ "db_missing" \in Events
        /\ UNCHANGED registry
  /\ sig'  = [sig EXCEPT ![c] = "parked"]
  /\ Unlock
  /\ UNCHANGED <<node, video, loopVars, readers, fault>>

\* open_video for a listed device.  CONNECTED: unlock, then answer (SendSdp).
\* CONNECTING: join the waiters.  Any other status: return, still locked.
OpenListed(c, d) ==
  /\ LoopReady
  /\ "open_video" \in Events
  /\ sig[c] = "command"
  /\ LoopMayLock
  /\ \E n \in Listed(d) :
       /\ wait' = IF status[n] = "CONNECTING"
                  THEN [wait EXCEPT ![n] = @ \cup {c}] ELSE wait
       /\ UnlockIfKnown(status[n])
       /\ IF status[n] = "CONNECTED"
          THEN Resume("sdp", c) /\ node' = [node EXCEPT ![c] = n]
          ELSE UNCHANGED <<loopVars, node>>
  /\ sig' = [sig EXCEPT ![c] = "parked"]
  /\ UNCHANGED <<listDev, mem, key, status, started, clients, devBev,
                 video, readers, fault>>

\* The CONNECTED branch after the unlock: copy the SDP out of the node.
SendSdp ==
  /\ LoopAt("sdp")
  /\ IF Allocated(node[loopConn])
     THEN /\ sig' = [sig EXCEPT ![loopConn] = "sdp_nocb"]
          /\ Return
          /\ UNCHANGED <<registry, node, video, readers, lock, fault>>
     ELSE Fault("deal_open_video_cmd")

\* connect_to_rtsp_server for c, whose node is n: append the new client under
\* the lock; the outgoing connection is started after it (ClientAdded).
AddViewer(c, n) ==
  /\ clients' = [clients EXCEPT ![n] = Append(@, c)]
  /\ video'   = [video   EXCEPT ![c] = "connecting"]
  /\ Unlock
  /\ Resume("added", c)
  /\ UNCHANGED <<listDev, mem, key, status, started, wait, devBev>>

\* After the unlock: the clients of the node are counted for the log.
ClientAdded ==
  /\ LoopAt("added")
  /\ IF Allocated(node[loopConn])
     THEN /\ Return
          /\ UNCHANGED <<registry, conns, readers, lock, fault>>
     ELSE Fault("connect_to_rtsp_server")

\* server_info: the signalling connection is closed, the video one opened.
DealServerInfo(c) ==
  /\ LoopReady
  /\ sig[c] \in {"sdp", "sdp_nocb"}
  /\ LoopMayLock
  /\ IF mem[node[c]] = "live"
     THEN /\ AddViewer(c, node[c])
          /\ sig' = [sig EXCEPT ![c] = "freed"]
          /\ UNCHANGED <<node, readers, fault>>
     ELSE Fault("connect_to_rtsp_server")

\* hls/play: acknowledge, then find or create the node, with the decoded id, and
\* only after the unlock connect out for it (ConnectOut).  No SDP exchange.
push_stream(c, d) ==
  /\ LoopReady
  /\ "play_hls" \in Events
  /\ sig[c] = "command"
  /\ LoopMayLock
  /\ sig' = [sig EXCEPT ![c] = "acked"]
  /\ Unlock
  /\ \/ \E n \in Listed(d) :
          /\ node' = [node EXCEPT ![c] = n]
          /\ Resume("connect", c)
          /\ UNCHANGED registry
     \/ /\ Listed(d) = {} /\ "db_found" \in Events
        /\ NewNode(c, Decoded[d], "zero", {}, "none")
        /\ node' = [node EXCEPT ![c] = c]
        /\ Resume("connect", c)
     \/ /\ Listed(d) = {} /\ "db_missing" \in Events
        /\ UNCHANGED <<registry, node, loopVars>>
  /\ UNCHANGED <<video, readers, fault>>

ConnectOut ==
  /\ LoopAt("connect")
  /\ LoopMayLock
  /\ IF mem[node[loopConn]] = "live"
     THEN /\ AddViewer(loopConn, node[loopConn])
          /\ UNCHANGED <<sig, node, readers, fault>>
     ELSE Fault("connect_to_rtsp_server")

\* The peer goes away, or stays silent, after the broadcast SDP: unlist the
\* device if nobody watches it and nobody waits for it.
deal_client_cmd_error_cb2(c) ==
  LET n == node[c] IN
  /\ LoopReady
  /\ "peer_lost" \in Events
  /\ sig[c] = "sdp"
  /\ IF ~ Allocated(n)
     THEN Fault("deal_client_cmd_error_cb2")
     ELSE /\ IF Unused(n)
             THEN LoopMayLock /\ Unlist(n) /\ Unlock
             ELSE UNCHANGED <<listDev, lock>>
          /\ sig' = [sig EXCEPT ![c] = "freed"]
          /\ UNCHANGED <<mem, key, status, started, clients, wait, devBev,
                         node, video, loopVars, readers, fault>>

\* The same after an SDP sent by SendSdp: libevent stops reading and, there
\* being no event callback, nobody ever closes the connection.
PeerLostUnseen(c) ==
  /\ LoopReady
  /\ "peer_lost" \in Events
  /\ sig[c] = "sdp_nocb"
  /\ sig' = [sig EXCEPT ![c] = "deaf"]
  /\ UNCHANGED <<registry, node, video, loopVars, readers, lock, fault>>

-----------------------------------------------------------------------------
(* The SDP phase: the loop's callbacks on the connection to the camera.      *)

DevConnected(n) ==
  /\ LoopReady
  /\ devBev[n] = "connecting"
  /\ IF Allocated(n)
     THEN /\ devBev' = [devBev EXCEPT ![n] = "basic"]
          /\ UNCHANGED <<listDev, mem, key, status, started, clients, wait,
                         conns, loopVars, readers, lock, fault>>
     ELSE Fault("active_connect_eventcb")

\* Refused, timed out, closed or broken before the SDP arrived.
DevLost(n) ==
  /\ LoopReady
  /\ "dev_lost" \in Events
  /\ devBev[n] \in {"connecting", "basic", "digest"}
  /\ LoopMayLock
  /\ IF Allocated(n)
     THEN /\ status'  = [status EXCEPT ![n] = "DISCONNECT"]
          /\ DestroyWaiters(n)
          /\ Unlist(n)
          /\ FreeDevBev(n)
          /\ Unlock
          /\ UNCHANGED <<mem, key, started, clients, conns, loopVars, readers, fault>>
     ELSE Fault("active_connect_eventcb")

\* The SDP goes to every waiter, each of which is then read again; the wait
\* list is destroyed under the lock.
Broadcast(n) ==
  /\ LoopMayLock
  /\ IF Allocated(n) /\ \A c \in wait[n] : sig[c] # "freed"
     THEN /\ FreeDevBev(n)
          /\ status' = [status EXCEPT ![n] = "CONNECTED"]
          /\ sig'    = [c \in Conn |-> IF c \in Answered(n) THEN "sdp" ELSE sig[c]]
          /\ node'   = [c \in Conn |-> IF c \in Answered(n) THEN n ELSE node[c]]
          /\ DestroyWaiters(n)
          /\ Unlock
          /\ UNCHANGED <<listDev, mem, key, started, clients,
                         video, loopVars, readers, fault>>
     ELSE Fault("read_dev_sdp")

\* The answer to the first DESCRIBE.  A 401 asking for Digest is answered with
\* a second DESCRIBE; a 200, and a 401 asking for something else, count as the
\* SDP; after anything else only the connection to the camera is released.
read_dev_sdp_basic_cb(n) ==
  /\ LoopReady
  /\ devBev[n] = "basic"
  /\ \/ "sdp" \in Events /\ Broadcast(n)
     \/ /\ "digest" \in Events
        /\ IF Allocated(n)
           THEN /\ devBev' = [devBev EXCEPT ![n] = "digest"]
                /\ UNCHANGED <<listDev, mem, key, status, started, clients, wait,
                               conns, loopVars, readers, lock, fault>>
           ELSE Fault("read_dev_sdp")
     \/ /\ "unusable" \in Events
        /\ FreeDevBev(n)
        /\ UNCHANGED <<listDev, mem, key, status, started, clients, wait,
                       conns, loopVars, readers, lock, fault>>

\* Whatever answers the second DESCRIBE is taken for the SDP.
read_dev_sdp_digest_cb(n) ==
  /\ LoopReady
  /\ devBev[n] = "digest"
  /\ Broadcast(n)

-----------------------------------------------------------------------------
(* The video connection.  video[c] is "connecting", "connected" (client      *)
(* fields set, error callback not yet), "streaming", "disabled" (error seen, *)
(* no thread to tell), "flagged" (disabled, iDelFlag = 1) or "freed".        *)

\* connect_to_rtsp_server_event_cb, success: the reader may use the new
\* connection from here on; the lock comes next.
VideoConnected(c) ==
  /\ LoopReady
  /\ video[c] = "connecting"
  /\ video' = [video EXCEPT ![c] = "connected"]
  /\ Resume("start", c)
  /\ UNCHANGED <<registry, sig, node, readers, lock, fault>>

\* The locked half: start the device's reader unless its flag says it runs.
StartReader ==
  LET c == loopConn IN
  /\ LoopAt("start")
  /\ LoopMayLock
  /\ IF Allocated(node[c])
     THEN /\ pc'    = IF started[node[c]] THEN pc ELSE [pc EXCEPT ![c] = "created"]
          /\ video' = [video EXCEPT ![c] = "streaming"]
          /\ Unlock
          /\ Return
          /\ UNCHANGED <<registry, sig, node, num, pos, fault>>
     ELSE Fault("connect_to_rtsp_server_event_cb")

\* connect_to_rtsp_server_event_cb, failure.
VideoRefused(c) ==
  LET n == node[c]
      empty == Len(clients[n]) < 1
  IN
  /\ LoopReady
  /\ "video_refused" \in Events
  /\ video[c] = "connecting"
  /\ LoopMayLock
  /\ IF mem[n] = "live"
     THEN /\ clients' = [clients EXCEPT ![n] = RemoveFirst(@, c)]
          /\ listDev' = IF empty THEN listDev \ {n} ELSE listDev
          /\ mem'     = IF empty THEN [mem EXCEPT ![n] = "freed"] ELSE mem
          /\ video'   = [video EXCEPT ![c] = "freed"]
          /\ Unlock
          /\ UNCHANGED <<key, status, started, wait, devBev, sig, node,
                         loopVars, readers, fault>>
     ELSE Fault("connect_to_rtsp_server_event_cb")

\* The RTSP server leaves, or a write fails or times out.  With a reader
\* running, flag the client for it; otherwise unlink it here (UnlinkClient).
send_rtsp_to_server_event_error_cb(c) ==
  /\ LoopReady
  /\ "video_lost" \in Events
  /\ video[c] = "streaming"
  /\ IF ~ Allocated(node[c])
     THEN Fault("send_rtsp_to_server_event_error_cb")
     ELSE /\ IF started[node[c]]
             THEN video' = [video EXCEPT ![c] = "flagged"] /\ UNCHANGED loopVars
             ELSE video' = [video EXCEPT ![c] = "disabled"] /\ Resume("unlink", c)
          /\ UNCHANGED <<registry, sig, node, readers, lock, fault>>

UnlinkClient ==
  LET n    == node[loopConn]
      rest == RemoveFirst(clients[n], loopConn)
  IN
  /\ LoopAt("unlink")
  /\ LoopMayLock
  /\ IF mem[n] = "live"
     THEN /\ clients' = [clients EXCEPT ![n] = rest]
          /\ listDev' = IF Len(rest) < 1 THEN listDev \ {n} ELSE listDev
          /\ Unlock
          /\ Return
          /\ UNCHANGED <<mem, key, status, started, wait, devBev,
                         conns, readers, fault>>
     ELSE Fault("send_rtsp_to_server_event_error_cb")

-----------------------------------------------------------------------------
(* The reader thread t of node[t]: read_video_data_from_dev_task.            *)

Goto(t, at) == pc' = [pc EXCEPT ![t] = at]

ReaderStart(t) ==
  /\ ReaderAt(t, "created")
  /\ IF Allocated(node[t])
     THEN /\ started' = [started EXCEPT ![node[t]] = TRUE]
          /\ Goto(t, "opening")
          /\ UNCHANGED <<listDev, mem, key, status, clients, wait, devBev,
                         conns, loopVars, num, pos, lock, fault>>
     ELSE Fault("read_video_data_from_dev_task")

\* avformat_open_input over TCP, then over UDP.
ReaderOpen(t) ==
  /\ ReaderAt(t, "opening")
  /\ \/ /\ "open_fail" \in Events
        /\ Goto(t, "closing")
        /\ UNCHANGED <<registry, conns, loopVars, num, pos, lock, fault>>
     \/ IF Allocated(node[t])
        THEN /\ Goto(t, "check")
             /\ UNCHANGED <<registry, conns, loopVars, num, pos, lock, fault>>
        ELSE Fault("read_video_data_from_dev_task")

\* The unlocked list_size at the head of the loop.
ReaderCheck(t) ==
  /\ ReaderAt(t, "check")
  /\ IF Allocated(node[t])
     THEN /\ Goto(t, IF NoClient(node[t]) THEN "closing" ELSE "read")
          /\ UNCHANGED <<registry, conns, loopVars, num, pos, lock, fault>>
     ELSE Fault("read_video_data_from_dev_task")

\* av_read_frame: a frame to send, after which the clients are counted without
\* the lock; a packet to drop; or an error.
ReaderRead(t) ==
  /\ ReaderAt(t, "read")
  /\ \/ /\ "frame" \in Events
        /\ IF Allocated(node[t])
           THEN /\ num' = [num EXCEPT ![t] = Len(clients[node[t]])]
                /\ Goto(t, "locking")
                /\ UNCHANGED <<registry, conns, loopVars, pos, lock, fault>>
           ELSE Fault("read_video_data_from_dev_task")
     \/ /\ "skip" \in Events
        /\ Goto(t, "check")
        /\ UNCHANGED <<registry, conns, loopVars, num, pos, lock, fault>>
     \/ /\ "read_fail" \in Events
        /\ Goto(t, "closing")
        /\ UNCHANGED <<registry, conns, loopVars, num, pos, lock, fault>>

ReaderLock(t) ==
  /\ ReaderAt(t, "locking")
  /\ lock = "free"
  /\ lock' = t
  /\ Goto(t, "sending")
  /\ UNCHANGED <<registry, conns, loopVars, num, pos, fault>>

\* One round of the send loop: drop a flagged client, or queue the frame on
\* its connection (FrameSend says what that does), for which the reader needs
\* the lock of the connection.
ReaderSend(t) ==
  LET n == node[t]
      c == clients[n][pos[t] + 1]
  IN
  /\ ReaderAt(t, "sending")
  /\ pos[t] < num[t]
  /\ IF mem[n] = "live" /\ pos[t] < Len(clients[n]) /\ video[c] # "freed"
     THEN /\ ReaderMayWrite(c)
          /\ IF Flagged(c)
             THEN DropClient(t, c)
             ELSE /\ pos' = [pos EXCEPT ![t] = @ + 1]
                  /\ UNCHANGED <<video, clients, num>>
          /\ UNCHANGED <<listDev, mem, key, status, started, wait, devBev,
                         sig, node, loopVars, pc, lock, fault>>
     ELSE Fault("list_get_at")

ReaderUnlock(t) ==
  /\ ReaderAt(t, "sending")
  /\ pos[t] >= num[t]
  /\ Unlock
  /\ num'  = [num EXCEPT ![t] = 0]
  /\ pos'  = [pos EXCEPT ![t] = 0]
  /\ Goto(t, "check")
  /\ UNCHANGED <<registry, conns, loopVars, fault>>

\* End: close the stream; under the lock destroy the client list, whoever is
\* still in it, and unlist the node.
ReaderClose(t) ==
  LET n == node[t] IN
  /\ ReaderAt(t, "closing")
  /\ lock = "free"
  /\ IF mem[n] = "live"
     THEN /\ clients' = [clients EXCEPT ![n] = <<>>]
          /\ Unlist(n)
          /\ mem'     = [mem EXCEPT ![n] = "shut"]
          /\ Goto(t, "freeing")
          /\ UNCHANGED <<key, status, started, wait, devBev,
                         conns, loopVars, num, pos, lock, fault>>
     ELSE Fault("list_destroy")

\* free(pDevNode), after the unlock.
ReaderFree(t) ==
  /\ ReaderAt(t, "freeing")
  /\ mem' = [mem EXCEPT ![node[t]] = "freed"]
  /\ Goto(t, "done")
  /\ UNCHANGED <<listDev, key, status, started, clients, wait, devBev,
                 conns, loopVars, num, pos, lock, fault>>

-----------------------------------------------------------------------------
Signalling(c) ==
  \/ Accept(c)
  \/ DealBadCmd(c)
  \/ ForwardCmd(c)
  \/ deal_client_cmd_error_cb1(c)
  \/ \E d \in Wants[c] : OpenUnlisted(c, d) \/ OpenListed(c, d) \/ push_stream(c, d)
  \/ DealServerInfo(c)
  \/ deal_client_cmd_error_cb2(c)
  \/ PeerLostUnseen(c)

SdpPhase(n) ==
  \/ DevConnected(n)
  \/ DevLost(n)
  \/ read_dev_sdp_basic_cb(n)
  \/ read_dev_sdp_digest_cb(n)

VideoConnection(c) ==
  \/ VideoConnected(c)
  \/ VideoRefused(c)
  \/ send_rtsp_to_server_event_error_cb(c)

\* The second halves of the callbacks that let go of the loop's view of things.
LoopResumes == SendSdp \/ ConnectOut \/ ClientAdded \/ StartReader \/ UnlinkClient

Reader(t) ==
  \/ ReaderStart(t)
  \/ ReaderOpen(t)
  \/ ReaderCheck(t)
  \/ ReaderRead(t)
  \/ ReaderLock(t)
  \/ ReaderSend(t)
  \/ ReaderUnlock(t)
  \/ ReaderClose(t)
  \/ ReaderFree(t)

Next ==
  \/ \E c \in Conn : Signalling(c) \/ SdpPhase(c) \/ VideoConnection(c) \/ Reader(c)
  \/ LoopResumes

Spec == Init /\ [][Next]_vars

\* rwlockMyLock passes over nobody who waits for it while it is given back again
\* and again, a reader keeps reading, and the five second timeout ends every
\* silence of a camera.
Fairness ==
  /\ SF_vars(LoopResumes)
  /\ \A t \in Conn : SF_vars(Reader(t))
  /\ \A n \in Node : SF_vars(SdpPhase(n))

FairSpec == Spec /\ Fairness

\* Of the packets a camera sends, every so often one is a frame to forward.
CamerasStream == \A t \in Conn : SF_vars(ReaderRead(t) /\ pc'[t] = "locking")

\* And the ten second timeout of a signalling connection that is being read.
TimedSpec ==
  /\ FairSpec
  /\ \A c \in Conn : SF_vars(deal_client_cmd_error_cb1(c) \/ deal_client_cmd_error_cb2(c))

-----------------------------------------------------------------------------
(* Type invariant.                                                           *)

SigStates   == {"none", "command", "parked", "sdp", "sdp_nocb", "deaf", "acked", "freed"}
VideoStates == {"none", "connecting", "connected", "streaming", "disabled",
                "flagged", "freed"}
FaultSites  == {"none", "deal_open_video_cmd", "connect_to_rtsp_server",
                "deal_client_cmd_error_cb2", "active_connect_eventcb", "read_dev_sdp",
                "connect_to_rtsp_server_event_cb", "send_rtsp_to_server_event_error_cb",
                "read_video_data_from_dev_task", "list_get_at", "list_destroy"}
ReaderPcs   == {"none", "created", "opening", "check", "read", "locking",
                "sending", "closing", "freeing", "done"}

TypeRegistry ==
  /\ listDev \subseteq Node
  /\ mem     \in [Node -> {"none", "live", "shut", "freed"}]
  /\ key     \in [Node -> Dev \cup {None}]
  /\ status  \in [Node -> {"zero", "CONNECTING", "CONNECTED", "DISCONNECT"}]
  /\ started \in [Node -> BOOLEAN]
  /\ wait    \in [Node -> SUBSET Conn]
  /\ devBev  \in [Node -> {"none", "connecting", "basic", "digest", "freed"}]
TypeClients ==
  /\ clients \in [Node -> Seq(Conn)]
  /\ num     \in [Conn -> Nat]
  /\ pos     \in [Conn -> Nat]
TypeConns ==
  /\ sig   \in [Conn -> SigStates]
  /\ node  \in [Conn -> Node \cup {None}]
  /\ video \in [Conn -> VideoStates]
TypeControl ==
  /\ loopPc   \in {"idle", "sdp", "connect", "added", "start", "unlink"}
  /\ loopConn \in Conn \cup {None}
  /\ pc       \in [Conn -> ReaderPcs]
  /\ lock     \in Conn \cup {"free", "loop"}
  /\ fault    \in FaultSites

TypeRefs ==
  /\ loopPc = "idle" <=> loopConn = None
  /\ \A c \in Conn : node[c] = None =>
       /\ sig[c] \notin {"sdp", "sdp_nocb"} /\ video[c] = "none" /\ pc[c] = "none"
       /\ loopConn # c

\* Every variable has its type; the loop resumes about some connection exactly
\* when it is not idle, and whatever needs a device node has been given one.
TypeOK ==
  /\ TypeRegistry
  /\ TypeClients
  /\ TypeConns
  /\ TypeControl
  /\ TypeRefs

-----------------------------------------------------------------------------
(* Safety.                                                                   *)

\* What the two lookups can find is never released memory, although readers
\* release nodes while the loop searches: a reader unlists before it frees.
RegistryLive == \A n \in listDev : mem[n] = "live"

\* No device with a plain id, one that url_decode leaves alone, is listed twice,
\* by whichever command it was opened: all its viewers share one camera
\* connection as long as it stays listed.  (Of another id nothing of the kind is
\* true: open_video seeks what it decodes to and lists what was sent.)
Plain(id) == Decoded[id] = id
RegistryUnique ==
  \A m, n \in listDev : key[m] = key[n] /\ Plain(key[n]) => m = n

\* A connection on a wait list is still open and parked, waits for one device
\* only, and that device is still being asked: the SDP is broadcast to everybody
\* who waits for it, and a failure of the camera, though it tells none of the
\* waiters, leaves none on the list of a device that will not be asked again.
WaitersIntact ==
  /\ \A n \in Node : \A c \in wait[n] :
       sig[c] = "parked" /\ status[n] = "CONNECTING"
  /\ \A m, n \in Node : wait[m] \cap wait[n] # {} => m = n

\* The client list of a node that is not shut down holds exactly its viewers,
\* each once: every video connection that can still carry a frame or must still
\* be dropped is in it, and none in it is released, so that the reader's writes
\* are to open connections.
Viewing(c) == \/ video[c] \in {"connecting", "connected", "streaming", "flagged"}
              \/ loopPc = "unlink" /\ loopConn = c
ViewersIntact ==
  \A n \in Node : mem[n] = "live" =>
    /\ \A i, j \in DOMAIN clients[n] : clients[n][i] = clients[n][j] => i = j
    /\ ToSet(clients[n]) = {c \in Conn : node[c] = n /\ Viewing(c)}

\* No callback of the loop returns with the lock held, and a reader holds it
\* only while it is sending.
LockReleased ==
  /\ lock # "loop"
  /\ \A t \in Conn : lock = t <=> pc[t] = "sending"

\* The callbacks on a camera connection never meet a released device node or a
\* released waiter, though they run long after the node was looked up.
SdpPhaseSafe == fault \notin {"active_connect_eventcb", "read_dev_sdp"}

\* As long as no two viewers share a node and cameras do not fail, the one place
\* where a released or missing object can be used is the reader's send loop, when
\* the loop unlinks a client between the unlocked count and the lock.
Sharing == \E c, e \in Conn : c # e /\ node[c] # None /\ node[c] = node[e]
OnlyCountIsStale == Sharing \/ fault \in {"none", "list_get_at"}

\* Only the last viewer's callbacks take a device off the list.  One that has
\* two viewers, or a viewer and somebody waiting, leaves it with its camera: the
\* connection for the SDP is lost, or the reader ends.
CameraEnds(n) ==
  \/ status[n] = "CONNECTING" /\ status'[n] = "DISCONNECT"
  \/ \E t \in Conn : node[t] = n /\ pc[t] = "closing" /\ pc'[t] = "freeing"
OthersKeepDevice ==
  [][\A n \in listDev : n \notin listDev' =>
       CameraEnds(n) \/ (Len(clients[n]) <= 1 /\ wait[n] = {})]_vars

-----------------------------------------------------------------------------
(* What all this implements: ViewerSpec, with a session for each node.       *)

PhaseOf(n) ==
  CASE mem[n] = "none"                             -> "none"
    [] mem[n] = "live" /\ status[n] = "CONNECTING" -> "asking"
    [] mem[n] = "live" /\ status[n] = "CONNECTED"  -> "open"
    [] OTHER                                       -> "closed"

\* c has the SDP, or the loop is about to send it.
Informed(c) == sig[c] \in {"sdp", "sdp_nocb"} \/ (loopPc = "sdp" /\ loopConn = c)

Viewers == INSTANCE ViewerSpec WITH
  Viewer   <- Conn,
  Session  <- Node,
  phase    <- [n \in Node |-> PhaseOf(n)],
  offered  <- listDev,
  fresh    <- {c \in Conn : sig[c] \in {"none", "command"}},
  waiting  <- wait,
  informed <- [n \in Node |-> {c \in Conn : Informed(c) /\ node[c] = n}],
  watching <- [n \in Node |-> ToSet(clients[n])]

\* Without HLS, every viewer goes from asking to watching only in the ways
\* ViewerSpec allows: one SDP for all who wait, nobody lost between the lists,
\* nobody added to a session that has ended.
ServesViewers == Viewers!Spec

-----------------------------------------------------------------------------
(* Liveness, under FairSpec.                                                 *)

Halted == fault # "none"

\* The one way for loop and reader to wait for each other for good: the reader
\* holds rwlockMyLock and is about to write to the very connection whose callback
\* waits for it.  It happens, and stops the whole program (ConnectedServed).
LockedUp ==
  \E t \in Conn :
    /\ pc[t] = "sending" /\ pos[t] < num[t] /\ pos[t] < Len(clients[node[t]])
    /\ loopPc \in {"start", "unlink"} /\ loopConn = clients[node[t]][pos[t] + 1]
Stopped == Halted \/ LockedUp

\* Whoever waits for the SDP of a camera that answers gets it, unless the program
\* stops.
WaitersAnswered ==
  \A c \in Conn :
    (\E n \in Node : c \in wait[n]) ~> (Stopped \/ sig[c] \in {"sdp", "freed"})

\* A callback in the middle of which the loop waits for the lock is completed:
\* but for the one way above, the loop and the readers never wait for each other
\* for good.
LoopGoesOn == loopPc # "idle" ~> (Stopped \/ loopPc = "idle")

\* A client flagged for deletion is dropped by the reader, if its camera streams,
\* it has the node for itself, and the program does not stop.
FlaggedDropped ==
  CamerasStream =>
    \A c \in Conn : video[c] = "flagged" ~> (Stopped \/ Sharing \/ video[c] = "freed")

\* A device nobody watches any more is given back: its reader closes the camera
\* and releases the node, unless a new viewer comes first or the program stops.
Reading(t)   == pc[t] \notin {"none", "done"}
Unwatched(t) == Reading(t) /\ clients[node[t]] = <<>>
UnwatchedReleased ==
  \A t \in Conn : Unwatched(t) ~> (Stopped \/ ~ Unwatched(t))

-----------------------------------------------------------------------------
(* What the comments, the header and the readme say, and the code does not.  *)

\* A reader is started only if the device has none running yet.
OneReaderPerDevice ==
  \A s, t \in Conn :
    Reading(s) /\ Reading(t) /\ key[node[s]] = key[node[t]] => s = t

\* When a step on the way from open_video to the SDP fails, the connection to
\* the RTSP server is cut.
FailureCutsConnection == \A c \in Conn : sig[c] = "parked" ~> (Halted \/ sig[c] # "parked")

\* Once connected to the RTSP server, the program fetches the stream and sends
\* it: the callback of a new connection gets as far as starting the reader.
ConnectedServed ==
  \A c \in Conn : video[c] = "connected" ~> (Halted \/ video[c] = "streaming")

\* When a client disconnects, its node is marked (or unlinked): the callback
\* always finds the node to mark.
DisconnectMarks == fault # "send_rtsp_to_server_event_error_cb"
=============================================================================
