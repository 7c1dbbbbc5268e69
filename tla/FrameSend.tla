----------------------------- MODULE FrameSend -----------------------------
(***************************************************************************)
(* How a frame gets from the reader thread onto the video connections: the *)
(* frame loop of read_video_data_from_dev_task with the bookkeeping it     *)
(* keeps per client, against the event loop that adds and drops clients,   *)
(* marks those that have failed, and empties the output buffers meanwhile. *)
(*                                                                         *)
(* A buffer is counted in chunks: one for the BOX_CTRL_CMD_OBJ header of a *)
(* frame, and one for each unit of its payload.  The module begins with a  *)
(* device that nobody watches yet, and ends with its reader: the rest of   *)
(* its life, and the locks of the connections, are in RelayServer.         *)
(***************************************************************************)
EXTENDS Integers, Sequences

CONSTANTS
  Client,      \* the video connections of the device
  MaxFrames,   \* bound on the video frames the camera sends in one behaviour
  MaxSize,     \* the largest payload, in chunks
  Limit,       \* LIBEVENT_WRITE_BUF_SIZE, in chunks
  Modulus      \* 2^(width of size_t), in chunks

ASSUME SizeAssumption ==
  /\ MaxFrames \in Nat /\ MaxSize \in Nat /\ Limit \in Nat
  /\ Modulus \in Nat /\ Modulus > Limit + MaxSize + 1

VARIABLES
  listRtspClient,  \* the clients of the device, in order
  state,           \* of each client: "new", "listed", "sending" (iSendFrameFlag),
                   \* "failed" (iDelFlag as well) or "gone"
  frames,          \* the video frames read so far: [key, late, size]
  iIFlag,          \* a key frame with a positive time stamp has been seen
  iMissFrameFlag,  \* of each client: a frame has been lost for it
  out,             \* of each client: the output buffer, a sequence of chunks
  wire,            \* of each client: what has left the output buffer
  pc,              \* where the reader is, "none" before it is started
  iClientNum,      \* the length of the list, as the reader read it
  i,               \* the reader's place in the list, from 1
  iWriteBufLen,    \* the length of the output buffer, as the reader read it
  early            \* history: the clients that could be sent to before iIFlag was set

client == <<listRtspClient, state, early>>
reader == <<frames, iIFlag, iMissFrameFlag, iClientNum, i, iWriteBufLen>>
vars   == <<client, reader, out, wire, pc>>

\* Chunk k of frame n: k = 0 is the header.
Chunk   == [n : Nat, k : Nat]
Frame   == [key : BOOLEAN, late : BOOLEAN, size : 1..MaxSize]
current == Len(frames)
Size(n) == frames[n].size

\* The reader holds rwlockMyLock.
Locked == pc \in {"serve", "decide", "payload"}

\* list s without its entry p.
Without(s, p) == [q \in 1..(Len(s) - 1) |-> IF q < p THEN s[q] ELSE s[q + 1]]

Init ==
  /\ listRtspClient = <<>>
  /\ state = [c \in Client |-> "new"] /\ early = {}
  /\ frames = <<>> /\ iIFlag = FALSE
  /\ iMissFrameFlag = [c \in Client |-> FALSE]
  /\ out = [c \in Client |-> <<>>] /\ wire = [c \in Client |-> <<>>]
  /\ pc = "none" /\ iClientNum = 0 /\ i = 1 /\ iWriteBufLen = 0

-----------------------------------------------------------------------------
(* The event loop.                                                           *)

\* connect_to_rtsp_server, under the lock.
AddViewer(c) ==
  /\ ~ Locked /\ pc # "ended"
  /\ state[c] = "new"
  /\ state' = [state EXCEPT ![c] = "listed"]
  /\ listRtspClient' = Append(listRtspClient, c)
  /\ UNCHANGED <<early, reader, out, wire, pc>>

\* connect_to_rtsp_server_event_cb, connected: without the lock.  The first one starts the
\* reader, whoever else is in the list.
Join(c) ==
  /\ state[c] = "listed"
  /\ state' = [state EXCEPT ![c] = "sending"]
  /\ early' = IF iIFlag THEN early ELSE early \cup {c}
  /\ pc' = IF pc = "none" THEN "read" ELSE pc
  /\ UNCHANGED <<listRtspClient, reader, out, wire>>

\* connect_to_rtsp_server_event_cb, not connected: under the lock.
Refuse(c) ==
  /\ ~ Locked /\ pc # "ended"
  /\ state[c] = "listed"
  /\ state' = [state EXCEPT ![c] = "gone"]
  /\ \E p \in DOMAIN listRtspClient :
       /\ listRtspClient[p] = c
       /\ listRtspClient' = Without(listRtspClient, p)
  /\ UNCHANGED <<early, reader, out, wire, pc>>

\* send_rtsp_to_server_event_error_cb: without the lock.
Fail(c) ==
  /\ state[c] = "sending"
  /\ state' = [state EXCEPT ![c] = "failed"]
  /\ UNCHANGED <<listRtspClient, early, reader, out, wire, pc>>

\* bufferevent_writecb: some of the buffer goes to the socket.
Flush(c) ==
  /\ state[c] = "sending"
  /\ out[c] # <<>>
  /\ wire' = [wire EXCEPT ![c] = Append(@, Head(out[c]))]
  /\ out'  = [out EXCEPT ![c] = Tail(@)]
  /\ UNCHANGED <<client, reader, pc>>

-----------------------------------------------------------------------------
(* The reader.                                                               *)

\* Whether frame f opens the stream for those who wait.  Mutant: it need not be
\* a key frame.
OpensAnyhow(f) == f.late
Opens(f)       == f.key /\ f.late

\* av_read_frame returns video frame f: frames before the one that opens the
\* stream are dropped, and the clients counted for the others.
ReadFrame(f) ==
  /\ pc = "read"
  /\ listRtspClient # <<>>
  /\ current < MaxFrames
  /\ frames' = Append(frames, f)
  /\ iIFlag' = (iIFlag \/ Opens(f))
  /\ IF iIFlag' THEN pc' = "lock" /\ iClientNum' = Len(listRtspClient)
                ELSE UNCHANGED <<pc, iClientNum>>
  /\ UNCHANGED <<client, iMissFrameFlag, i, iWriteBufLen, out, wire>>

\* Nobody watches any more, or the camera has failed.
End ==
  /\ pc = "read"
  /\ pc' = "ended"
  /\ UNCHANGED <<client, reader, out, wire>>

Lock ==
  /\ pc = "lock"
  /\ pc' = "serve" /\ i' = 1
  /\ UNCHANGED <<client, frames, iIFlag, iMissFrameFlag, iClientNum, iWriteBufLen, out, wire>>

\* list_get_at returns NULL, for the list has become shorter since.
PastTheEnd ==
  /\ pc = "serve"
  /\ i <= iClientNum /\ i > Len(listRtspClient)
  /\ pc' = "ended"
  /\ UNCHANGED <<client, reader, out, wire>>

\* The client the reader is at.
Serving(c) == i <= iClientNum /\ i <= Len(listRtspClient) /\ c = listRtspClient[i]

\* Where the loop goes on when it has dropped the client at i: i is decremented
\* and incremented.  Mutant: it is not decremented.
PlaceBehind == i + 1
PlaceAfterDrop == i

\* iDelFlag is set: bufferevent_free, with what the buffer holds, and list_delete.
Drop(c) ==
  /\ pc = "serve" /\ Serving(c)
  /\ state[c] = "failed"
  /\ state' = [state EXCEPT ![c] = "gone"]
  /\ out'   = [out EXCEPT ![c] = <<>>]
  /\ listRtspClient' = Without(listRtspClient, i)
  /\ i' = PlaceAfterDrop
  /\ iClientNum' = iClientNum - 1
  /\ UNCHANGED <<early, frames, iIFlag, iMissFrameFlag, iWriteBufLen, wire, pc>>

\* iSendFrameFlag is not set.
Pass(c) ==
  /\ pc = "serve" /\ Serving(c)
  /\ state[c] = "listed"
  /\ i' = i + 1
  /\ UNCHANGED <<client, frames, iIFlag, iMissFrameFlag, iClientNum, iWriteBufLen, out, wire, pc>>

\* evbuffer_get_length.  Mutant: without the chunk that is being sent.
UsedBehindFirst(c) == Len(out[c]) - 1
Used(c)            == Len(out[c])

Measure(c) ==
  /\ pc = "serve" /\ Serving(c)
  /\ state[c] = "sending"
  /\ iWriteBufLen' = Used(c)
  /\ pc' = "decide"
  /\ UNCHANGED <<client, frames, iIFlag, iMissFrameFlag, iClientNum, i, out, wire>>

\* The comparison is between unsigned numbers: a difference below zero wraps.
\* Mutant: the header is forgotten.
FullForPayload == (Limit - iWriteBufLen) % Modulus < Size(current)
Full == (Limit - iWriteBufLen) % Modulus < Size(current) + 1

\* libevent keeps the front of a connection's output buffer frozen outside its
\* own writes: evbuffer_drain returns -1 and removes nothing.
evbuffer_drain(buffer) == buffer

\* No room for the frame.
Miss(c) ==
  /\ pc = "decide" /\ Serving(c)
  /\ Full
  /\ out' = [out EXCEPT ![c] = evbuffer_drain(@)]
  /\ iMissFrameFlag' = [iMissFrameFlag EXCEPT ![c] = TRUE]
  /\ pc' = "serve" /\ i' = i + 1
  /\ UNCHANGED <<client, frames, iIFlag, iClientNum, iWriteBufLen, wire>>

\* After a loss only a key frame is sent.
Sendable(c) == iMissFrameFlag[c] => frames[current].key

\* Room, but frames have been lost and this is not a key frame.
Skip(c) ==
  /\ pc = "decide" /\ Serving(c)
  /\ ~ Full /\ ~ Sendable(c)
  /\ pc' = "serve" /\ i' = i + 1
  /\ UNCHANGED <<client, frames, iIFlag, iMissFrameFlag, iClientNum, iWriteBufLen, out, wire>>

\* The p_pkt->size bytes behind the header.  Mutant: one unit short.
PayloadShort(n) == [k \in 1..(Size(n) - 1) |-> [n |-> n, k |-> k]]
Payload(n)      == [k \in 1..Size(n) |-> [n |-> n, k |-> k]]

\* Two bufferevent_write calls; the event loop may flush in between.
WriteHeader(c) ==
  /\ pc = "decide" /\ Serving(c)
  /\ ~ Full /\ Sendable(c)
  /\ iMissFrameFlag' = [iMissFrameFlag EXCEPT ![c] = FALSE]
  /\ out' = [out EXCEPT ![c] = Append(@, [n |-> current, k |-> 0])]
  /\ pc' = "payload"
  /\ UNCHANGED <<client, frames, iIFlag, iClientNum, i, iWriteBufLen, wire>>

WritePayload(c) ==
  /\ pc = "payload" /\ Serving(c)
  /\ out' = [out EXCEPT ![c] = @ \o Payload(current)]
  /\ pc' = "serve" /\ i' = i + 1
  /\ UNCHANGED <<client, frames, iIFlag, iMissFrameFlag, iClientNum, iWriteBufLen, wire>>

Unlock ==
  /\ pc = "serve"
  /\ i > iClientNum
  /\ pc' = "read"
  /\ UNCHANGED <<client, reader, out, wire>>

Serve(c) ==
  \/ Drop(c)
  \/ Pass(c)
  \/ Measure(c)
  \/ Miss(c)
  \/ Skip(c)
  \/ WriteHeader(c)
  \/ WritePayload(c)

Loop(c) ==
  \/ AddViewer(c)
  \/ Join(c)
  \/ Refuse(c)
  \/ Fail(c)
  \/ Flush(c)

Next ==
  \/ \E c \in Client : Loop(c) \/ Serve(c)
  \/ \E f \in Frame : ReadFrame(f)
  \/ End
  \/ Lock
  \/ PastTheEnd
  \/ Unlock

Spec == Init /\ [][Next]_vars

-----------------------------------------------------------------------------
States == {"new", "listed", "sending", "failed", "gone"}

\* Every variable has its type, and a frame is being dealt with where pc says so.
TypeOK ==
  /\ listRtspClient \in Seq(Client)
  /\ state \in [Client -> States] /\ early \subseteq Client
  /\ frames \in Seq(Frame)
  /\ iIFlag \in BOOLEAN /\ iMissFrameFlag \in [Client -> BOOLEAN]
  /\ out \in [Client -> Seq(Chunk)] /\ wire \in [Client -> Seq(Chunk)]
  /\ pc \in {"none", "read", "lock", "serve", "decide", "payload", "ended"}
  /\ iWriteBufLen \in Nat /\ iClientNum \in Nat /\ i \in Nat \ {0}
  /\ pc \notin {"none", "read", "ended"} => frames # <<>>

\* No output buffer ever grows beyond LIBEVENT_WRITE_BUF_SIZE, and so the
\* unsigned difference in the test for room never wraps, although the length is
\* stale by the time the frame is written.
BufferBounded ==
  /\ \A c \in Client : Len(out[c]) <= Limit
  /\ iWriteBufLen <= Limit
  /\ pc = "payload" => Len(out[listRtspClient[i]]) + Size(current) <= Limit

\* What a client receives, now and once the buffer is flushed.
stream(c) == wire[c] \o out[c]

\* A client sees whole frames: each chunk continues the frame of the one
\* before, and a header only ever follows a complete frame.
WholeFrames ==
  \A c \in Client : \A k \in 2..Len(stream(c)) :
    LET this == stream(c)[k]  last == stream(c)[k - 1] IN
    IF this.k = 0 THEN last.k = Size(last.n) ELSE this = [n |-> last.n, k |-> last.k + 1]

\* A frame that is not a key frame is sent only right after its predecessor:
\* when frames have been lost, or the loop has been through clients that came
\* and went, the stream resumes with a key frame.
NoGapBeforeDelta ==
  \A c \in Client : \A k \in 2..Len(stream(c)) :
    LET this == stream(c)[k]  last == stream(c)[k - 1] IN
    (this.k = 0 /\ ~ frames[this.n].key) => this.n = last.n + 1

\* A client that was there before the stream opened is first sent a key frame,
\* even if it missed the one that opened it.  (One that joins later may start
\* with any frame: iIFlag is the reader's, and iMissFrameFlag starts cleared.)
EarlyStartsWithKey ==
  \A c \in early : stream(c) # <<>> => frames[stream(c)[1].n].key
=============================================================================
