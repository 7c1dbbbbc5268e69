# A verification project for the BoxRtsp push client

BoxRtsp runs on a box beside IP cameras. An RTSP server elsewhere asks it, over TCP port
8109, for the video of a camera; the box asks the camera for its SDP, hands the SDP to the
server, opens a video connection to the server and pushes the camera's frames over it.
Several servers may watch one camera, and the box reads each camera only once.

This directory holds TLA+ models of that program, written from the C sources under `src/`,
the TLC configurations that check them on small instances, and proofs checked by TLAPS.
`PROJECT.json` maps every definition to the lines it translates.

## 1. The system

### Components, their state and operations

| Component | Source | State it keeps | Operations | Modelled in |
|---|---|---|---|---|
| Signalling server | `src/src/libevent_server.c` | one `bufferevent` per connection, its callbacks and read timeout | accept, dispatch a command, acknowledge, the two error callbacks | `RelayServer` |
| open_video and the SDP phase | `libevent_server.c`, `dev_opt.c` | the device node, its wait list, its connection status, the connection to the camera | find or create the node, DESCRIBE with Basic or Digest, broadcast the SDP | `RelayServer`, `OpenVideo` |
| Video connection | `libevent_server.c` | `CLIENT_LIST_OBJ` in the node's client list, `iDelFlag`, `iSendFrameFlag` | connect out, start the reader, lose the peer | `RelayServer` |
| Reader thread, one per camera | `dev_opt.c` | `iStartThreadFlag`, a client count, an index | open the stream, read frames, drop flagged clients, send, shut down | `RelayServer` |
| Frame send path | `dev_opt.c` | `iMissFrameFlag` and the output buffer of each client, `iIFlag`, the walk through the client list | drop, measure, miss, skip, write header and payload | `FrameSend` |
| Device registry and lock | `dev_list.h`, `main.c` | `listDevList`, `rwlockMyLock` | lookup, insertion, removal | `RelayServer` |
| HLS `push_stream` | `libevent_server.c` | as open_video, without SDP | find or create the node, connect out | `RelayServer` |
| Forwarding to port 8103 | `libevent_server.c` | an outgoing connection | pass a stop or play command on | acknowledgement only |
| SimcList | `common/simclist.c` | entries, sentinels, middle pointer, spare entries, iterator | insert, delete, search, clear, sort, iterate | `SimcList`, `ListSpec` |
| RTSP parser | `common/rtsp-parser.c` | the stored text, a state machine, header positions | input of a response or a request, clear, getters | `RtspParser`, `RtspMessage` |
| Device rows | `libevent_server.c` | the URLs and the password in the node | fill the node from a database row | `OpenVideo` |
| SDP lines | `dev_opt.c` | the node's SDP fields | `analysis_sdp_info` | `SdpInfo` |
| Digest authentication | `dev_opt.c` | realm and nonce in the node | `get_realm_and_nonce`, `get_response` | `Digest` |
| MD5 | `common/md5.c`, `md5gen.c` | count, state and buffer of a context | init, update, final | `Md5` |
| URL decoding | `common/url_code.c` | none | `url_encode`, `url_decode` | `UrlCode` |
| cJSON, FFmpeg, libevent, SQLite | vendored or external | - | - | external: only what the callers see |

### How they interact

One thread runs the libevent loop and all its callbacks, which therefore never overlap.
`pthread_create` adds one reader thread per opened camera. Loop and readers share the
device list, the nodes and their two lists; most, not all, of the accesses are made under
the one lock `rwlockMyLock`. Besides, libevent has a lock per connection
(`BEV_OPT_THREADSAFE`): the loop holds it during the callbacks of a video connection, and the
reader takes it to queue a frame or to free the connection. The life of a viewer is this
sequence:

1. the server connects, and sends `open_video` (`deal_client_cmd`);
2. `deal_open_video_cmd` looks the device up. If it is not listed, the database gives its
   address, a node is listed as CONNECTING, and a connection to the camera is opened; the
   signalling connection goes on the node's wait list. If it is CONNECTING the connection
   joins the wait list; if it is CONNECTED it gets the SDP at once;
3. the camera answers DESCRIBE, perhaps after a Digest challenge; the SDP is written to all
   waiters (`read_dev_sdp_basic_cb`, `read_dev_sdp_digest_cb`);
4. the server answers `server_info`; the box opens the video connection
   (`connect_to_rtsp_server`) and appends a client to the node's client list;
5. when that connection is up, the first such client starts the reader
   (`connect_to_rtsp_server_event_cb`), which sends every frame to every client;
6. a video connection that breaks flags its client (`iDelFlag`), and the reader drops it on
   the next frame. With no client left, or when the camera fails, the reader unlists and
   frees the node.

### What is hard here

- Two kinds of threads over lists that are partly read without the lock: the clients are
  counted before the lock is taken (`dev_opt.c:748`), and callbacks keep pointers to a node
  across callbacks while the reader may free it.
- The start flag of the reader is tested by the loop and set by the new thread.
- Callbacks wait for `rwlockMyLock` with the lock of their connection held, the reader takes
  the two in the other order.
- `pthread_rwlock_wrlock` returns EDEADLK to an owner, and nobody looks at the result; one
  branch of `deal_open_video_cmd` has no unlock.
- Failures at every point (database, camera, video connection, stream) must leave lists,
  lock and connections consistent.
- Bounded output buffers that the loop empties between the reader's steps, with unsigned
  arithmetic, a loss flag and a key frame gate for each client, in a loop over a list that
  grows and shrinks meanwhile.
- A list that finds positions from a moving middle pointer, with parity arithmetic, and a
  quicksort that carries its pivot through the list.
- Text functions that search from wherever the last search ended, and use what they did not
  find.
- A parser that is fed at arbitrary cuts.

`PROJECT.json` lists these as hazards, each at its line and with the properties that cover it.

### What makes each component correct

- Registry: no device with a plain id twice; a lookup never finds freed memory; a device that
  others use is not unlisted by one of its viewers.
- Wait lists: waiters are open, in one list, and never passed by; they get the SDP.
- Client lists: exactly the viewers that can still get a frame, each once.
- Lock: every callback gives it back. That nobody waits for it for ever should be so and is
  not: loop and reader can block each other (`LockOrder`); there is no other way.
- Reader: flagged clients are dropped, unwatched cameras are released, one reader per camera.
- Send path: for each client a bounded buffer, whole frames, a key frame first, resumption at
  a key frame after a loss.
- SimcList: the pointers implement a sequence; no entry leaks or is used after release;
  sorting ends, and gives the same items in order.
- SDP phase texts: who asks gets the device of that id; the answer to a challenge is the one
  the camera computes; the viewers learn the video's format and no other.
- Parser: the end of the message is found exactly, and the getters give what was sent,
  however the text was cut.

## 2. The modules

| Module | Models | Uses |
|---|---|---|
| `RelayServer` | loop, readers, registry, lock, connections | - |
| `RelayServerProofs` | theorems about the registry, the lock, the SDP phase, the client lists and released memory, and that it implements `ViewerSpec` | `RelayServer` |
| `MCRelayServer` | sets of events and symmetry for TLC | `RelayServer` |
| `ViewerSpec` | what a viewer is promised, from asking to leaving | - |
| `FrameSend` | the frames of one camera on their way to all its clients | - |
| `FrameSendProofs` | theorems about it | `FrameSend` |
| `ListSpec` | the sequence `simclist.h` promises | - |
| `SimcList` | `simclist.c` at the level of pointers | `ListSpec` as refinement |
| `SimcListProofs` | theorems about the pointers | `SimcList` |
| `SortProofs` | theorems about sorting, the items, and that it implements `ListSpec` | `SimcListProofs` |
| `RtspMessage` | what a peer sends to the parser, and when it is well formed | - |
| `RtspParser` | `rtsp-parser.c`, client and server mode | `RtspMessage` |
| `RtspParserProofs` | theorems about what holds of any input | `RtspParser` |
| `RtspReadingProofs` | theorems about well formed messages | `RtspParserProofs` |
| `OpenVideo` | the texts of the SDP phase: requests, rows, challenges, descriptions | `Digest`, `SdpInfo`, `UrlCode` |
| `Digest` | the challenge and the answer to it | `Md5` |
| `OpenVideoProofs` | theorems about it and the text modules | `OpenVideo`, `Md5Proofs` |
| `Md5` | buffering, counting and padding | - |
| `Md5Proofs` | theorems about it | `Md5` |
| `SdpInfo` | `analysis_sdp_info` | - |
| `UrlCode` | `url_code.c` | - |
| `MCFrameSend`, `MCSimcList`, `MCRtspParser`, `MCOpenVideo` | instances for TLC | the above |

### RelayServer

The actions bear the names of the C functions. A callback of the loop is one action, unless
it touches shared state and only then waits for the lock, or goes on after giving it back:
then it is two, and `loopPc` and `loopConn` say where the second half resumes (`SendSdp`,
`ConnectOut`, `ClientAdded`, `StartReader`, `UnlinkClient`). The reader is a program counter `pc[t]` with one action for each stretch of
code between two accesses to shared state.

| Variable | In the code |
|---|---|
| `listDev` | `listDevList` |
| `mem`, `key`, `status`, `started` | the `DEV_LIST_OBJ`: is it allocated, which device, `enumDevConnectStatus`, `iStartThreadFlag` |
| `clients`, `wait` | `listRtspClient`, `listWaitClient` |
| `devBev` | the connection to the camera during the SDP phase, by the callback it has |
| `sig`, `video` | the state of the two bufferevents of a viewer, by what can still happen to them |
| `node` | the `pDevNode` that a connection's callbacks and reader keep |
| `pc`, `num`, `pos` | the reader: where, `iClientNum`, `i` |
| `lock` | the owner of `rwlockMyLock` (only taken for writing) |
| `fault` | the function that used released memory, else `"none"` |

Everything a signalling connection `c` gives rise to has its name: the node it creates, its
video connection, and its reader. So the number of connections bounds everything else, and
no counter needs a bound. Lists are sequences here: that `simclist.c` implements sequences
is the business of `SimcList`.

Use of released memory has no defined effect, so a step that does it sets `fault` and ends
the behaviour. The properties that hold are stated of what comes before; which functions
can get there is a property of its own (`SdpPhaseSafe`, `OnlyCountIsStale`,
`DisconnectMarks`). The liveness properties say "or stopped", by such a step or by the locks.

The lock of a video connection needs no variable: the loop holds it where it waits in
`StartReader` or `UnlinkClient` (`BevHeld`), and the reader's step that writes to the connection
or frees it waits as long (`ReaderMayWrite`). As the reader holds `rwlockMyLock` there, the two
wait for ever when they meet over one connection (`LockedUp`); then the program stands still,
which no safety property minds.

`open_video` looks for the id that `url_decode` makes of what was sent, and lists a new node
under what was sent (`libevent_server.c:479`, `520`); `hls/play` uses the decoded id for both.
The constant `Decoded` says for each device which one its decoded id belongs to. So an id with
an escape is listed again by every `open_video`, and `RegistryUnique` speaks of plain ids only.

The constant `Events` says what peers, database and cameras may do in a run. It never takes
an action of the program away, only a choice of its environment.

Assumptions: the RTSP server sends `server_info` only after it has got an SDP, and does not
send a second `open_video` on the same connection; commands arrive whole and are well
formed JSON (one that has only partly arrived changes nothing); `malloc` and
`pthread_create` succeed; the two stores of `libevent_server.c:222-223`, the pointer and the
flag that publishes it, are seen in this order. A 401 whose challenge is read from the
released parser (`dev_opt.c:400-410`) may go either way, to Digest or to the SDP.

### ViewerSpec

The life of a viewer without threads, locks and lists: it is fresh, waits for the SDP of a
session, is informed of it, or watches. `RelayServer` implements it
(`ServesViewers`), with a node as the session, a node's wait list as `waiting`, its client
list as `watching`, and the connections that have got the SDP as `informed`. It says in one
place what the single invariants do not: that the SDP goes to all waiters at once, that
nobody moves to a session that has ended or skips a stage, and that a session is withdrawn
only with its last viewer, by its failure or at its end. HLS is outside of it:
`push_stream` connects out for its viewer without any SDP.

### FrameSend

One reader and all clients of its device, from before the first of them is connected: whichever
connects first starts the reader, and may have others that are still connecting in front of it
in the list. The loop adds clients (`AddViewer`, `Join`),
takes refused ones out of the list (`Refuse`), flags those whose connection fails (`Fail`)
and empties the buffers (`Flush`) between any two steps of the reader; the first and third
only while the reader does not hold the lock. The reader counts the clients before it takes
the lock, and then walks the list by index, dropping flagged clients on the way: `i` and
`iClientNum` both go back (`Drop`). When the list has become shorter since the count,
`list_get_at` returns NULL (`PastTheEnd`), and nothing is claimed of what follows; that this
is the only way there is a matter of `RelayServer` (`OnlyCountIsStale`).

The unit of a buffer is a chunk: a frame's header is one, its payload one or more. `Full`
keeps the unsigned subtraction. `evbuffer_drain` removes nothing: libevent keeps the front of
a bufferevent's output buffer frozen and returns -1, which the code does not look at. A
frame's `late` says that its time stamp is positive, which the code asks of the key frame
that opens the stream. `early` is a history variable: the clients that could be sent to
before the stream opened, of which `EarlyStartsWithKey` speaks. For clients that join later
the code gives no such guarantee, and no text claims one. The rest of the reader's life, and the
locks of the connections, are in `RelayServer`: a reader that waits for such a lock takes no
step, which is one of the behaviours here, and nothing is claimed that must happen.

### SimcList and ListSpec

`next`, `prev`, `data`, `mid`, `numels`, the stock of spare entries and the iterator are as
in memory. Links of an entry outside the list are `Null`, so that an algorithm that reads
them shows. `ListSpec` is the sequence, and the position the iterator will hand out next;
`Refines` maps the pointers to it, and
`OperationsInPlace` says of each operation which item it acts on. Settings are those the
program uses: data is not copied, and elements are located by reference. The comparator is one of the ready-made numeric ones.

`list_sort` is one action per call of `list_sort_quicksort`, for any pivot `get_random` may
give; `sorting` is the stack of parts that are still to be sorted, with the indices and
pointers the calls are given. To `ListSpec` the whole sort is the one step of `list_sort`:
from then on the mapping shows the items in order, and every call of `list_sort_quicksort`
must stutter. It does so only if it loses no item, and the last one only if the items are in
order by then. `PartsInOrder` relates the
indices of a part to its pointers and says that the parts are in order among each other,
`SortShrinks` that every call leaves fewer positions that are in a part. The threads of `SIMCLIST_WITH_THREADS`
are not modelled, nor concatenation, hashing, minimum and maximum, dump and restore, none of
which the program calls.

Deleting the range that is the whole list moves the middle pointer off the list, because
`numels-1-numdel` is unsigned (`simclist.c:597`). The program never deletes a range. The
model keeps the arithmetic, records the null pointer in `fault` and stops there.

### RtspParser and RtspMessage

`rtsp` is the structure `rtsp_parser_t`, with positions from 0 and the NULs that headers and
body get written into the text. One action is one turn of a parsing loop, so that "go back"
is a turn that leaves the position alone. `LineTurn` is what the loops of the status line
and of a header line have in common, by the tables `NextState` and `Field`. Texts are
sequences of tokens; a word is a token, and in a body a token is a byte. A folded header is
modelled with the code's blanking loop, which takes a length for a position.

The program creates a parser in client mode per answer and feeds it once. The model creates
one in either mode, feeds it at any cut and uses it again after `rtsp_parser_clear`, which is
what `rtsp-parser.h` offers. The getters are operators on the state: `MessageRead` compares
them with what was sent.

`RtspMessage` is the peer's side. A message is its text, what it says (the first line, each
header's value, the body), and its `layout`: the places of its parts in the text, of which
`WellFormed` says, in the terms of the RFC sections that `rtsp-parser.c` quotes, what stands
there and between them. So the grammar is a predicate and not a recursive one, and one can
reason about it. Numbers are what `atoi` makes of them, with a sign; the size of a chunk is of
type `size_t`, and both the size and the place behind the chunk are taken modulo `SizeMod`. A
`good` message is well formed: any blanks where the RFC has them, CR LF or
LF at the end of each line, any number of headers, none of which has the name of another,
empty values, folded headers, a body by `Content-Length`, by chunks with extensions and
trailer, or none. A header's name must not look like a version, as `sscanf` decides. Of a
message that is not good nothing is assumed but that it is a text.

`TypeOK` says of any input that what the parser reads and hands out, each header, each field
of the first line, the chunks and the body, lies within the text stored so far, and that text
within the buffer. There is one way out: a chunk whose size is so large that the place behind
it wraps passes the test of `rtsp-parser.c:816`, and the parser then looks for the line end, and
moves the chunk, outside the text. The model stops there with `ret = "overrun"`, and `TypeOK`
says that it takes a message that is not `Countable`.

`DoneExactlyAtEnd` is about good messages; the counterpart for the others is `BadIsRefused`, in
which to be refused is to trip an assert. `MessageRead` leaves folded messages out: the loop that joins a folded line to
its header (`rtsp-parser.c:647`) starts at the length of the value, taken for a position, and
blanks other fields, the status reason among them, although a fold should mean no more than
a blank. A chunked response that gives a `Content-Length` behind is neither good nor
malformed: the comment at line 194 says that the length is ignored, but the assert at line 199
ends the program, which is the subject of the run `LengthIgnored`.

### OpenVideo and its text modules

`RelayServer` has all interleavings and no texts; `OpenVideo` has the texts, one step after
the other on the loop thread, which is where all of them run. A node holds what
`DEV_LIST_OBJ` holds of them. A request is looked up with the decoded id and stored with the
one that came (`deal_open_video_cmd`), the row becomes URLs (`load_device_ip_port_cb`), the
DESCRIBE goes to one of them (`DescribeUrl`), a challenge is answered (`AnswerChallenge`), a
description is searched for its lines (`Describe`). A NULL column, a missing quote or a missing
line that the code then uses ends the behaviour with `fault`; so does whatever is copied by its
own length and fills its field, as the columns of a row (`Spoils`), the nonce
(`get_realm_and_nonce`) and the lines of a description (`Taken`) may. A realm that fills its
field runs on into the nonce, which lies behind it, and the model follows it there (`Held`).
`Freed` is the challenge in the
parser that has just been destroyed: still there, or not.

Texts are sequences of characters, except that a word the code searches for, and the part
of a URL before its path, is one character; an SDP is a sequence of lines with the kind the
searches tell apart. In `Md5` a digest is the sequence of blocks that went into
`MD5Transform`, whose rounds are left out: two digests are equal exactly if the same blocks
went in, so that `ChallengeMet` compares what is hashed, padded and counted, not how it is
mixed. In the code the text of a digest has 32 characters: `HexLen`, which counts where two of
them are printed with the nonce between (`PrintedDigests`). The sizes of a block, of the bit
count's words and of every field are constants. The two loops of `UrlCode` are sequences of their turns (`EncodeTurn`, `DecodeTurn`).

## 3. What is checked

Runs that pass:

| Run | Instance | Shows |
|---|---|---|
| `HlsMix` | 3 connections, 2 devices, of which one is the other's id with an escape, RTSP and HLS, all failures | `TypeOK`, `RegistryLive`, `RegistryUnique`, `WaitersIntact`, `ViewersIntact` |
| `RtspShared` | 3 connections, 2 devices likewise, no HLS, all failures | `LockReleased`, `SdpPhaseSafe`, `OthersKeepDevice`, and the refinement of `ViewerSpec` (`ServesViewers`) |
| `GoodCamera` | 2 connections, 2 devices, cameras that do not fail | `OnlyCountIsStale`, `FlaggedDropped`, `WaitersAnswered`, `LoopGoesOn`, `UnwatchedReleased` |
| `FrameSend` | 2 clients, 3 frames of up to 2 chunks, buffers of 4 | `TypeOK`, `BufferBounded`, `WholeFrames`, `NoGapBeforeDelta`, `EarlyStartsWithKey` |
| `SimcList` | up to 6 entries, 3 data values, 2 spare entries | `RepOk`, `PositionsFound`, `EntriesAccounted`, `IteratorInPlace`, `PartsInOrder`, `Refines`, `OperationsInPlace`, `SortShrinks` |
| `RtspParser` | responses and requests, all cuts, repeated use | `TypeOK`, `DoneExactlyAtEnd`, `BadIsRefused`, `MessageRead`, `GoodIsParsed`, `Returns` |
| `OpenVideo` | 2 nodes, 5 ids, 5 rows, 9 descriptions, 12 challenges | `TypeOK`, `RoundTrip`, `PlainIdsServed`, `ChallengeMet`, `PiecesAlike`, `VideoDescribed`, `CustomaryRead` |

Runs that find a disagreement between the code and what its comments or documents say:

| Run | Property | What happens |
|---|---|---|
| `TwoReaders` | `OneReaderPerDevice` | two viewers come up before the first reader has run: two readers for one device |
| `DevUnreachable` | `FailureCutsConnection` | the camera fails, and the waiting connection is never closed |
| `LockOrder` | `ConnectedServed` | a viewer connects while the reader of its camera sends: the loop waits for the reader, the reader for the loop, and everything stands still |
| `LateDisconnect` | `DisconnectMarks` | a viewer leaves after the reader has ended: its callback reads the freed node |
| `LengthIgnored` | `LengthIgnored` | a response in chunks gives a `Content-Length` as well, and an assert ends the program |

### Bounds

- Three connections are the least for which two viewers share a device while a third
  creates, or finds, another node for it; a reader, a second reader of the same node and a
  viewer whose callback is interrupted at the lock exist at the same time. `HlsMix` and
  `RtspShared` have two devices so that waiters of one and viewers of the other interleave; the
  one is asked for by an id that decodes to the other's, so that both kinds of id occur. `GoodCamera`, for
  liveness, has two connections and no symmetry, which TLC's liveness check would not allow.
- `FrameSend`: two clients, so that one is dropped before, at and behind the other's place, and
  one joins while the other is served, or is still connecting in front of the one that starts the
  reader. A buffer of four holds a large frame and no second
  one, or two small ones, so that fitting, missing and skipping occur; three frames allow a
  loss, a skipped delta frame and a resumption. `Modulus` only has to exceed the numbers
  involved; that the proof needs no more is `SizeAssumption`.
- `SimcList`: six entries give both parities and a non-trivial path through each quarter of
  `list_findpos`. Two spare entries, not five, make the limit of the stock reachable. Parts of
  two go to the selection sort (24 in the code), so that quicksort runs on parts of three to
  six. A third value, which puts a pivot between a smaller and a bigger neighbour, occurs in
  lists of up to four entries (`ShortOfThree`), which keeps the run within minutes. It means
  that with five and six entries quicksort is checked on two values only.
- `RtspParser`: two line ends by two styles of blanks, by three kinds of body (none, sized,
  chunked with an extension and a trailer) and two kinds of requests; one response with the
  headers whose place is noted, one folded, eight malformed texts, and two with a size that
  wraps: the one while it is read, the other when two are added. `SizeMod` only has to exceed the
  lengths of the texts. The first block of the buffer is 24 tokens, so that long texts need a
  second and a third one.
- `OpenVideo`: blocks of eight characters with the count in the last two, and values of none to
  nine characters, so that the hashed texts end before, at and behind the place of the count;
  words of the count that overflow at 64 bits, so that the carry occurs (with 2^32 it never
  does in this program); a URL and a user name longer than their fields, a realm, a nonce and a
  line that fill theirs, and a nonce that fits its field and not `msg_buf`. Two nodes are what an id that is listed
  twice takes.

Deadlock is not checked: every model may come to rest (no camera sends, no viewer is left,
the parser waits for input, the process has aborted).

### Fairness

`FairSpec` assumes strong fairness of the loop's second halves, of each reader's next step,
and of the SDP phase of each device. The steps that wait for the lock need strong rather
than weak fairness, because readers release and retake the lock; each releases it between
frames, and glibc's rwlock lets a blocked writer in then. A step that can never be taken again
is owed nothing: when the locks have stopped the program, fairness helps nobody, which is why
the liveness properties end in "or the program stops", and why `LockOrder` finds its
counterexample under the same fairness. The SDP phase is fair because a
camera's silence ends with the five second timeout of the connection, and the loop serves
every descriptor that is ready. `FlaggedDropped` has the premise `CamerasStream`, that of the packets
every so often one is a frame to forward: a flagged client is dropped only when one is. `TimedSpec`, for the
violation `DevUnreachable`, adds that the ten second timeouts of connections that are being
read expire, so that the counterexample does not rest on their absence. Nothing is assumed
fair that a peer decides. `RtspParser` assumes weak fairness of the steps inside a call.

## 4. What is proved

All for any values of the constants that satisfy the modules' assumptions: any number of
connections, devices and clients, any events, any buffer limit and number of frames, lists of
any length, texts and blocks of any size, any messages and any way to cut them. Where a
theorem needs more, its hypothesis is named.

`RelayServerProofs`:

| Theorem | States |
|---|---|
| `TypeCorrect` | `[]TypeOK` |
| `IInvHolds` | the inductive invariant below |
| `RegistryUniqueHolds`, `RegistryLiveHolds`, `WaitersIntactHolds` | the invariants of these names |
| `LockOwnerHolds` | a reader owns the lock exactly while it sends |
| `LockReleasedHolds`, `SdpPhaseSafeHolds`, `OthersKeepDeviceHolds` | the properties of these names, for `"play_hls" \notin Events` |

The invariant is `IInv == TypeOK /\ History /\ RegistryLive /\ FreeingUnlisted /\
RegistryUnique /\ WaitersIntact`. None of the claims is inductive alone. `RegistryLive` needs
that a node about to be freed is unlisted (`FreeingUnlisted`). That needs that no node is
ever created twice under one name and no reader's node is replaced, which is `History`: a
connection has no node before its first command (`Fresh`), nodes once created stay so
(`Born`), the stages of a viewer come in order (`InOrder`), also across the lock
(`ResumesInOrder`). `WaitersIntact` needs `History` so that a new waiter is in no list yet.
Each action is shown to keep each part; what a group of actions can change at all is stated
once in the frame and effect lemmas (`ReaderFrame`, `ReaderEffect`, and so on), and the
steps cite those.

The assumption without HLS is needed: `push_stream` lists a node with status 0, and an
`open_video` for it returns with the lock held. With HLS all three properties fail.
Without it `SdpPhaseInv` holds (a listed device is CONNECTED or CONNECTING; one whose camera
is being asked is CONNECTING and not released; what connections refer to is CONNECTED), from
which `SdpPhaseSafe` follows. `OthersKeepDevice` goes through the actions that take a device off
the list (`OthersStep`). Apart from the loss of the connection for the SDP and the reader's end,
they are three callbacks that find the client list empty. One of them has just taken its own
client out, so at most that one was in it (`LeavesRest`). Nobody waits for a device that is
CONNECTED, and the callback of a viewer belongs to such a one.

`RegistryUniqueHolds` is about plain ids, the devices for which `Decoded` is the device itself.

The second part of the module is about the viewers:

| Theorem | States |
|---|---|
| `VInvHolds` | `VInv`, inductive relative to `IInv` |
| `ViewersIntactHolds` | `[]ViewersIntact`, HLS included |
| `OnlyCountIsStaleHolds` | `[]OnlyCountIsStale`, for `StreamsLast`: no HLS, no stream that fails |
| `ServesViewersHolds` | `ServesViewers`: without HLS, `RelayServer` implements `ViewerSpec` |

`VInv` adds to `ViewersIntact` that whoever is in a list connects for that list's node
(`ListedConnect`), that a node still to be created has empty lists (`Untouched`), and that the
client the loop is about to unlink is disabled (`UnlinksDisabled`). Without the last, the
second half of the error callback could take out a client that still counts as a viewer.

`OnlyCountIsStale` says nothing once two viewers share a node; as connections keep their node
(`NodelessStep`), sharing lasts. Until then `Sound` is inductive: a node is live as long as the
reader that will release it has not released it, and a reader closes only when its own viewer
is gone. `GoodCamera`, the run that checks the property, makes the premise `StreamsLast` true,
and excludes more that the theorem allows, such as a camera that is lost before the SDP. When a
stream fails, the reader releases a node that the callback of its viewer still reads, which is
what `LateDisconnect` is about.

The last part is the refinement. The lemmas of its beginning state each step of `ViewerSpec`
in the terms of the mapping. Then every action of `RelayServer` is shown to map to one of
them or to a stutter. `IInv`, `VInv` and `SdpPhaseInv` supply what the steps need of reachable
states, above all that the informed and the watching of a node belong to a node that is still
listed or that ends.

`FrameSendProofs`:

| Theorem | States |
|---|---|
| `TypeCorrect`, `BufferBoundedHolds` | the invariants; the second with `Measured`: the buffer is at most what the reader measured |
| `ListInvHolds` | no client is in the list twice, and who is in it is "listed", "sending" or "failed" |
| `StreamInvHolds` | `StreamInv`: for each client `Sound`, `Aligned`, `Consecutive` and `Awaiting` |
| `WholeFramesHolds`, `NoGapBeforeDeltaHolds`, `EarlyStartsWithKeyHolds` | the invariants of these names |

`Sound` is what is claimed of a client's stream. `Aligned` ties the end of what the client has
been sent to where the reader is in its frame: at a complete frame, or at the header of the
current one. `Consecutive` says that without the loss flag the last frame sent is the one just
before the current, or the current one once the reader's index has passed the client; `Due`
tells the two apart, and it is here that the index and the count must follow a `Drop`. It is
what makes `NoGapBeforeDelta` inductive. `Awaiting` says the same of an early client that has
been sent nothing. All this needs `ListInv`: if a client stood twice in the list, it would be
sent a frame twice.

`SimcListProofs`, for lists of every length:

| Theorem | States |
|---|---|
| `LInvHolds` | `LInv`, the inductive invariant |
| `RepOkHolds`, `EntriesAccountedHolds`, `IteratorInPlaceHolds` | the invariants of these names |

The properties follow links by the recursive function `Walk`; an invariant made of it would
need induction at each change of a link. `LInv` says instead that there is a sequence of
places `c` that the links lead through (`Chained`), from which place `i` of the list is `c[i]`
without walking; `WalkNext` and `WalkPrev` show once that `Walk` computes it, from the least
number of steps for which it would not. Insertion and deletion make a new `c` from the
old one, and `MidMoveIs` does the arithmetic of `mid` by parity.

`SortProofs`:

| Theorem | States |
|---|---|
| `SInvHolds` | `SInv`, the inductive invariant |
| `PositionsFoundHolds`, `PartsInOrderHolds` | the invariants of these names |
| `SortShrinksHolds`, `OperationsInPlaceHolds` | the action properties of these names |
| `ImplementsList` | `Spec => Refines`: the pointers implement `ListSpec` |

`SInv` adds to `LInv` that the parts on the stack are stretches of the chain at the indices
they are said to have (`PartsAt`), and that items which are not in one part are in order
(`Apart`). A call of `list_sort_quicksort` is three loops within each other. What they keep is
`Splitting`: the data of the part is a rearrangement of what it was and that of other entries
is untouched (`Rearranged`), the pivot's pointer and index agree, and what has been passed on
either side is on its side of the pivot (`Around`). The loops are functions of the number of
turns; that what a turn keeps holds after all of them is `RunKeeps`, again by a least
counterexample. `ImplementsList` needs that a shuffle of items that is in order is the only
one (`OrderedIs`), which counts for every value how often it occurs: from this, the sorted
sequence is the same whichever pivots are taken.

`Md5Proofs` has no invariant of a behaviour but one of a representation: `Holds(context, t)`,
what a context remembers after it was fed `t`. `MD5Update` takes `Holds` of `t` to `Holds` of
`t` with the input behind it, and `MD5Final` makes of it the padding and the count of `t`
(`DigestIs`), however the text was cut (`PiecesAre`), for any sizes that `Md5Assumption`
allows.

`OpenVideoProofs`, for any requests, rows and answers:

| Theorem | States |
|---|---|
| `ResponseIs` | where none of the three texts printed into `msg_buf` is cut short, the response is the one the camera expects |
| `ThereAndBack` | `url_decode` undoes `url_encode`, which stays within its room |
| `CustomaryTold` | a customary description with lines that fit their fields is read to its end, and the video's lines are kept |
| `OInvHolds` | `OInv`, the inductive invariant |
| `TypeOKHolds`, `RoundTripHolds`, `PlainIdsServedHolds`, `ChallengeMetHolds`, `PiecesAlikeHolds`, `VideoDescribedHolds`, `CustomaryReadHolds` | the invariants of these names |

`ChallengeMet` asks that realm and nonce fit their fields (`FitsFields`) and that the three
texts fit `msg_buf` (`FitsMsgBuf`); `VideoDescribed` and `CustomaryRead` that the lines fit
theirs, which is part of `Customary`. `OInv` says of each node what its phase and status mean
(`NodeOk`), and that plain ids are listed once (`Alone`). Most of the work is in the text functions: that the realm and the nonce
are cut out of any challenge that names them quoted, whatever is around them, that the
searches of `analysis_sdp_info` end in the video's section for any order of sections, and the
turns of the loops of `url_code.c`.

`RtspParserProofs`, for any input, well formed or not:

| Theorem | States |
|---|---|
| `PInvHolds` | `PInv`, the inductive invariant |
| `TypeHolds` | `[]TypeOK`: nothing is read or handed out from beyond the stored text, unless a chunk's size wraps |

That the fields lie within the text is not inductive, because a field is measured long after
it was begun, by the position of the parser at that time. `Bounds` says state by state which
field is open and began at or before the parser (`OpenField`), which are closed and end at or
before it (`ClosedFields`), what the first line and the headers left behind it (`FirstLine`,
`HeadersBehind`), and how far the chunks that were moved together reach (`BodyBehind`): the
body collected so far must end before the chunk that is read, or the next move would overwrite
text not yet parsed. `Typed` is the structure's types, and `Stored` ties the text to what was
fed. All this is claimed of every text up to the step, if there is one, that sets `ret` to
"overrun". That only a message with such a size gets there is the second invariant, `WInv`: no
word of the stored text has a size that the message had not, so if the message is `Countable`
neither the size nor the sum wraps. The turn of a line's loop is one operator for nineteen states, so what it makes of the
structure is stated once per state (`StatusStartTurn` to `HeaderSp3Turn`).

`RtspReadingProofs`, for any well formed message and any cut of it:

| Theorem | States |
|---|---|
| `GInvHolds` | `GInv`, inductive relative to `PInv` |
| `GoodHolds` | `[]GoodIsParsed`: no assert of the parsing fails, and no sum wraps |
| `DoneHolds` | `[]DoneExactlyAtEnd` |
| `ReadHolds` | `[]MessageRead`: the getters give what was sent; the length where one is given or the body comes in chunks |

`GInv` says where in the message the parser is, and what it has kept of it. `FirstReading`,
`HeaderReading` and `BodyReading` give for each state the stretch of the layout in which
`offset` (or the chunk's offset) lies: this is what rules out every assert, since the token
there is one the state accepts. Of the text, what is ahead is untouched (`Unread`) and what is
behind has become strings (`Intact`): a NUL is written at the end of a field, so the end of
one must lie before the next begins. The headers before the current line are those of the
message (`Listed`), and what is noted of some of them is what the header of that name said, or
the initial value if there is none (`NotedAs`); it is here that a name must not occur twice,
as the parser takes the last one for its notes and the first one for the getter. In a chunked
body, the chunks before the current one have been moved to the body's beginning, where they
make up the body so far (`Taken`), while the text from the current chunk on is untouched.
`PInv` supplies the bounds. A good message says of each chunk the size that is there
(`Sized`), so the place behind it is within the message and the sum does not wrap (`ChunkFits`).
Nothing in `GInv` refers to how the text was fed but its length:
that is why cuts make no difference. `DoneAtEnd` and `AllRead` derive the three properties
from it. For a folded message only its way through the states is kept (`Unmeasured`).

Assumptions. The proofs rest on the named assumptions of the modules, which TLC evaluates in
every run: that connections, devices and events are what they are called (`ConnAssumption`,
`WantsAssumption`, `EventsAssumption`); that sizes are numbers with the order they have in the
code (`SizeAssumption`, `SortAssumption`, `Md5Assumption`, `DigestAssumption`, `SdpAssumption`); that
every device has a decoded id, its own or another's (`DecodedAssumption`); that the
sentinels and `Null` are no entries (`EntryAssumption`); that an id is a text of bytes that are
not NUL and fits its buffer (`OpenVideoAssumption`); that a database row is of texts or NULL
(`RowsAssumption`); that an answer's `realm` and `nonce` are those its challenge names
(`AnswersAssumption`), which only says what these two fields, of which the model's steps take
no notice, stand for; that the units of the parser's buffer are in the order they have in the
code (`UnitAssumption`); that `atoi` gives a number, of either sign, and `strtohex` one
without (`NumberAssumption`, `HexAssumption`); that messages are texts, shorter than what
`size_t` counts (`MessageAssumption`, `SizeAssumption` of `RtspMessage`); and that good messages are well formed
(`GrammarAssumption`), which defines what `good` means and says nothing of other messages.
TLC evaluates it on the run's 23 good messages.

Only model-checked:

- liveness (`FlaggedDropped`, `WaitersAnswered`, `LoopGoesOn`, `UnwatchedReleased`,
  `Returns`), which is out of reach of the prover together with fairness and ENABLED;
- `BadIsRefused`: of messages that are not good nothing is assumed, and some texts that the
  grammar does not allow are read without complaint, for instance a header name that occurs
  twice. So the property is about the eight malformed texts that the run's module lists.

## 5. Not modelled, and why

- The rounds of `MD5Transform`: 64 steps of 32-bit arithmetic without a branch, for which a
  model would repeat the code. `MD5Encode` and `MD5_enc` are not called. `chap_auth`, of which
  `PiecesAlike` speaks, is called by `MD5_enc` alone: the property is about what `md5.c` offers,
  not about a step of this program.
- The end of a DESCRIBE that exceeds `cDiscribe[1024]` (`dev_opt.c:257`, printed with
  `snprintf`), and an answer that fills `cRecvBuf[10240]` (`dev_opt.c:317`, `361`), which then has
  no NUL.
- cJSON, FFmpeg, libevent, SQLite: vendored or external. Their headers under `src/inc` are
  about nine tenths of the lines of the repository and declare what the program does not
  implement; the program's own C files have 5,599 lines, of which the models map about half.
- The outgoing connection to port 8103: it shares nothing with the modelled state, and it
  sends a buffer on the stack of a function that has returned.
- `main`'s set-up, the serial number and logging: input and output only.
- Weak memory orders, and failures of `malloc` and `pthread_create`.

What the models have, and no property demands:

- An id with an escape is listed again by every `open_video` (section 2), each time with a
  camera connection of its own. `RegistryUnique` and `PlainIdsServed` are about the others.
- When the camera fails, its waiters are dropped unanswered, and their connections stay
  (`DevUnreachable`). `WaitersIntact` says where a waiter is, not that it is answered, and
  `WaitersAnswered` is checked with cameras that do not fail.
- After a forwarded command the connection stays: `deal_write_ok`, which would close it, is its
  read callback (`libevent_server.c:886`), with reading disabled (`830`).
- `VideoRefused` tests for an empty client list while its own client is still in it
  (`libevent_server.c:276`), so a device whose only viewer cannot be reached stays listed.
- The test of `dev_opt.c:268` for an empty URL of the sub stream never holds, because
  `load_device_ip_port_cb` prints the address into it in any case (`libevent_server.c:59-60`):
  for a camera without a sub stream the URL has no path.
- `rtsp_get_content_length` gives 0 where there is no `Content-Length` (`rtsp-parser.c:996`), and
  `rtsp-parser.h` says "<0-don't have content-length header", as does the comment of
  `rtsp-parser.c:69` of the field. No part of the program asks, and `MessageRead` speaks of the
  length only where one is given or the body comes in chunks.
- An empty reason phrase trips an assert, although the RFC's grammar allows it; it is neither
  among the good messages nor among those of `BadIsRefused`.
- Of a folded header only the way through the states is claimed (`MessageRead` leaves it out),
  and of clients that join a running stream, that they get whole frames and no gap before a
  delta frame, but not that the first frame is a key frame.

## 6. Plan

Done, in this order: `RelayServer` with its runs and findings, `FrameSend`, `SimcList` with
`ListSpec`, the proofs of the first two, `RtspParser`; then `ViewerSpec` and the refinement,
`FrameSend` with several clients and its proofs, server mode and getters of the parser,
sorting, and `OpenVideo` with the text functions.

The proofs came in the order of the models. All safety and action properties of the passing
runs are proved now, except `BadIsRefused`. What could follow:

1. a grammar of what the parser accepts beyond the RFC, so that `BadIsRefused` is a claim
   about all other texts;
2. the readers' steps on the client list of `RelayServer` and those of `FrameSend` are two
   models of one loop (`dev_opt.c:748`): a mapping between them, shown for each step.

## 7. Running it

    tlc -workers 2 -config HlsMix.cfg MCRelayServer.tla
    tlc -workers 2 -config RtspParser.cfg MCRtspParser.tla
    tlc -workers 2 -config OpenVideo.cfg MCOpenVideo.tla
    for m in RelayServer FrameSend SimcList Sort Md5 OpenVideo RtspParser RtspReading
    do tlapm ${m}Proofs.tla; done

The module and configuration of every run are in `PROJECT.json`. The definitions commented as
mutants or faults are slips such as the code might contain: each property is known to fail
with one of them in place.
