----------------------------- MODULE OpenVideo -----------------------------
(***************************************************************************)
(* What the texts say on the way from a request to the SDP: the device id  *)
(* of open_video and push_stream, the database row, the DESCRIBE requests  *)
(* with their authentication, and the camera's description.  RelayServer   *)
(* has the same steps with all their interleavings and without the texts;  *)
(* here one step follows the other on the loop thread.                     *)
(*                                                                         *)
(* The channel number is part of the id.  A step that uses a pointer to    *)
(* nothing, or writes beyond a field into what a model of texts does not   *)
(* have, ends the behaviour with fault naming the function.                *)
(***************************************************************************)
EXTENDS Digest, SdpInfo, UrlCode

CONSTANTS
  Requests,   \* [cmd, id, stream]: cmd is "open_video" or "play", id a text
  Rows,       \* what the database has: id -> [host, user, passwd, main, sub]
  Answers,    \* what a camera may answer: [code, auth, realm, nonce, sdp]
  MaxNodes,   \* bound on the device nodes of one behaviour
  MaxIdLen,   \* MAX_DEV_ID_LEN
  UserLen     \* sizeof(arrUserName) and sizeof(arrUserPasswd)

\* The challenge has this parameter, for the first time, with this quoted value.
Names(auth, word, value) ==
  \E k \in DOMAIN auth :
    /\ k + 2 + Len(value) \in DOMAIN auth
    /\ auth[k] = word /\ \A j \in 1..(k - 1) : auth[j] # word
    /\ auth[k + 1] = Quote /\ auth[k + 2 + Len(value)] = Quote
    /\ \A i \in DOMAIN value : auth[k + 1 + i] = value[i] /\ value[i] # Quote

ASSUME OpenVideoAssumption ==
  /\ MaxNodes \in Nat /\ MaxIdLen \in Nat /\ UserLen \in Nat
  /\ \A r \in Requests :
       r.cmd \in {"open_video", "play"} /\ r.id \in Seq(1..255) /\ Len(r.id) < MaxIdLen

\* A row is of texts, two of which may be NULL.
ASSUME RowsAssumption ==
  \A id \in DOMAIN Rows : LET row == Rows[id] IN
    /\ row.host \in Text /\ row.user \in Text /\ row.main \in Text
    /\ row.passwd = None \/ row.passwd \in Text
    /\ row.sub = None \/ row.sub \in Text

\* The realm and the nonce of an answer, where it has them, are those its
\* challenge names.
ASSUME AnswersAssumption ==
  \A a \in Answers :
    /\ a.auth = None \/ a.auth \in Text
    /\ a.realm \in Text /\ a.nonce \in Text
    /\ a.realm # <<>> => a.auth # None /\ Names(a.auth, WordRealm, a.realm)
    /\ a.nonce # <<>> => a.auth # None /\ Names(a.auth, WordNonce, a.nonce)
    /\ a.sdp.lines \in Seq(SdpLine) /\ a.sdp.ended \in BOOLEAN

VARIABLES
  nodes,    \* the device nodes in the order of their creation
  listed,   \* listDevList: the numbers of the nodes in it
  fault     \* the function that used what it must not, or "none"

vars == <<nodes, listed, fault>>

NoDescription == [lines |-> <<>>, ended |-> TRUE]
NoAnswer == [code |-> 0, auth |-> <<>>, realm |-> <<>>, nonce |-> <<>>, sdp |-> NoDescription]

Init == nodes = <<>> /\ listed = {} /\ fault = "none"

Runs == fault = "none"
Fault(function) == fault' = function /\ UNCHANGED listed

-----------------------------------------------------------------------------
(* Requests.                                                                 *)

\* The id a request is looked up with; what url_decode returns is not looked at.
Decoded(id) == AsString(url_decode(id, Len(id), MaxIdLen).target)

\* list_seek with DevSeeker.  Mutant: only connected devices are found.
SeekConnected(id, stream) ==
  {k \in listed : nodes[k].id = id /\ nodes[k].stream = stream /\ nodes[k].status = "CONNECTED"}
Seek(id, stream) == {k \in listed : nodes[k].id = id /\ nodes[k].stream = stream}

\* load_device_ip_port_cb: host stands for scheme, address and port.  A column
\* that is NULL is measured with strlen, and one of any length copied.
UrlOf(row, path) == Printed(row.host \o path)
load_device_ip_port_cb(row) ==
  [main |-> UrlOf(row, row.main), sub |-> UrlOf(row, row.sub),
   user |-> row.user, passwd |-> row.passwd]
Spoils(row) ==
  \/ row.passwd = None \/ row.sub = None
  \/ Len(row.user) >= UserLen \/ Len(row.passwd) >= UserLen
  \/ Len(row.main) >= MsgBufLen \/ Len(row.sub) >= MsgBufLen

\* malloc, the row, list_append.
NewNode(id, stream, row, status, phase) ==
  LET device == load_device_ip_port_cb(row) IN
  [id |-> id, stream |-> stream, status |-> status, phase |-> phase,
   main |-> device.main, sub |-> device.sub, user |-> device.user, passwd |-> device.passwd,
   realm |-> <<>>, nonce |-> <<>>, sdp |-> NoFields,
   url |-> <<>>, response |-> <<>>,    \* of the last DESCRIBE
   answer |-> NoAnswer, intact |-> TRUE]  \* what it answered, as it was read

\* A device that is not listed: found by the id as it is stored afterwards.
Create(r, id, status, phase) ==
  /\ Len(nodes) < MaxNodes
  /\ id \in DOMAIN Rows
  /\ IF Spoils(Rows[id])
     THEN Fault("load_device_ip_port_cb") /\ UNCHANGED nodes
     ELSE LET k == Len(nodes) + 1 IN
          /\ nodes'  = Append(nodes, NewNode(id, r.stream, Rows[id], status, phase))
          /\ listed' = listed \cup {k}
          /\ UNCHANGED fault

\* A device that is listed gets one more viewer (see RelayServer).
Join(k) == k \in listed /\ UNCHANGED vars

\* open_video stores, and looks up in the database, the id as it came.
deal_open_video_cmd(r) ==
  /\ Runs /\ r.cmd = "open_video"
  /\ \/ \E k \in Seek(Decoded(r.id), r.stream) :
          nodes[k].status \in {"CONNECTED", "CONNECTING"} /\ Join(k)
     \/ Seek(Decoded(r.id), r.stream) = {} /\ Create(r, r.id, "CONNECTING", "connecting")

\* push_stream uses the decoded id throughout, and asks for no SDP.
push_stream(r) ==
  /\ Runs /\ r.cmd = "play"
  /\ \/ \E k \in Seek(Decoded(r.id), r.stream) : Join(k)
     \/ Seek(Decoded(r.id), r.stream) = {} /\ Create(r, Decoded(r.id), "zero", "none")

-----------------------------------------------------------------------------
(* The exchange with the camera of node k.                                   *)

\* The URL of a DESCRIBE: the main one for the main stream, or when there is no
\* other.
DescribeUrl(n) == IF n.stream = 0 \/ n.sub = <<>> THEN n.main ELSE n.sub

\* active_connect_eventcb: connected, so DESCRIBE with the basic authentication.
Connected(k) ==
  /\ Runs
  /\ nodes[k].phase = "connecting"
  /\ nodes' = [nodes EXCEPT ![k].phase = "basic", ![k].url = DescribeUrl(nodes[k])]
  /\ UNCHANGED <<listed, fault>>

\* list_delete.  Mutant: the node stays.
StillListed(k) == listed
Unlisted(k) == listed \ {k}

\* active_connect_eventcb: anything else.
Lost(k) ==
  /\ Runs
  /\ nodes[k].phase \in {"connecting", "basic", "digest"}
  /\ nodes'  = [nodes EXCEPT ![k].phase = "closed", ![k].status = "DISCONNECT"]
  /\ listed' = Unlisted(k)
  /\ UNCHANGED fault

\* The connection is closed and the description, whatever it is, gone through.
Describe(k, a, intact) ==
  LET heard == [nodes[k] EXCEPT !.phase = "closed", !.answer = a, !.intact = intact] IN
  IF Breaks(a.sdp)
  THEN nodes' = [nodes EXCEPT ![k] = heard] /\ Fault("analysis_sdp_info")
  ELSE /\ nodes' = [nodes EXCEPT ![k] =
                      [heard EXCEPT !.sdp = analysis_sdp_info(a.sdp, @), !.status = "CONNECTED"]]
       /\ UNCHANGED <<listed, fault>>

GiveUp(k) ==
  /\ nodes' = [nodes EXCEPT ![k].phase = "closed"]
  /\ UNCHANGED <<listed, fault>>

\* The WWW-Authenticate value is read after the parser that holds it is freed:
\* it may still be there, or not.
Freed(auth) == {auth, <<>>}

\* DESCRIBE again, with what the challenge asks for.
AnswerChallenge(k, a, seen) ==
  LET n     == nodes[k]
      found == get_realm_and_nonce(seen)
  IN
  CASE found.broke   -> nodes' = nodes /\ Fault("get_realm_and_nonce")
    [] found.ret < 0 -> GiveUp(k)
    [] OTHER ->
         /\ nodes' = [nodes EXCEPT ![k] =
              [n EXCEPT !.phase = "digest", !.realm = found.realm, !.nonce = found.nonce,
                        !.url = DescribeUrl(n), !.answer = a, !.intact = (seen = a.auth),
                        !.response = get_response(n.user, n.passwd, found.realm, found.nonce,
                                                  WordDescribe, DescribeUrl(n))]]
         /\ UNCHANGED <<listed, fault>>

\* code 0 stands for an answer the parser does not accept, or only a part of one.
read_dev_sdp_basic_cb(k, a) ==
  /\ Runs
  /\ nodes[k].phase = "basic"
  /\ CASE a.code \notin {200, 401} -> GiveUp(k)
       [] a.code = 401 /\ a.auth = None -> GiveUp(k)
       [] a.code = 401 /\ a.auth # None ->
            \E seen \in Freed(a.auth) :
              IF Strchr(seen, 1, WordDigest) # 0
              THEN AnswerChallenge(k, a, seen)
              ELSE Describe(k, a, seen = a.auth)
       [] a.code = 200 -> Describe(k, a, TRUE)

\* No parser here: what has arrived is taken for the description.
read_dev_sdp_digest_cb(k, a) ==
  /\ Runs
  /\ nodes[k].phase = "digest"
  /\ Describe(k, a, TRUE)

Next ==
  \/ \E r \in Requests : deal_open_video_cmd(r) \/ push_stream(r)
  \/ \E k \in DOMAIN nodes :
       \/ Connected(k)
       \/ Lost(k)
       \/ \E a \in Answers : read_dev_sdp_basic_cb(k, a) \/ read_dev_sdp_digest_cb(k, a)

Spec == Init /\ [][Next]_vars

-----------------------------------------------------------------------------
(* Type invariant.                                                           *)

Statuses == {"CONNECTED", "CONNECTING", "DISCONNECT", "zero"}
Phases   == {"connecting", "basic", "digest", "closed", "none"}

\* Every node has a status and a phase; only nodes that exist are listed, and
\* none whose camera is lost.
TypeOK ==
  /\ Len(nodes) <= MaxNodes
  /\ \A k \in DOMAIN nodes : nodes[k].status \in Statuses /\ nodes[k].phase \in Phases
  /\ listed \subseteq {k \in DOMAIN nodes : nodes[k].status # "DISCONNECT"}
  /\ fault \in {"none", "load_device_ip_port_cb", "get_realm_and_nonce", "analysis_sdp_info"}

-----------------------------------------------------------------------------
(* Safety.                                                                   *)

\* What url_encode makes of the id of a new device, given room, url_decode turns
\* back into it; and without room it never writes more than there is.
RoundTrip ==
  \A k \in DOMAIN nodes : LET id == nodes[k].id IN nodes[k].phase = "connecting" =>
    \A room \in 0..(3 * Len(id) + 1) :
      LET coded == url_encode(id, Len(id), room) IN
      /\ Len(coded.target) <= room
      /\ coded.r = 0 /\ Len(coded.target) < room =>
           url_decode(coded.target, -1, MaxIdLen).target = id

\* An id that needs no escape is listed once per stream, and whoever asks for it
\* gets that device and no other.  (An id with escapes is stored as it came and
\* looked up decoded: asked for twice it is listed twice, and an id whose escape
\* is malformed is looked up cut short.)
Plain(id) == \A i \in DOMAIN id : id[i] \notin {Plus, Percent}
PlainIdsServed ==
  /\ \A j, k \in listed :
       /\ nodes[j].id = nodes[k].id /\ nodes[j].stream = nodes[k].stream
       /\ Plain(nodes[j].id)
       => j = k
  /\ \A r \in Requests : Plain(r.id) =>
       \A k \in Seek(Decoded(r.id), r.stream) : nodes[k].id = r.id /\ nodes[k].stream = r.stream

\* The response to a challenge is the one the camera computes from the realm and
\* the nonce it sent and the URL it is asked for: the values are cut out of the
\* challenge, the texts printed, padded, counted and hashed as they must be.
\* It takes a realm and a nonce that are not empty and fit their fields, texts that
\* fit msg_buf, and a challenge that is still there when it is read.
FitsMsgBuf(n) ==
  /\ Len(n.user) + Len(n.answer.realm) + Len(n.passwd) + 2 < MsgBufLen
  /\ Len(n.url) + 2 < MsgBufLen
  /\ HexLen + Len(n.answer.nonce) + HexLen + 2 < MsgBufLen
FitsFields(n) == Len(n.answer.realm) < RealmLen /\ Len(n.answer.nonce) < NonceLen
ChallengeMet ==
  \A k \in DOMAIN nodes : LET n == nodes[k] IN
    /\ n.phase = "digest" /\ n.intact /\ FitsMsgBuf(n) /\ FitsFields(n)
    /\ n.answer.realm # <<>> /\ n.answer.nonce # <<>>
    => n.response = Expected(n.user, n.passwd, n.answer.realm, n.answer.nonce,
                             WordDescribe, n.url)

\* The same digest comes of a text in one piece and in three: chap_auth, here of
\* what a challenge gives.
PiecesAlike ==
  \A k \in DOMAIN nodes : LET n == nodes[k] IN n.phase = "digest" =>
    chap_auth(Quote, n.answer.realm, n.main) =
      Padded(<<Quote>> \o n.answer.realm \o n.main)

\* A camera that describes itself in the customary form, with lines that fit the
\* fields, is described so to the viewers: the format, its rate and its parameters are those
\* of the video section, whatever other sections come before and after.
Described(sdp, f) ==
  \E k \in DOMAIN sdp.lines :
    /\ sdp.lines[k].kind = "m=video" /\ f.m_video = sdp.lines[k].text
    /\ Gives(sdp, k, "a=rtpmap", f.a_rtpmap_video)
    /\ Gives(sdp, k, "a=fmtp", f.a_fmtp_video)
    /\ \E j \in Section(sdp, k) :
         sdp.lines[j].kind = "a=rtpmap" /\ sdp.lines[j].rate = f.iVideoFrameRate
VideoDescribed ==
  \A k \in DOMAIN nodes : LET n == nodes[k] IN
    n.status = "CONNECTED" /\ Customary(n.answer.sdp) => Described(n.answer.sdp, n.sdp)

\* Nor does such a description ever break the callback that reads it.
CustomaryRead ==
  fault = "analysis_sdp_info" => \E k \in DOMAIN nodes : ~ Customary(nodes[k].answer.sdp)

=============================================================================
