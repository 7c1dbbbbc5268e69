------------------------------ MODULE SdpInfo ------------------------------
(***************************************************************************)
(* analysis_sdp_info: the lines it takes from a camera's session           *)
(* description.  A description is a sequence of lines [kind, text, rate,   *)
(* size] and whether its last line is ended; kind is the attribute a line  *)
(* starts with, rate the number behind its first slash (None: no slash),   *)
(* and size the number of its characters.                                  *)
(***************************************************************************)
EXTENDS Naturals, Sequences, SequencesExt

CONSTANTS
  None,       \* no slash; NULL
  FieldSize   \* how large the field is that a line of each kind is copied to

ASSUME SdpAssumption ==
  FieldSize \in [{"m=video", "a=rtpmap", "a=rtpmap_audio", "a=fmtp", "m=audio"} -> Nat]

SdpLine == [kind : STRING, text : STRING, rate : Nat \cup {None}, size : Nat]

\* The fields of the device node.  "" is what memset leaves, "NULL" what the
\* code writes when there is no such section.
NoFields ==
  [m_video |-> "", a_rtpmap_video |-> "", iVideoFrameRate |-> 0, a_fmtp_video |-> "",
   m_audio |-> "", a_rtpmap_audio |-> ""]

\* strstr over the lines from position from on: the position of the first hit,
\* or 0.
Hits(lines, from, Matches(_)) == {k \in from..Len(lines) : Matches(lines[k])}
Find(lines, from, Matches(_)) ==
  IF Hits(lines, from, Matches) = {} THEN 0
  ELSE CHOOSE k \in Hits(lines, from, Matches) :
         \A j \in Hits(lines, from, Matches) : k <= j

\* "\r\n" follows line k.  Mutant: the last line never counts as ended.
EndedInside(sdp, k) == k < Len(sdp.lines)
Ended(sdp, k) == k < Len(sdp.lines) \/ sdp.ended

\* The positions the code works with.  The searches for the attributes start at
\* the media line and do not stop at the next one.
VideoAt(sdp)  == Find(sdp.lines, 1, LAMBDA l : l.kind = "m=video")
\* Mutant: the search starts at the top.
RtpmapFromTop(sdp) == Find(sdp.lines, 1, LAMBDA l : l.kind \in {"a=rtpmap", "a=rtpmap_audio"})
RtpmapAt(sdp) == Find(sdp.lines, VideoAt(sdp), LAMBDA l : l.kind \in {"a=rtpmap", "a=rtpmap_audio"})
RateAt(sdp)   == Find(sdp.lines, RtpmapAt(sdp), LAMBDA l : l.rate # None)
FmtpAt(sdp)   == Find(sdp.lines, RtpmapAt(sdp), LAMBDA l : l.kind = "a=fmtp")
AudioAt(sdp)  == Find(sdp.lines, 1, LAMBDA l : l.kind = "m=audio")
RtpmapAudioAt(sdp) == Find(sdp.lines, AudioAt(sdp), LAMBDA l : l.kind = "a=rtpmap_audio")

\* strncpy of the line at k, a line that must be ended and leave room for the NUL
\* of the field, which was zeroed: the size given is the line's, not the field's.
Copied(sdp, k, old) == IF k = 0 THEN old ELSE sdp.lines[k].text
Fits(l) == l.kind \in DOMAIN FieldSize => l.size < FieldSize[l.kind]
Taken(sdp, k) == Ended(sdp, k) /\ Fits(sdp.lines[k])

\* A null pointer is searched or subtracted: no attribute after the video line,
\* no slash, a line that is cut short.  Or a line fills its field, and runs into
\* the fields behind it.
Breaks(sdp) ==
  \/ /\ VideoAt(sdp) # 0
     /\ \/ RtpmapAt(sdp) = 0 \/ RateAt(sdp) = 0
        \/ \E k \in {VideoAt(sdp), RtpmapAt(sdp), FmtpAt(sdp)} \ {0} : ~ Taken(sdp, k)
  \/ /\ AudioAt(sdp) # 0
     /\ \E k \in {AudioAt(sdp), RtpmapAudioAt(sdp)} \ {0} : ~ Taken(sdp, k)

VideoFields(sdp, f) ==
  IF VideoAt(sdp) = 0
  THEN [f EXCEPT !.m_video = "NULL", !.a_rtpmap_video = "NULL", !.a_fmtp_video = "NULL"]
  ELSE [f EXCEPT
          !.m_video         = Copied(sdp, VideoAt(sdp), @),
          !.a_rtpmap_video  = Copied(sdp, RtpmapAt(sdp), @),
          !.iVideoFrameRate = sdp.lines[RateAt(sdp)].rate,
          !.a_fmtp_video    = Copied(sdp, FmtpAt(sdp), @)]

AudioFields(sdp, f) ==
  IF AudioAt(sdp) = 0
  THEN [f EXCEPT !.m_audio = "NULL", !.a_rtpmap_audio = "NULL"]
  ELSE [f EXCEPT
          !.m_audio        = Copied(sdp, AudioAt(sdp), @),
          !.a_rtpmap_audio = Copied(sdp, RtpmapAudioAt(sdp), @)]

\* The fields of a node that were f before; defined unless Breaks(sdp).
analysis_sdp_info(sdp, f) == AudioFields(sdp, VideoFields(sdp, f))

-----------------------------------------------------------------------------
\* What RFC 4566 says of a description: an attribute belongs to the media line
\* before it.
IsMedia(l) == l.kind \in {"m=video", "m=audio"}
Section(sdp, k) ==
  {j \in k..Len(sdp.lines) : \A i \in (k + 1)..j : ~ IsMedia(sdp.lines[i])}

\* The section at line k gives attribute kind exactly this text.
Gives(sdp, k, kind, text) ==
  {sdp.lines[j].text : j \in {i \in Section(sdp, k) : sdp.lines[i].kind = kind}} = {text}

\* The customary form: the video section, which is not last in mid-line, has a
\* format with a rate and then its parameters.  No line is longer than expected.
Customary(sdp) ==
  /\ sdp.ended /\ \A j \in DOMAIN sdp.lines : Fits(sdp.lines[j])
  /\ \E k \in DOMAIN sdp.lines :
       /\ sdp.lines[k].kind = "m=video"
       /\ \A j \in DOMAIN sdp.lines : sdp.lines[j].kind = "m=video" => j = k
       /\ \E r, f \in Section(sdp, k) :
            /\ r < f
            /\ sdp.lines[r].kind = "a=rtpmap" /\ sdp.lines[r].rate # None
            /\ sdp.lines[f].kind = "a=fmtp"
            /\ \A j \in Section(sdp, k) :
                 /\ sdp.lines[j].kind \in {"a=rtpmap", "a=rtpmap_audio"} => j = r
                 /\ sdp.lines[j].kind = "a=fmtp"   => j = f
=============================================================================
