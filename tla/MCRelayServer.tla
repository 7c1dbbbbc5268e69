--------------------------- MODULE MCRelayServer ---------------------------
(***************************************************************************)
(* RelayServer for TLC: what the connections ask for and the sets of       *)
(* events of the individual runs.                                          *)
(***************************************************************************)
EXTENDS RelayServer

ConnSymmetry == Permutations(Conn)

\* Every connection may ask for every device.
WantsAny == [c \in Conn |-> Dev]

\* Ids that url_decode leaves alone; one such id and its escaped spellings.
PlainIds   == [d \in Dev |-> d]
EscapedIds == [d \in Dev |-> CHOOSE plain \in Dev : TRUE]

\* RTSP viewers only, and everything that can go wrong for them.
RtspEvents == AllEvents \ {"play_hls"}

\* RTSP and HLS viewers, without the commands that leave everything alone.
RelayEvents == AllEvents \ {"forward", "bad_command"}

\* A camera that answers and streams; its viewers come and go as they like.
GoodCamera == RtspEvents \ {"db_missing", "dev_lost", "unusable", "open_fail", "read_fail"}

\* The one thing that goes wrong is the camera, on the way to the SDP.
DevFailure == {"open_video", "peer_lost", "db_found", "dev_lost"}
=============================================================================
