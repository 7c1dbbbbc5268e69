----------------------------- MODULE ViewerSpec -----------------------------
(***************************************************************************)
(* What the push client promises to the viewers of its cameras, whatever   *)
(* its threads, lists and connections do: how a viewer gets from asking to *)
(* watching, and how a camera session begins, serves and ends.             *)
(*                                                                         *)
(* A viewer is fresh until its command is read; then it waits for the      *)
(* session's SDP, has been informed of it, or watches; a viewer in none of *)
(* these places has been turned away or has left, for good.  RelayServer   *)
(* implements this specification as long as nobody asks for HLS: push_stream *)
(* connects out for its viewer without waiting for any SDP.                *)
(***************************************************************************)
CONSTANTS Viewer, Session

VARIABLES
  phase,     \* session -> "none", "asking" (for the SDP), "open", "closed"
  offered,   \* the sessions that a new viewer finds
  fresh,     \* the viewers that have not asked for anything yet
  waiting,   \* session -> the viewers that wait for its SDP
  informed,  \* session -> the viewers that know it and may connect
  watching   \* session -> the viewers it sends frames to

vars == <<phase, offered, fresh, waiting, informed, watching>>

Init ==
  /\ phase    = [n \in Session |-> "none"]
  /\ offered  = {}
  /\ fresh    = Viewer
  /\ waiting  = [n \in Session |-> {}]
  /\ informed = [n \in Session |-> {}]
  /\ watching = [n \in Session |-> {}]

Enters(place, n, c) == [place EXCEPT ![n] = @ \cup {c}]
Leaves(place, n, c) == [place EXCEPT ![n] = @ \ {c}]
Empties(place, n)   == [place EXCEPT ![n] = {}]

\* A viewer asks for a camera nobody has asked for: a session begins by asking
\* the camera for the SDP.
Begin(n, c) ==
  /\ phase[n] = "none" /\ c \in fresh
  /\ fresh'   = fresh \ {c}
  /\ offered' = offered \cup {n}
  /\ phase'   = [phase EXCEPT ![n] = "asking"]
  /\ waiting' = Enters(waiting, n, c)
  /\ UNCHANGED <<informed, watching>>

\* A viewer asks for the camera of a session on offer.
Join(n, c) ==
  /\ n \in offered /\ c \in fresh
  /\ fresh' = fresh \ {c}
  /\ \/ phase[n] = "asking" /\ waiting' = Enters(waiting, n, c) /\ UNCHANGED informed
     \/ phase[n] = "open" /\ informed' = Enters(informed, n, c) /\ UNCHANGED waiting
  /\ UNCHANGED <<phase, offered, watching>>

TurnAway(c) ==
  /\ c \in fresh
  /\ fresh' = fresh \ {c}
  /\ UNCHANGED <<phase, offered, waiting, informed, watching>>

\* The SDP goes to all who wait for it, at once.
Answer(n) ==
  /\ phase[n] = "asking"
  /\ phase'    = [phase EXCEPT ![n] = "open"]
  /\ informed' = [informed EXCEPT ![n] = @ \cup waiting[n]]
  /\ waiting'  = Empties(waiting, n)
  /\ UNCHANGED <<offered, fresh, watching>>

\* The camera does not answer: the session is withdrawn, its waiters are gone.
Fail(n) ==
  /\ phase[n] = "asking"
  /\ phase'   = [phase EXCEPT ![n] = "closed"]
  /\ offered' = offered \ {n}
  /\ waiting' = Empties(waiting, n)
  /\ UNCHANGED <<fresh, informed, watching>>

\* Only an informed viewer watches, and only a session that is open.
Watch(n, c) ==
  /\ phase[n] = "open" /\ c \in informed[n]
  /\ informed' = Leaves(informed, n, c)
  /\ watching' = Enters(watching, n, c)
  /\ UNCHANGED <<phase, offered, fresh, waiting>>

\* A viewer goes away; with the last one the session may be withdrawn.
Leave(n, c) ==
  /\ c \in informed[n] \cup watching[n]
  /\ informed' = Leaves(informed, n, c)
  /\ watching' = Leaves(watching, n, c)
  /\ \/ UNCHANGED offered
     \/ /\ watching'[n] = {} /\ waiting[n] = {}
        /\ offered' = offered \ {n}
  /\ UNCHANGED <<phase, fresh, waiting>>

\* The session ends, for whoever watches it.
Close(n) ==
  /\ phase[n] = "open"
  /\ phase'    = [phase EXCEPT ![n] = "closed"]
  /\ offered'  = offered \ {n}
  /\ watching' = Empties(watching, n)
  /\ UNCHANGED <<fresh, waiting, informed>>

Next ==
  \/ \E c \in Viewer : TurnAway(c)
  \/ \E n \in Session : Answer(n) \/ Fail(n) \/ Close(n)
  \/ \E n \in Session : \E c \in Viewer :
       Begin(n, c) \/ Join(n, c) \/ Watch(n, c) \/ Leave(n, c)

Spec == Init /\ [][Next]_vars
=============================================================================
