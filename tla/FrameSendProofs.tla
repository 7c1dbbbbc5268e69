-------------------------- MODULE FrameSendProofs --------------------------
(***************************************************************************)
(* What holds of FrameSend for every set of clients, every limit of the    *)
(* output buffer, every frame size below the modulus, and every number of  *)
(* frames.  First what appending to a stream and taking from a list do,    *)
(* then types, the list, the buffers, and last the streams.                *)
(***************************************************************************)
EXTENDS FrameSend, SequenceTheorems, TLAPS

-----------------------------------------------------------------------------
(* Streams and lists as sequences.                                           *)

\* What WholeFrames and NoGapBeforeDelta say of one stream s of frames fr.
Whole(s, fr) ==
  \A k \in 2..Len(s) :
    IF s[k].k = 0 THEN s[k - 1].k = fr[s[k - 1].n].size
                  ELSE s[k] = [n |-> s[k - 1].n, k |-> s[k - 1].k + 1]
NoGap(s, fr) ==
  \A k \in 2..Len(s) : s[k].k = 0 /\ ~ fr[s[k].n].key => s[k].n = s[k - 1].n + 1
Within(s, fr) == \A k \in 1..Len(s) : s[k].n \in 1..Len(fr)

\* The three together, and a key frame first if client c is one of E.
Sound(s, fr, c, E) ==
  /\ Whole(s, fr) /\ NoGap(s, fr) /\ Within(s, fr)
  /\ c \in E /\ s # <<>> => fr[s[1].n].key

\* A header added behind a complete frame keeps a stream sound if its frame is a
\* key frame, or the one after the last.
LEMMA HeaderSound ==
  ASSUME NEW s \in Seq(Chunk), NEW fr \in Seq(Frame), NEW n \in 1..Len(fr), NEW c, NEW E,
         Sound(s, fr, c, E),
         s # <<>> => s[Len(s)].k = fr[s[Len(s)].n].size,
         s # <<>> /\ ~ fr[n].key => s[Len(s)].n = n - 1,
         s = <<>> /\ c \in E => fr[n].key
  PROVE  Sound(Append(s, [n |-> n, k |-> 0]), fr, c, E)
<1> DEFINE h == [n |-> n, k |-> 0]  t == Append(s, h)
<1>1. h \in Chunk
  BY DEF Chunk
<1>2. /\ Len(t) = Len(s) + 1 /\ t[Len(s) + 1] = h /\ Len(s) \in Nat
      /\ \A k \in 1..Len(s) : t[k] = s[k]
      /\ s = <<>> <=> Len(s) = 0
  BY <1>1
<1>3. \A k \in 2..Len(t) : k = Len(s) + 1 \/ (k \in 2..Len(s) /\ k \in 1..Len(s))
  BY <1>2
<1>4. \A k \in 2..Len(t) : k - 1 \in 1..Len(s)
  BY <1>2
<1> HIDE DEF t
<1>5. Whole(t, fr)
  <2>1. ASSUME NEW k \in 2..Len(t), k = Len(s) + 1
        PROVE  t[k].k = 0 /\ t[k - 1].k = fr[t[k - 1].n].size
    <3>1. k - 1 = Len(s) /\ Len(s) \in 1..Len(s) /\ s # <<>>
      BY <1>2, <2>1
    <3> QED
      BY <1>2, <2>1, <3>1
  <2>2. ASSUME NEW k \in 2..Len(t), k \in 2..Len(s), k \in 1..Len(s)
        PROVE  t[k] = s[k] /\ t[k - 1] = s[k - 1]
    BY <1>2, <1>4, <2>2
  <2> QED
    BY <1>3, <2>1, <2>2 DEF Whole, Sound
<1>6. NoGap(t, fr)
  <2>1. ASSUME NEW k \in 2..Len(t), t[k].k = 0 /\ ~ fr[t[k].n].key
        PROVE  t[k].n = t[k - 1].n + 1
    <3>1. CASE k = Len(s) + 1
      <4>1. k - 1 = Len(s) /\ Len(s) \in 1..Len(s) /\ s # <<>>
        BY <1>2, <3>1
      <4>2. t[k - 1] = s[Len(s)] /\ t[k] = h /\ n - 1 + 1 = n
        BY <1>2, <3>1, <4>1
      <4> QED
        BY <2>1, <4>1, <4>2
    <3>2. CASE k \in 2..Len(s) /\ k \in 1..Len(s)
      <4>1. t[k] = s[k] /\ t[k - 1] = s[k - 1]
        BY <1>2, <1>4, <3>2
      <4> QED
        BY <2>1, <3>2, <4>1 DEF NoGap, Sound
    <3> QED
      BY <1>3, <3>1, <3>2
  <2> QED
    BY <2>1 DEF NoGap
<1>7. Within(t, fr)
  BY <1>2 DEF Within, Sound
<1>8. c \in E => fr[t[1].n].key
  BY <1>2 DEF Sound
<1> QED
  BY <1>5, <1>6, <1>7, <1>8 DEF Sound, t

\* What is queued is added to what the client will have received.
LEMMA HeaderLemma ==
  ASSUME NEW w \in Seq(Chunk), NEW o \in Seq(Chunk), NEW h \in Chunk
  PROVE  w \o Append(o, h) = Append(w \o o, h)
OBVIOUS

LEMMA QueueLemma ==
  ASSUME NEW w \in Seq(Chunk), NEW o \in Seq(Chunk), NEW P \in Seq(Chunk)
  PROVE  w \o (o \o P) = (w \o o) \o P
BY ConcatAssociative

\* The payload of a frame is a sequence of its chunks, as long as the frame.
LEMMA PayloadLemma ==
  ASSUME NEW n \in Nat, Size(n) \in Nat
  PROVE  /\ Payload(n) \in Seq(Chunk)
         /\ Len(Payload(n)) = Size(n)
         /\ \A k \in 1..Size(n) : Payload(n)[k] = [n |-> n, k |-> k]
<1>1. \A k \in 1..Size(n) : [n |-> n, k |-> k] \in Chunk
  BY DEF Chunk
<1>2. Payload(n) \in [1..Size(n) -> Chunk]
  BY <1>1 DEF Payload
<1>3. Payload(n) \in Seq(Chunk) /\ Len(Payload(n)) = Size(n)
  BY <1>2, LenProperties, IsASeq
<1>4. \A k \in 1..Size(n) : Payload(n)[k] = [n |-> n, k |-> k]
  BY DEF Payload
<1> QED
  BY <1>3, <1>4

\* The payload of the frame whose header a stream ends with completes it.
LEMMA PayloadSound ==
  ASSUME NEW s \in Seq(Chunk), NEW fr \in Seq(Frame), NEW n \in 1..Len(fr), NEW c, NEW E,
         NEW P \in Seq(Chunk), Len(P) = fr[n].size,
         \A k \in 1..Len(P) : P[k] = [n |-> n, k |-> k],
         Sound(s, fr, c, E), s # <<>>, s[Len(s)] = [n |-> n, k |-> 0]
  PROVE  /\ Sound(s \o P, fr, c, E)
         /\ s \o P # <<>>
         /\ (s \o P)[Len(s \o P)] = [n |-> n, k |-> fr[n].size]
<1> DEFINE t == s \o P
<1>1. fr[n].size \in Nat \ {0}
  <2>1. fr[n] \in Frame
    OBVIOUS
  <2> QED
    BY <2>1, SizeAssumption DEF Frame
<1>2. /\ Len(t) = Len(s) + Len(P) /\ Len(s) \in Nat \ {0} /\ Len(P) \in Nat \ {0}
      /\ \A k \in 1..Len(s) : t[k] = s[k]
      /\ \A k \in 1..Len(P) : t[Len(s) + k] = [n |-> n, k |-> k]
  <2>1. /\ Len(t) = Len(s) + Len(P) /\ Len(s) \in Nat \ {0} /\ Len(P) \in Nat \ {0}
        /\ \A k \in 1..Len(s) : t[k] = s[k]
    <3>1. Len(s) \in Nat \ {0} /\ Len(P) \in Nat \ {0}
      BY <1>1
    <3>2. Len(t) = Len(s) + Len(P)
      BY ConcatProperties
    <3>3. \A k \in 1..Len(s) : t[k] = s[k]
      BY <3>1
    <3> QED
      BY <3>1, <3>2, <3>3
  <2>2. \A k \in 1..Len(P) : t[Len(s) + k] = P[k]
    BY <2>1
  <2> QED
    BY <2>1, <2>2
<1> HIDE DEF t
<1>3. \A k \in 1..Len(t) : k \notin 1..Len(s) =>
        /\ k - Len(s) \in 1..Len(P) /\ k - 1 \in 1..Len(t)
        /\ t[k] = [n |-> n, k |-> k - Len(s)]
        /\ t[k - 1] = [n |-> n, k |-> k - Len(s) - 1]
  <2> SUFFICES ASSUME NEW k \in 1..Len(t), k \notin 1..Len(s)
               PROVE  /\ k - Len(s) \in 1..Len(P) /\ k - 1 \in 1..Len(t)
                      /\ t[k] = [n |-> n, k |-> k - Len(s)]
                      /\ t[k - 1] = [n |-> n, k |-> k - Len(s) - 1]
    OBVIOUS
  <2> DEFINE j == k - Len(s)
  <2>1. j \in 1..Len(P) /\ k = Len(s) + j /\ k - 1 \in 1..Len(t)
    BY <1>2
  <2>2. t[k] = [n |-> n, k |-> j]
    BY <1>2, <2>1
  <2>3. CASE j = 1
    <3>1. k - 1 = Len(s) /\ Len(s) \in 1..Len(s)
      BY <1>2, <2>3
    <3>2. t[k - 1] = [n |-> n, k |-> 0]
      BY <1>2, <3>1
    <3> QED
      BY <2>1, <2>2, <2>3, <3>2
  <2>4. CASE j # 1
    <3> DEFINE l == j - 1
    <3>1. l \in 1..Len(P) /\ k - 1 = Len(s) + l
      BY <1>2, <2>1, <2>4
    <3>2. \A q \in 1..Len(P) : t[Len(s) + q] = [n |-> n, k |-> q]
      BY <1>2
    <3> HIDE DEF l
    <3>3. t[k - 1] = [n |-> n, k |-> l]
      BY <3>1, <3>2
    <3> QED
      BY <2>1, <2>2, <3>3 DEF l
  <2> QED
    BY <2>3, <2>4
<1>4. \A k \in 2..Len(t) : k \in 1..Len(t) /\ (k \in 1..Len(s) => k \in 2..Len(s) /\ k - 1 \in 1..Len(s))
  BY <1>2
<1>5. Whole(t, fr)
  <2> SUFFICES ASSUME NEW k \in 2..Len(t)
               PROVE  IF t[k].k = 0 THEN t[k - 1].k = fr[t[k - 1].n].size
                                    ELSE t[k] = [n |-> t[k - 1].n, k |-> t[k - 1].k + 1]
    BY DEF Whole
  <2>1. CASE k \in 1..Len(s)
    BY <1>2, <1>4, <2>1 DEF Sound, Whole
  <2>2. CASE k \notin 1..Len(s)
    <3>1. /\ t[k] = [n |-> n, k |-> k - Len(s)] /\ k - Len(s) \in 1..Len(P)
          /\ t[k - 1] = [n |-> n, k |-> k - Len(s) - 1]
      BY <1>3, <1>4, <2>2
    <3> QED
      BY <1>2, <3>1
  <2> QED
    BY <2>1, <2>2
<1>6. NoGap(t, fr)
  <2> SUFFICES ASSUME NEW k \in 2..Len(t), t[k].k = 0, ~ fr[t[k].n].key
               PROVE  t[k].n = t[k - 1].n + 1
    BY DEF NoGap
  <2>1. k \in 1..Len(s)
    <3>1. k \in 1..Len(t)
      BY <1>4
    <3>2. k \notin 1..Len(s) => t[k] = [n |-> n, k |-> k - Len(s)] /\ k - Len(s) \in 1..Len(P)
      BY <1>3, <3>1
    <3>3. k \notin 1..Len(s) => t[k].k = k - Len(s) /\ k - Len(s) \in 1..Len(P)
      BY <3>2
    <3> QED
      BY <1>2, <3>3
  <2> QED
    BY <1>2, <1>4, <2>1 DEF Sound, NoGap
<1>7. Within(t, fr)
  <2> SUFFICES ASSUME NEW k \in 1..Len(t)
               PROVE  t[k].n \in 1..Len(fr)
    BY DEF Within
  <2>1. CASE k \in 1..Len(s)
    BY <1>2, <2>1 DEF Sound, Within
  <2>2. CASE k \notin 1..Len(s)
    <3>1. t[k] = [n |-> n, k |-> k - Len(s)]
      BY <1>3, <2>2
    <3> QED
      BY <3>1
  <2> QED
    BY <2>1, <2>2
<1>8. t[1] = s[1]
  BY <1>2
<1>9. t # <<>> /\ t[Len(t)] = [n |-> n, k |-> fr[n].size]
  <2>1. Len(P) \in 1..Len(P)
    BY <1>2
  <2> QED
    BY <1>1, <1>2, <2>1 DEF t
<1> QED
  BY <1>5, <1>6, <1>7, <1>8, <1>9 DEF Sound, t

\* One more frame leaves the frames before it, and so the streams of them, alone.
LEMMA FrameSound ==
  ASSUME NEW s \in Seq(Chunk), NEW fr \in Seq(Frame), NEW f \in Frame, NEW c, NEW E,
         Sound(s, fr, c, E)
  PROVE  Sound(s, Append(fr, f), c, E)
<1> DEFINE t == Append(fr, f)
<1>1. /\ Len(t) = Len(fr) + 1 /\ Len(fr) \in Nat
      /\ \A n \in 1..Len(fr) : t[n] = fr[n]
  OBVIOUS
<1>2. \A k \in 2..Len(s) : k \in 1..Len(s) /\ k - 1 \in 1..Len(s)
  OBVIOUS
<1>3. s # <<>> => 1 \in 1..Len(s)
  OBVIOUS
<1> HIDE DEF t
<1>4. \A k \in 1..Len(s) : t[s[k].n] = fr[s[k].n]
  BY <1>1 DEF Sound, Within
<1>5. Whole(s, t) /\ NoGap(s, t)
  BY <1>2, <1>4 DEF Sound, Whole, NoGap
<1>6. Within(s, t)
  BY <1>1 DEF Sound, Within
<1> QED
  BY <1>3, <1>4, <1>5, <1>6 DEF Sound, t

\* What has left the buffer is sound if the whole stream is.
LEMMA WireSound ==
  ASSUME NEW w \in Seq(Chunk), NEW o \in Seq(Chunk), NEW fr \in Seq(Frame), NEW c, NEW E,
         Sound(w \o o, fr, c, E)
  PROVE  Sound(w, fr, c, E)
<1> DEFINE t == w \o o
<1>1. /\ Len(t) = Len(w) + Len(o) /\ Len(w) \in Nat /\ Len(o) \in Nat
      /\ \A k \in 1..Len(w) : t[k] = w[k]
  OBVIOUS
<1>2. \A k \in 2..Len(w) : k \in 1..Len(w) /\ k - 1 \in 1..Len(w) /\ k \in 2..Len(t)
  BY <1>1
<1>3. \A k \in 1..Len(w) : k \in 1..Len(t)
  BY <1>1
<1>4. w # <<>> => t # <<>> /\ 1 \in 1..Len(w)
  BY <1>1
<1> HIDE DEF t
<1>5. Whole(w, fr) /\ NoGap(w, fr)
  BY <1>1, <1>2 DEF Sound, Whole, NoGap, t
<1>6. Within(w, fr)
  BY <1>1, <1>3 DEF Sound, Within, t
<1> QED
  BY <1>1, <1>4, <1>5, <1>6 DEF Sound, t

\* Sending the first chunk of a buffer moves it, and adds or loses none.
LEMMA FlushLemma ==
  ASSUME NEW w \in Seq(Chunk), NEW o \in Seq(Chunk), o # <<>>
  PROVE  /\ Append(w, Head(o)) \o Tail(o) = w \o o
         /\ Head(o) \in Chunk /\ Tail(o) \in Seq(Chunk) /\ Len(Tail(o)) = Len(o) - 1
<1>1. Head(o) \in Chunk /\ Tail(o) \in Seq(Chunk) /\ Len(Tail(o)) = Len(o) - 1
  OBVIOUS
<1>2. o = <<Head(o)>> \o Tail(o)
  OBVIOUS
<1>3. Append(w, Head(o)) = w \o <<Head(o)>>
  BY <1>1, AppendIsConcat
<1>4. (w \o <<Head(o)>>) \o Tail(o) = w \o (<<Head(o)>> \o Tail(o))
  BY <1>1, ConcatAssociative
<1> QED
  BY <1>1, <1>2, <1>3, <1>4

\* The entries of a list without the one at p.
LEMMA WithoutLemma ==
  ASSUME NEW s \in Seq(Client), NEW p \in DOMAIN s
  PROVE  /\ Without(s, p) \in Seq(Client)
         /\ Len(Without(s, p)) = Len(s) - 1
         /\ DOMAIN Without(s, p) = 1..(Len(s) - 1)
         /\ \A q \in 1..(Len(s) - 1) : Without(s, p)[q] = IF q < p THEN s[q] ELSE s[q + 1]
<1>1. Len(s) - 1 \in Nat /\ p \in 1..Len(s)
  OBVIOUS
<1>2. \A q \in 1..(Len(s) - 1) : (IF q < p THEN s[q] ELSE s[q + 1]) \in Client
  BY <1>1
<1>3. Without(s, p) \in [1..(Len(s) - 1) -> Client]
  BY <1>2 DEF Without
<1>4. Without(s, p) \in Seq(Client) /\ Len(Without(s, p)) = Len(s) - 1
  BY <1>1, <1>3, LenProperties, IsASeq
<1> QED
  BY <1>4 DEF Without

-----------------------------------------------------------------------------
(* Types.                                                                    *)

\* The frame being dealt with has a size between 1 and MaxSize.
LEMMA CurrentSize ==
  ASSUME TypeOK, frames # <<>>
  PROVE  /\ current \in 1..Len(frames) /\ current \in Nat
         /\ frames[current] \in Frame
         /\ Size(current) \in 1..MaxSize /\ Size(current) \in Nat
<1>1. current \in 1..Len(frames) /\ current \in Nat
  BY DEF TypeOK, current
<1>2. frames[current] \in Frame
  BY <1>1 DEF TypeOK
<1> QED
  BY <1>1, <1>2, SizeAssumption DEF Frame, Size

\* Reading a frame appends it to those read before.
LEMMA ReadLemma ==
  ASSUME TypeOK, NEW f \in Frame, frames' = Append(frames, f)
  PROVE  /\ frames' \in Seq(Frame) /\ Len(frames') = Len(frames) + 1
         /\ frames'[Len(frames')] = f /\ frames' # <<>>
<1>1. frames \in Seq(Frame) /\ Len(frames) \in Nat
  BY DEF TypeOK
<1>2. /\ frames' \in Seq(Frame) /\ Len(frames') = Len(frames) + 1
      /\ frames'[Len(frames) + 1] = f
  BY <1>1
<1> QED
  BY <1>1, <1>2

\* Taking a client from the list.
LEMMA TakenLemma ==
  ASSUME TypeOK, NEW p \in DOMAIN listRtspClient,
         listRtspClient' = Without(listRtspClient, p)
  PROVE  /\ listRtspClient' \in Seq(Client)
         /\ Len(listRtspClient') = Len(listRtspClient) - 1
         /\ Len(listRtspClient) \in Nat \ {0} /\ p \in 1..Len(listRtspClient)
         /\ DOMAIN listRtspClient' = 1..(Len(listRtspClient) - 1)
         /\ \A q \in DOMAIN listRtspClient' :
              listRtspClient'[q] = IF q < p THEN listRtspClient[q] ELSE listRtspClient[q + 1]
<1>1. listRtspClient \in Seq(Client) /\ Len(listRtspClient) \in Nat \ {0} /\ p \in 1..Len(listRtspClient)
  BY DEF TypeOK
<1> QED
  BY <1>1, WithoutLemma

\* What Serve(c) is about, in terms of the list.
LEMMA ServingLemma ==
  ASSUME TypeOK, NEW c \in Client, Serving(c)
  PROVE  i \in DOMAIN listRtspClient /\ listRtspClient[i] = c /\ i <= iClientNum
         /\ i \in 1..Len(listRtspClient)
BY DEF TypeOK, Serving

\* No step of the event loop leaves the types.
LEMMA TypeLoop ==
  ASSUME TypeOK, NEW c \in Client, Loop(c)
  PROVE  TypeOK'
<1>1. CASE AddViewer(c)
  <2>1. listRtspClient' \in Seq(Client)
    BY <1>1 DEF AddViewer, TypeOK
  <2> QED
    BY <1>1, <2>1 DEF AddViewer, TypeOK, States, reader
<1>2. CASE Join(c)
  BY <1>2 DEF Join, TypeOK, States, reader
<1>3. CASE Refuse(c)
  <2>1. listRtspClient' \in Seq(Client)
    BY <1>3, TakenLemma DEF Refuse
  <2> QED
    BY <1>3, <2>1 DEF Refuse, TypeOK, States, reader
<1>4. CASE Fail(c)
  BY <1>4 DEF Fail, TypeOK, States, reader
<1>5. CASE Flush(c)
  <2>1. Append(wire[c], Head(out[c])) \in Seq(Chunk) /\ Tail(out[c]) \in Seq(Chunk)
    BY <1>5, FlushLemma DEF Flush, TypeOK
  <2> QED
    BY <1>5, <2>1 DEF Flush, TypeOK, reader, client
<1> QED
  BY <1>1, <1>2, <1>3, <1>4, <1>5 DEF Loop

\* No step of the reader at a client leaves the types.
LEMMA TypeServe ==
  ASSUME TypeOK, NEW c \in Client, Serve(c)
  PROVE  TypeOK'
<1>1. CASE Drop(c)
  <2>1. listRtspClient' \in Seq(Client)
    BY <1>1, ServingLemma, TakenLemma DEF Drop
  <2>2. iClientNum' \in Nat /\ i' \in Nat \ {0}
    BY <1>1, ServingLemma DEF Drop, PlaceAfterDrop, TypeOK
  <2>3. <<>> \in Seq(Chunk)
    BY EmptySeq
  <2> QED
    BY <1>1, <2>1, <2>2, <2>3 DEF Drop, TypeOK, States
<1>2. CASE Pass(c)
  BY <1>2 DEF Pass, TypeOK, client
<1>3. CASE Measure(c)
  <2>1. Len(out[c]) \in Nat
    BY DEF TypeOK
  <2> QED
    BY <1>3, <2>1 DEF Measure, Used, TypeOK, client
<1>4. CASE Miss(c)
  BY <1>4 DEF Miss, evbuffer_drain, TypeOK, client
<1>5. CASE Skip(c)
  BY <1>5 DEF Skip, TypeOK, client
<1>6. CASE WriteHeader(c)
  <2>1. frames # <<>>
    BY <1>6 DEF WriteHeader, TypeOK
  <2>2. [n |-> current, k |-> 0] \in Chunk
    BY <2>1, CurrentSize DEF Chunk
  <2>3. Append(out[c], [n |-> current, k |-> 0]) \in Seq(Chunk)
    BY <2>2 DEF TypeOK
  <2> QED
    BY <1>6, <2>1, <2>3 DEF WriteHeader, TypeOK, client
<1>7. CASE WritePayload(c)
  <2>1. frames # <<>>
    BY <1>7 DEF WritePayload, TypeOK
  <2>2. Payload(current) \in Seq(Chunk)
    BY <2>1, CurrentSize, PayloadLemma
  <2>3. out[c] \o Payload(current) \in Seq(Chunk)
    BY <2>2 DEF TypeOK
  <2> QED
    BY <1>7, <2>3 DEF WritePayload, TypeOK, client
<1> QED
  BY <1>1, <1>2, <1>3, <1>4, <1>5, <1>6, <1>7 DEF Serve

\* No step leaves the types.
LEMMA TypeStep == TypeOK /\ Next => TypeOK'
<1> SUFFICES ASSUME TypeOK, Next
             PROVE  TypeOK'
  OBVIOUS
<1>1. ASSUME NEW f \in Frame, ReadFrame(f)
      PROVE  TypeOK'
  <2>1. frames' \in Seq(Frame) /\ frames' # <<>>
    BY <1>1, ReadLemma DEF ReadFrame
  <2>2. iIFlag' \in BOOLEAN
    BY <1>1, Zenon DEF ReadFrame
  <2>3. iClientNum' \in Nat
    BY <1>1 DEF ReadFrame, TypeOK
  <2> QED
    BY <1>1, <2>1, <2>2, <2>3 DEF ReadFrame, TypeOK, client
<1>2. CASE End
  BY <1>2 DEF End, TypeOK, client, reader
<1>3. CASE Lock
  BY <1>3 DEF Lock, TypeOK, client
<1>4. CASE PastTheEnd
  BY <1>4 DEF PastTheEnd, TypeOK, client, reader
<1>5. CASE Unlock
  BY <1>5 DEF Unlock, TypeOK, client, reader
<1> QED
  BY <1>1, <1>2, <1>3, <1>4, <1>5, TypeLoop, TypeServe DEF Next

\* Initially every variable has its type.
LEMMA TypeInit == Init => TypeOK
<1> SUFFICES ASSUME Init
             PROVE  TypeOK
  OBVIOUS
<1>1. <<>> \in Seq(Frame) /\ <<>> \in Seq(Chunk)
  BY EmptySeq
<1>2. <<>> \in Seq(Client)
  BY EmptySeq
<1>3. listRtspClient \in Seq(Client) /\ state \in [Client -> States] /\ early \subseteq Client
  BY <1>2 DEF Init, States
<1>4. /\ iMissFrameFlag \in [Client -> BOOLEAN] /\ iIFlag \in BOOLEAN
      /\ out \in [Client -> Seq(Chunk)] /\ wire \in [Client -> Seq(Chunk)]
  BY <1>1 DEF Init
<1> QED
  BY <1>1, <1>3, <1>4 DEF Init, TypeOK

\* Every variable has its type.
THEOREM TypeCorrect == Spec => []TypeOK
<1>1. TypeOK /\ UNCHANGED vars => TypeOK'
  BY DEF TypeOK, vars, client, reader
<1> QED
  BY TypeInit, <1>1, TypeStep, PTL DEF Spec

-----------------------------------------------------------------------------
(* The list of clients.                                                      *)

Listed(c) == state[c] \in {"listed", "sending", "failed"}

\* The list holds the listed clients, each once, and the reader is at one of
\* those that are sent to.
ListInv ==
  /\ \A p, q \in DOMAIN listRtspClient : listRtspClient[p] = listRtspClient[q] => p = q
  /\ \A p \in DOMAIN listRtspClient : Listed(listRtspClient[p])
  /\ \A c \in Client : Listed(c) => \E p \in DOMAIN listRtspClient : listRtspClient[p] = c
  /\ pc \in {"decide", "payload"} =>
       /\ i <= iClientNum /\ i <= Len(listRtspClient)
       /\ state[listRtspClient[i]] \in {"sending", "failed"}

\* Nothing has been sent to those that are not connected yet, nor to those that
\* were listed after the clients had been counted.
FreshInv ==
  /\ \A c \in Client : state[c] \in {"new", "listed"} => wire[c] = <<>> /\ out[c] = <<>> /\ c \notin early
  /\ pc \notin {"none", "read", "ended"} =>
       \A p \in DOMAIN listRtspClient : p > iClientNum =>
         /\ wire[listRtspClient[p]] = <<>> /\ out[listRtspClient[p]] = <<>>
         /\ listRtspClient[p] \notin early

\* The list with a client that was not in it.
LEMMA ListAdd ==
  ASSUME TypeOK, ListInv, NEW c \in Client, AddViewer(c)
  PROVE  ListInv'
<1>1. /\ pc \notin {"decide", "payload"} /\ pc' = pc
      /\ state' = [state EXCEPT ![c] = "listed"]
      /\ listRtspClient' = Append(listRtspClient, c)
  BY DEF AddViewer, Locked
<1>2. /\ listRtspClient \in Seq(Client) /\ Len(listRtspClient) \in Nat
      /\ DOMAIN listRtspClient = 1..Len(listRtspClient)
      /\ \A p \in DOMAIN listRtspClient : listRtspClient[p] # c /\ listRtspClient[p] \in Client
  <2>1. listRtspClient \in Seq(Client)
    BY DEF TypeOK
  <2>2. state[c] = "new"
    BY DEF AddViewer
  <2> QED
    BY <2>1, <2>2 DEF ListInv, Listed
<1>3. /\ DOMAIN listRtspClient' = 1..(Len(listRtspClient) + 1)
      /\ \A p \in DOMAIN listRtspClient : listRtspClient'[p] = listRtspClient[p]
      /\ listRtspClient'[Len(listRtspClient) + 1] = c
  BY <1>1, <1>2
<1>4. \A p, q \in DOMAIN listRtspClient' : listRtspClient'[p] = listRtspClient'[q] => p = q
  BY <1>2, <1>3 DEF ListInv
<1>5. \A d \in Client : Listed(d)' <=> Listed(d) \/ d = c
  BY <1>1 DEF Listed, TypeOK
<1>6. \A p \in DOMAIN listRtspClient' : Listed(listRtspClient[p])'
  BY <1>2, <1>3, <1>5 DEF ListInv
<1>7. \A d \in Client : Listed(d)' => \E p \in DOMAIN listRtspClient' : listRtspClient'[p] = d
  BY <1>2, <1>3, <1>5 DEF ListInv
<1> QED
  BY <1>1, <1>4, <1>6, <1>7 DEF ListInv

\* The list without one of its clients.
LEMMA ListTake ==
  ASSUME TypeOK, ListInv, NEW p \in DOMAIN listRtspClient, pc' \notin {"decide", "payload"},
         state' = [state EXCEPT ![listRtspClient[p]] = "gone"],
         listRtspClient' = Without(listRtspClient, p)
  PROVE  /\ ListInv'
         /\ \A d \in Client : Listed(d)' <=> Listed(d) /\ d # listRtspClient[p]
<1> DEFINE n == Len(listRtspClient)
<1>1. /\ n \in Nat \ {0} /\ p \in 1..n /\ DOMAIN listRtspClient = 1..n
      /\ DOMAIN listRtspClient' = 1..(n - 1)
      /\ \A q \in 1..(n - 1) :
           listRtspClient'[q] = IF q < p THEN listRtspClient[q] ELSE listRtspClient[q + 1]
  BY TakenLemma
<1>2. \A q \in 1..n : listRtspClient[q] \in Client
  BY DEF TypeOK
<1>3. \A d \in Client : Listed(d)' <=> Listed(d) /\ d # listRtspClient[p]
  BY <1>1, <1>2 DEF Listed, TypeOK
<1>8. DOMAIN listRtspClient = 1..n
  BY <1>1
<1> HIDE DEF n
<1>4. \A q, r \in 1..n : listRtspClient[q] = listRtspClient[r] => q = r
  BY <1>1 DEF ListInv
<1>5. \A q, r \in DOMAIN listRtspClient' : listRtspClient'[q] = listRtspClient'[r] => q = r
  <2> SUFFICES ASSUME NEW q \in 1..(n - 1), NEW r \in 1..(n - 1),
                      listRtspClient'[q] = listRtspClient'[r]
               PROVE  q = r
    BY <1>1
  <2> DEFINE at(k) == IF k < p THEN k ELSE k + 1
  <2>1. /\ at(q) \in 1..n /\ listRtspClient'[q] = listRtspClient[at(q)]
        /\ at(r) \in 1..n /\ listRtspClient'[r] = listRtspClient[at(r)]
    BY <1>1
  <2>2. at(q) = at(r)
    BY <1>4, <2>1
  <2> QED
    BY <1>1, <2>2
<1>6. \A q \in DOMAIN listRtspClient' : Listed(listRtspClient[q])'
  <2> SUFFICES ASSUME NEW q \in 1..(n - 1)
               PROVE  Listed(listRtspClient[q])'
    BY <1>1
  <2> DEFINE r == IF q < p THEN q ELSE q + 1
  <2>1. r \in 1..n /\ r # p /\ listRtspClient'[q] = listRtspClient[r]
    BY <1>1
  <2> QED
    BY <1>1, <1>2, <1>3, <1>4, <2>1 DEF ListInv
<1>7. ASSUME NEW d \in Client, Listed(d)'
      PROVE  \E q \in DOMAIN listRtspClient' : listRtspClient'[q] = d
  <2>1. PICK r \in 1..n : listRtspClient[r] = d /\ r # p
    BY <1>1, <1>3, <1>7 DEF ListInv
  <2>2. CASE r < p
    <3>1. r \in 1..(n - 1) /\ listRtspClient'[r] = d
      BY <1>1, <2>1, <2>2
    <3> QED
      BY <1>1, <3>1
  <2>3. CASE ~ (r < p)
    <3>1. r - 1 \in 1..(n - 1) /\ ~ (r - 1 < p) /\ (r - 1) + 1 = r
      BY <1>1, <2>1, <2>3
    <3>2. listRtspClient'[r - 1] = d
      BY <1>1, <2>1, <3>1
    <3> QED
      BY <1>1, <3>1, <3>2
  <2> QED
    BY <2>2, <2>3
<1> QED
  BY <1>3, <1>5, <1>6, <1>7 DEF ListInv

\* No step breaks the list.
LEMMA ListStep == TypeOK /\ ListInv /\ Next => ListInv'
<1> SUFFICES ASSUME TypeOK, ListInv, Next
             PROVE  ListInv'
  OBVIOUS
<1>1. ASSUME NEW c \in Client, Join(c) \/ Fail(c)
      PROVE  ListInv'
  <2>1. \A d \in Client : Listed(d)' <=> Listed(d)
    BY <1>1 DEF Join, Fail, Listed, TypeOK
  <2>2. /\ UNCHANGED <<listRtspClient, i, iClientNum>>
        /\ pc' \in {"decide", "payload"} => pc' = pc
    BY <1>1 DEF Join, Fail, reader
  <2>3. \A d \in Client : state[d] \in {"sending", "failed"} => state'[d] \in {"sending", "failed"}
    BY <1>1 DEF Join, Fail, TypeOK
  <2>4. \A p \in DOMAIN listRtspClient : listRtspClient[p] \in Client
    BY DEF TypeOK
  <2>5. pc \in {"decide", "payload"} => i \in DOMAIN listRtspClient
    BY DEF ListInv, TypeOK
  <2> QED
    BY <2>1, <2>2, <2>3, <2>4, <2>5 DEF ListInv
<1>2. ASSUME NEW c \in Client, Refuse(c)
      PROVE  ListInv'
  BY <1>2, ListTake DEF Refuse, Locked
<1>3. ASSUME NEW c \in Client, Drop(c)
      PROVE  ListInv'
  BY <1>3, ListTake, ServingLemma DEF Drop
<1>4. ASSUME NEW c \in Client, Measure(c)
      PROVE  ListInv'
  BY <1>4 DEF Measure, Serving, ListInv, Listed, client
<1>5. ASSUME NEW c \in Client, WriteHeader(c)
      PROVE  ListInv'
  BY <1>5 DEF WriteHeader, ListInv, Listed, client
<1>6. ASSUME UNCHANGED <<listRtspClient, state>>, pc' \notin {"decide", "payload"}
      PROVE  ListInv'
  BY <1>6 DEF ListInv, Listed
<1>7. ASSUME NEW c \in Client, Flush(c)
      PROVE  ListInv'
  BY <1>7 DEF Flush, ListInv, Listed, client, reader
<1>8. ASSUME NEW c \in Client, Loop(c)
      PROVE  ListInv'
  BY <1>1, <1>2, <1>7, <1>8, ListAdd DEF Loop
<1>9. ASSUME NEW c \in Client, Serve(c)
      PROVE  ListInv'
  BY <1>3, <1>4, <1>5, <1>6, <1>9 DEF Serve, Pass, Miss, Skip, WritePayload, client
<1>10. ASSUME NEW f \in Frame, ReadFrame(f)
       PROVE  ListInv'
  <2>1. UNCHANGED <<listRtspClient, state>> /\ pc' \in {"read", "lock"}
    BY <1>10, Zenon DEF ReadFrame, client
  <2> QED
    BY <1>6, <2>1
<1> QED
  BY <1>6, <1>8, <1>9, <1>10 DEF Next, End, Lock, PastTheEnd, Unlock, client

\* Where the clients that stay are in the list when one has been taken from it.
LEMMA StaysLemma ==
  ASSUME TypeOK, NEW p \in DOMAIN listRtspClient, NEW c \in Client,
         listRtspClient' = Without(listRtspClient, p)
  PROVE  (\E q \in DOMAIN listRtspClient' : q >= p /\ listRtspClient'[q] = c)
         <=> (\E q \in DOMAIN listRtspClient : q > p /\ listRtspClient[q] = c)
<1> DEFINE n == Len(listRtspClient)
<1>1. /\ n \in Nat \ {0} /\ p \in 1..n /\ DOMAIN listRtspClient = 1..n
      /\ DOMAIN listRtspClient' = 1..(n - 1)
      /\ \A q \in 1..(n - 1) :
           listRtspClient'[q] = IF q < p THEN listRtspClient[q] ELSE listRtspClient[q + 1]
  BY TakenLemma
<1> HIDE DEF n
<1>2. ASSUME NEW q \in DOMAIN listRtspClient, q > p, listRtspClient[q] = c
      PROVE  \E r \in DOMAIN listRtspClient' : r >= p /\ listRtspClient'[r] = c
  <2>1. q - 1 \in 1..(n - 1) /\ ~ (q - 1 < p) /\ (q - 1) + 1 = q /\ q - 1 >= p
    BY <1>1, <1>2
  <2>2. listRtspClient'[q - 1] = c
    BY <1>1, <1>2, <2>1
  <2> QED
    BY <1>1, <2>1, <2>2
<1>3. ASSUME NEW q \in DOMAIN listRtspClient', q >= p, listRtspClient'[q] = c
      PROVE  \E r \in DOMAIN listRtspClient : r > p /\ listRtspClient[r] = c
  <2>1. q + 1 \in 1..n /\ ~ (q < p) /\ q + 1 > p
    BY <1>1, <1>3
  <2>2. listRtspClient[q + 1] = c
    BY <1>1, <1>3, <2>1
  <2> QED
    BY <1>1, <2>1, <2>2
<1> QED
  BY <1>2, <1>3

\* Nothing was ever sent to c, nor could it have been before the stream opened.
Empty(c) == wire[c] = <<>> /\ out[c] = <<>> /\ c \notin early

\* A step that sends nothing to those that have got nothing.
LEMMA FreshKept ==
  ASSUME TypeOK, FreshInv,
         \A c \in Client : Empty(c) /\ state'[c] \in {"new", "listed"} => Empty(c)',
         \A c \in Client : state'[c] \in {"new", "listed"} => state[c] \in {"new", "listed"},
         pc' \notin {"none", "read", "ended"} =>
           \A p \in DOMAIN listRtspClient' : p > iClientNum' =>
             listRtspClient'[p] \in Client /\ Empty(listRtspClient[p])'
  PROVE  FreshInv'
BY DEF FreshInv, Empty

\* No step sends anything to those that are not connected or not counted.
LEMMA FreshLoop ==
  ASSUME TypeOK, ListInv, FreshInv, pc \notin {"none", "read", "ended"} => iIFlag,
         NEW c \in Client, Loop(c)
  PROVE  FreshInv'
<1>1. /\ \A d \in Client : state[d] \in {"new", "listed"} => Empty(d)
      /\ pc \notin {"none", "read", "ended"} =>
           \A p \in DOMAIN listRtspClient : p > iClientNum => Empty(listRtspClient[p])
  BY DEF FreshInv, Empty
<1>2. /\ listRtspClient \in Seq(Client) /\ Len(listRtspClient) \in Nat /\ iClientNum \in Nat
      /\ DOMAIN listRtspClient = 1..Len(listRtspClient)
      /\ \A p \in DOMAIN listRtspClient : listRtspClient[p] \in Client
  <2>1. listRtspClient \in Seq(Client) /\ iClientNum \in Nat
    BY DEF TypeOK
  <2> QED
    BY <2>1
<1>3. CASE AddViewer(c)
  <2>1. /\ \A d \in Client : Empty(d)' <=> Empty(d)
        /\ \A d \in Client : state'[d] \in {"new", "listed"} => state[d] \in {"new", "listed"}
        /\ iClientNum' = iClientNum /\ pc' = pc
    BY <1>3 DEF AddViewer, Empty, TypeOK, reader
  <2>2. /\ DOMAIN listRtspClient' = 1..(Len(listRtspClient) + 1)
        /\ \A p \in 1..Len(listRtspClient) : listRtspClient'[p] = listRtspClient[p]
        /\ listRtspClient'[Len(listRtspClient) + 1] = c
    BY <1>2, <1>3 DEF AddViewer
  <2>3. Empty(c)
    BY <1>1, <1>3 DEF AddViewer
  <2>4. pc' \notin {"none", "read", "ended"} =>
          \A p \in DOMAIN listRtspClient' : p > iClientNum' =>
            listRtspClient'[p] \in Client /\ Empty(listRtspClient[p])'
    <3> SUFFICES ASSUME pc \notin {"none", "read", "ended"},
                        NEW p \in DOMAIN listRtspClient', p > iClientNum
                 PROVE  listRtspClient'[p] \in Client /\ Empty(listRtspClient[p])'
      BY <2>1
    <3>1. listRtspClient'[p] \in Client /\ Empty(listRtspClient'[p])
      BY <1>1, <1>2, <2>2, <2>3
    <3> QED
      BY <1>3, <3>1 DEF AddViewer, Empty
  <2> QED
    BY <2>1, <2>4, FreshKept
<1>4. CASE Join(c) \/ Fail(c) \/ Flush(c)
  <2>1. /\ \A d \in Client : Empty(d) /\ d # c => Empty(d)'
        /\ \A d \in Client : state'[d] \in {"new", "listed"} => state[d] \in {"new", "listed"} /\ d # c
        /\ UNCHANGED <<listRtspClient, iClientNum>>
        /\ pc' \notin {"none", "read", "ended"} => pc \notin {"none", "read", "ended"}
    <3>1. CASE Join(c) \/ Fail(c)
      BY <3>1 DEF Join, Fail, Empty, TypeOK, reader
    <3>2. CASE Flush(c)
      BY <3>2 DEF Flush, Empty, TypeOK, reader, client
    <3> QED
      BY <1>4, <3>1, <3>2
  <2>2. Empty(c) /\ pc \notin {"none", "read", "ended"} => Empty(c)'
    BY <1>4 DEF Join, Fail, Flush, Empty, reader, client
  <2> QED
    BY <1>1, <1>2, <2>1, <2>2, FreshKept
<1>5. CASE Refuse(c)
  <2>1. /\ \A d \in Client : Empty(d)' <=> Empty(d)
        /\ \A d \in Client : state'[d] \in {"new", "listed"} => state[d] \in {"new", "listed"}
        /\ iClientNum' = iClientNum /\ pc' = pc
    BY <1>5 DEF Refuse, Empty, TypeOK, reader
  <2>2. PICK p \in DOMAIN listRtspClient : listRtspClient' = Without(listRtspClient, p)
    BY <1>5 DEF Refuse
  <2>3. \A q \in DOMAIN listRtspClient' : q > iClientNum =>
          \E r \in DOMAIN listRtspClient : r > iClientNum /\ listRtspClient'[q] = listRtspClient[r]
    <3> SUFFICES ASSUME NEW q \in DOMAIN listRtspClient', q > iClientNum
                 PROVE  \E r \in DOMAIN listRtspClient : r > iClientNum /\ listRtspClient'[q] = listRtspClient[r]
      OBVIOUS
    <3>1. /\ q \in 1..(Len(listRtspClient) - 1)
          /\ listRtspClient'[q] = IF q < p THEN listRtspClient[q] ELSE listRtspClient[q + 1]
      BY <2>2, TakenLemma
    <3>2. q \in DOMAIN listRtspClient /\ q + 1 \in DOMAIN listRtspClient /\ q + 1 > iClientNum
      BY <1>2, <3>1
    <3> QED
      BY <3>1, <3>2
  <2>4. pc \notin {"none", "read", "ended"} =>
          \A q \in DOMAIN listRtspClient' : q > iClientNum =>
            listRtspClient'[q] \in Client /\ Empty(listRtspClient'[q])
    BY <1>1, <1>2, <2>3
  <2>5. pc' \notin {"none", "read", "ended"} =>
          \A q \in DOMAIN listRtspClient' : q > iClientNum' =>
            listRtspClient'[q] \in Client /\ Empty(listRtspClient[q])'
    BY <1>5, <2>1, <2>4 DEF Refuse, Empty
  <2> QED
    BY <2>1, <2>5, FreshKept
<1> QED
  BY <1>3, <1>4, <1>5 DEF Loop

LEMMA FreshServe ==
  ASSUME TypeOK, ListInv, FreshInv, NEW c \in Client, Serve(c)
  PROVE  FreshInv'
<1>1. /\ \A d \in Client : state[d] \in {"new", "listed"} => Empty(d)
      /\ \A p \in DOMAIN listRtspClient : p > iClientNum => Empty(listRtspClient[p])
  BY DEF FreshInv, Empty, Serve, Drop, Pass, Measure, Miss, Skip, WriteHeader, WritePayload
<1>2. /\ iClientNum \in Nat /\ Len(listRtspClient) \in Nat
      /\ DOMAIN listRtspClient = 1..Len(listRtspClient)
      /\ \A p \in DOMAIN listRtspClient : listRtspClient[p] \in Client
  <2>1. listRtspClient \in Seq(Client) /\ iClientNum \in Nat
    BY DEF TypeOK
  <2> QED
    BY <2>1
<1>3. i \in DOMAIN listRtspClient /\ listRtspClient[i] = c /\ i <= iClientNum /\ i \in Nat
  BY ServingLemma DEF Serve, Drop, Pass, Measure, Miss, Skip, WriteHeader, WritePayload, TypeOK
<1>4. CASE Drop(c)
  <2>1. /\ \A d \in Client : Empty(d) => Empty(d)'
        /\ \A d \in Client : state'[d] \in {"new", "listed"} => state[d] \in {"new", "listed"}
        /\ iClientNum' = iClientNum - 1
        /\ listRtspClient' = Without(listRtspClient, i)
    BY <1>4 DEF Drop, Empty, TypeOK
  <2>2. ASSUME NEW q \in DOMAIN listRtspClient', q > iClientNum - 1
        PROVE  listRtspClient'[q] \in Client /\ Empty(listRtspClient'[q])
    <3>1. /\ q \in 1..(Len(listRtspClient) - 1)
          /\ listRtspClient'[q] = IF q < i THEN listRtspClient[q] ELSE listRtspClient[q + 1]
      BY <1>3, <2>1, TakenLemma
    <3>2. ~ (q < i) /\ q + 1 \in DOMAIN listRtspClient /\ q + 1 > iClientNum
      BY <1>2, <1>3, <2>2, <3>1
    <3> QED
      BY <1>1, <1>2, <3>1, <3>2
  <2>3. \A q \in DOMAIN listRtspClient' : q > iClientNum' =>
          listRtspClient'[q] \in Client /\ Empty(listRtspClient[q])'
    <3> SUFFICES ASSUME NEW q \in DOMAIN listRtspClient', q > iClientNum - 1
                 PROVE  listRtspClient'[q] \in Client /\ Empty(listRtspClient[q])'
      BY <2>1
    <3>1. wire[listRtspClient'[q]] = <<>> /\ out[listRtspClient'[q]] = <<>>
          /\ listRtspClient'[q] \notin early /\ listRtspClient'[q] \in Client
      BY <2>2 DEF Empty
    <3> QED
      BY <1>4, <3>1 DEF Drop, Empty, TypeOK
  <2> QED
    BY <2>1, <2>3, FreshKept
<1>5. CASE Pass(c) \/ Measure(c) \/ Miss(c) \/ Skip(c)
  <2>1. UNCHANGED <<listRtspClient, state, early, iClientNum, wire>>
    BY <1>5 DEF Pass, Measure, Miss, Skip, client
  <2>2. out' = out
    BY <1>5 DEF Pass, Measure, Miss, Skip, evbuffer_drain, TypeOK
  <2> QED
    BY <1>1, <1>2, <2>1, <2>2, FreshKept DEF Empty
<1>6. CASE WriteHeader(c) \/ WritePayload(c)
  <2>1. UNCHANGED <<listRtspClient, state, early, iClientNum, wire>>
    BY <1>6 DEF WriteHeader, WritePayload, client
  <2>2. \A d \in Client : d # c => out'[d] = out[d]
    BY <1>6 DEF WriteHeader, WritePayload, TypeOK
  <2>3. state[c] \in {"sending", "failed"}
    BY <1>3, <1>6 DEF WriteHeader, WritePayload, ListInv
  <2>4. \A p \in DOMAIN listRtspClient : p > iClientNum => listRtspClient[p] # c
    BY <1>2, <1>3 DEF ListInv
  <2> QED
    BY <1>1, <1>2, <2>1, <2>2, <2>3, <2>4, FreshKept DEF Empty
<1> QED
  BY <1>4, <1>5, <1>6 DEF Serve

LEMMA FreshStep ==
  ASSUME TypeOK, ListInv, FreshInv, pc \notin {"none", "read", "ended"} => iIFlag, Next
  PROVE  FreshInv'
<1>1. \A p \in DOMAIN listRtspClient : listRtspClient[p] \in Client
  BY DEF TypeOK
<1>2. ASSUME NEW f \in Frame, ReadFrame(f)
      PROVE  FreshInv'
  <2>1. UNCHANGED <<listRtspClient, state, early, wire, out>> /\ pc' \in {"read", "lock"}
    BY <1>2, Zenon DEF ReadFrame, client
  <2>2. pc' = "lock" => iClientNum' = Len(listRtspClient)
    BY <1>2 DEF ReadFrame
  <2>3. pc' = "lock" => \A p \in DOMAIN listRtspClient' : ~ (p > iClientNum')
    BY <2>1, <2>2 DEF TypeOK
  <2> QED
    BY <2>1, <2>3, FreshKept DEF Empty
<1>3. CASE End \/ PastTheEnd \/ Unlock
  <2>1. UNCHANGED <<state, early, wire, out>> /\ pc' \in {"read", "ended"}
    BY <1>3 DEF End, PastTheEnd, Unlock, client
  <2> QED
    BY <2>1, FreshKept DEF Empty
<1>4. CASE Lock
  <2>1. UNCHANGED <<listRtspClient, state, early, wire, out, iClientNum>> /\ pc = "lock"
    BY <1>4 DEF Lock, client
  <2>2. \A p \in DOMAIN listRtspClient : p > iClientNum => Empty(listRtspClient[p])
    BY <2>1 DEF FreshInv, Empty
  <2> QED
    BY <1>1, <2>1, <2>2, FreshKept DEF Empty
<1> QED
  BY <1>2, <1>3, <1>4, FreshLoop, FreshServe DEF Next

-----------------------------------------------------------------------------
(* The output buffers.                                                       *)

\* The length the reader measured bounds the buffer until the reader writes:
\* meanwhile the event loop can only have flushed some of it.
Measured == pc = "decide" => Len(out[listRtspClient[i]]) <= iWriteBufLen

\* No buffer grows, and the reader stays where it is or is not writing.
LEMMA BufferShrinks ==
  ASSUME TypeOK, ListInv, BufferBounded, Measured, iWriteBufLen' = iWriteBufLen,
         \A c \in Client : Len(out'[c]) <= Len(out[c]) /\ Len(out'[c]) \in Nat,
         \/ pc' \notin {"decide", "payload"}
         \/ UNCHANGED <<pc, listRtspClient, i, frames>>
  PROVE  BufferBounded' /\ Measured'
<1> USE SizeAssumption
<1>1. \A c \in Client : Len(out[c]) \in Nat
  BY DEF TypeOK
<1>2. pc \in {"decide", "payload"} => listRtspClient[i] \in Client
  BY DEF TypeOK, ListInv
<1>3. pc = "payload" => Size(current) \in Nat
  BY CurrentSize DEF TypeOK
<1>4. \A c \in Client : Len(out'[c]) <= Limit
  BY <1>1 DEF BufferBounded
<1>5. CASE pc' \notin {"decide", "payload"}
  BY <1>4, <1>5 DEF BufferBounded, Measured
<1>6. CASE UNCHANGED <<pc, listRtspClient, i, frames>>
  <2>1. Size(current)' = Size(current)
    BY <1>6 DEF Size, current
  <2>2. pc \in {"decide", "payload"} =>
          /\ Len(out'[listRtspClient[i]]) <= Len(out[listRtspClient[i]])
          /\ Len(out'[listRtspClient[i]]) \in Nat /\ Len(out[listRtspClient[i]]) \in Nat
    BY <1>1, <1>2
  <2>3. pc = "payload" => Len(out'[listRtspClient[i]]) + Size(current) <= Limit
    BY <1>3, <2>2 DEF BufferBounded
  <2>4. pc = "decide" => Len(out'[listRtspClient[i]]) <= iWriteBufLen
    BY <2>2 DEF Measured, TypeOK
  <2> QED
    BY <1>4, <1>6, <2>1, <2>3, <2>4 DEF BufferBounded, Measured
<1> QED
  BY <1>5, <1>6

\* No step overfills a buffer.
LEMMA BufferStep ==
  ASSUME TypeOK, ListInv, BufferBounded, Measured, Next
  PROVE  BufferBounded' /\ Measured'
<1> USE SizeAssumption
<1>1. (\A c \in Client : Len(out[c]) \in Nat) /\ iWriteBufLen \in Nat
  BY DEF TypeOK
<1>2. ASSUME NEW c \in Client, Loop(c)
      PROVE  BufferBounded' /\ Measured'
  <2>1. CASE Flush(c)
    <3>1. Len(Tail(out[c])) = Len(out[c]) - 1
      BY <2>1, FlushLemma DEF Flush, TypeOK
    <3>2. \A d \in Client : Len(out'[d]) <= Len(out[d]) /\ Len(out'[d]) \in Nat
      BY <1>1, <2>1, <3>1 DEF Flush, TypeOK
    <3> QED
      BY <2>1, <3>2, BufferShrinks DEF Flush, client, reader
  <2>2. CASE AddViewer(c) \/ Refuse(c)
    BY <1>1, <2>2, BufferShrinks DEF AddViewer, Refuse, Locked, reader
  <2>3. CASE Join(c) \/ Fail(c)
    BY <1>1, <2>3, BufferShrinks DEF Join, Fail, reader
  <2> QED
    BY <1>2, <2>1, <2>2, <2>3 DEF Loop
<1>3. ASSUME NEW c \in Client, Serve(c)
      PROVE  BufferBounded' /\ Measured'
  <2> USE <1>3
  <2>1. i \in DOMAIN listRtspClient /\ listRtspClient[i] = c
    BY ServingLemma DEF Serve, Drop, Pass, Measure, Miss, Skip, WriteHeader, WritePayload
  <2>2. CASE Drop(c)
    <3>1. \A d \in Client : Len(out'[d]) <= Len(out[d]) /\ Len(out'[d]) \in Nat
      BY <1>1, <2>2 DEF Drop, TypeOK
    <3> QED
      BY <2>2, <3>1, BufferShrinks DEF Drop
  <2>3. CASE Pass(c) \/ Skip(c)
    BY <1>1, <2>3, BufferShrinks DEF Pass, Skip
  <2>4. CASE Measure(c)
    BY <1>1, <2>1, <2>4 DEF Measure, Used, BufferBounded, Measured, client
  <2>5. CASE Miss(c)
    <3>1. out' = out
      BY <2>5 DEF Miss, evbuffer_drain, TypeOK
    <3> QED
      BY <1>1, <2>5, <3>1, BufferShrinks DEF Miss
  <2>6. CASE WriteHeader(c)
    <3>1. /\ frames # <<>> /\ ~ Full /\ pc = "decide" /\ pc' = "payload"
          /\ UNCHANGED <<listRtspClient, i, iWriteBufLen, frames>>
      BY <2>6 DEF WriteHeader, TypeOK, client
    <3>2. Size(current) \in Nat /\ Size(current)' = Size(current)
      BY <3>1, CurrentSize DEF Size, current
    <3>3. Limit - iWriteBufLen \in 0..(Modulus - 1)
      BY <1>1 DEF BufferBounded
    <3>4. (Limit - iWriteBufLen) % Modulus = Limit - iWriteBufLen
      BY <3>3
    <3>5. iWriteBufLen + Size(current) + 1 <= Limit
      BY <1>1, <3>1, <3>2, <3>3, <3>4 DEF Full
    <3>6. Len(out'[c]) = Len(out[c]) + 1 /\ Len(out[c]) <= iWriteBufLen
      BY <2>1, <2>6, <3>1 DEF WriteHeader, TypeOK, Measured
    <3>7. \A d \in Client : d # c => out'[d] = out[d]
      BY <2>6 DEF WriteHeader, TypeOK
    <3>8. \A d \in Client : Len(out'[d]) <= Limit
      BY <1>1, <3>2, <3>5, <3>6, <3>7 DEF BufferBounded
    <3>9. Len(out'[c]) + Size(current) <= Limit
      BY <1>1, <3>2, <3>5, <3>6
    <3> QED
      BY <2>1, <3>1, <3>2, <3>8, <3>9 DEF BufferBounded, Measured
  <2>7. CASE WritePayload(c)
    <3>1. frames # <<>> /\ pc = "payload" /\ pc' = "serve" /\ iWriteBufLen' = iWriteBufLen
      BY <2>7 DEF WritePayload, TypeOK
    <3>2. Payload(current) \in Seq(Chunk) /\ Len(Payload(current)) = Size(current)
      BY <3>1, CurrentSize, PayloadLemma
    <3>3. Len(out'[c]) = Len(out[c]) + Size(current)
      <4>1. out'[c] = out[c] \o Payload(current) /\ out[c] \in Seq(Chunk)
        BY <2>7 DEF WritePayload, TypeOK
      <4>2. Len(out[c] \o Payload(current)) = Len(out[c]) + Len(Payload(current))
        BY <3>2, <4>1
      <4> QED
        BY <3>2, <4>1, <4>2
    <3>4. \A d \in Client : d # c => out'[d] = out[d]
      BY <2>7 DEF WritePayload, TypeOK
    <3> QED
      BY <1>1, <2>1, <3>1, <3>3, <3>4 DEF BufferBounded, Measured
  <2> QED
    BY <2>2, <2>3, <2>4, <2>5, <2>6, <2>7 DEF Serve
<1>4. ASSUME NEW f \in Frame, ReadFrame(f)
      PROVE  BufferBounded' /\ Measured'
  <2>1. UNCHANGED <<out, iWriteBufLen>> /\ pc' \in {"read", "lock"}
    BY <1>4, Zenon DEF ReadFrame
  <2> QED
    BY <1>1, <2>1, BufferShrinks
<1>5. CASE End \/ Lock \/ PastTheEnd \/ Unlock
  <2>1. UNCHANGED <<out, iWriteBufLen>> /\ pc' \in {"read", "ended", "serve"}
    BY <1>5 DEF End, Lock, PastTheEnd, Unlock, reader
  <2> QED
    BY <1>1, <2>1, BufferShrinks
<1> QED
  BY <1>2, <1>3, <1>4, <1>5 DEF Next

\* The list keeps its shape.
THEOREM ListInvHolds == Spec => []ListInv
<1>1. Init => ListInv
  BY DEF Init, ListInv, Listed
<1>2. ListInv /\ UNCHANGED vars => ListInv'
  BY DEF ListInv, Listed, vars, client, reader
<1> QED
  BY TypeCorrect, <1>1, <1>2, ListStep, PTL DEF Spec

\* No output buffer ever exceeds its limit, and the unsigned difference in
\* the test for room never wraps, whatever the sizes of the frames.
THEOREM BufferBoundedHolds == Spec => []BufferBounded
<1>1. Init => BufferBounded /\ Measured
  BY SizeAssumption DEF Init, BufferBounded, Measured
<1>2. TypeOK /\ ListInv /\ BufferBounded /\ Measured /\ Next => BufferBounded' /\ Measured'
  BY BufferStep
<1>3. BufferBounded /\ Measured /\ UNCHANGED vars => BufferBounded' /\ Measured'
  BY DEF BufferBounded, Measured, vars, client, reader, current, Size
<1> QED
  BY TypeCorrect, ListInvHolds, <1>1, <1>2, <1>3, PTL DEF Spec

-----------------------------------------------------------------------------
(* The streams.                                                              *)

\* Whether the reader is half way through sending the current frame to client c.
Now(c) == pc = "payload" /\ listRtspClient[i] = c

\* Whether the reader has still to come to client c with the current frame.
Due(c) ==
  \/ pc = "lock"
  \/ pc \in {"serve", "decide"} /\ \E p \in DOMAIN listRtspClient : p >= i /\ listRtspClient[p] = c
  \/ pc = "payload" /\ \E p \in DOMAIN listRtspClient : p > i /\ listRtspClient[p] = c

\* The chunk the stream of a client ends with.
Last(c) == stream(c)[Len(stream(c))]

\* A stream ends with a header where the reader is about to add the payload, and
\* with a complete frame elsewhere.
Aligned(c) ==
  /\ Now(c) => stream(c) # <<>> /\ Last(c) = [n |-> current, k |-> 0]
  /\ Listed(c) /\ stream(c) # <<>> /\ ~ Now(c) => Last(c).k = frames[Last(c).n].size

\* As long as nothing has been lost, a stream ends with the current frame, or
\* with the one before where the reader has still to come.
Consecutive(c) ==
  pc # "ended" /\ Listed(c) /\ stream(c) # <<>> /\ ~ iMissFrameFlag[c] =>
    Last(c).n = IF Due(c) THEN current - 1 ELSE current

\* An early client that has got nothing yet has missed a frame, or is still to
\* be served, and with a key frame.
Awaiting(c) ==
  pc # "ended" /\ iIFlag /\ c \in early /\ Listed(c) /\ stream(c) = <<>> /\ ~ iMissFrameFlag[c] =>
    Due(c) /\ frames[current].key

StreamAt(c) ==
  /\ Sound(stream(c), frames, c, early)
  /\ stream(c) # <<>> => iIFlag
  /\ Aligned(c) /\ Consecutive(c) /\ Awaiting(c)

\* The reader deals with frames once the stream is open only.
OpenInv == pc \notin {"none", "read", "ended"} => iIFlag

StreamInv ==
  /\ TypeOK /\ ListInv /\ FreshInv /\ OpenInv
  /\ \A c \in Client : StreamAt(c)

\* What a client receives is a sequence of chunks.
LEMMA StreamType ==
  ASSUME TypeOK, NEW c \in Client
  PROVE  stream(c) \in Seq(Chunk) /\ wire[c] \in Seq(Chunk) /\ out[c] \in Seq(Chunk)
BY DEF TypeOK, stream

\* A step after which a client's stream, and where the reader is with respect to
\* it, are what they were, as far as the invariant speaks of them.
LEMMA StreamStays ==
  ASSUME NEW d \in Client, StreamAt(d),
         UNCHANGED <<stream(d), frames, iIFlag>>,
         d \in early' => d \in early \/ (stream(d) = <<>> /\ ~ iIFlag),
         /\ pc' # "ended" /\ Listed(d)' /\ ~ iMissFrameFlag'[d]
         /\ stream(d) # <<>> \/ d \in early
         => pc # "ended" /\ Listed(d) /\ ~ iMissFrameFlag[d] /\ (Due(d)' <=> Due(d)),
         stream(d) # <<>> /\ Listed(d)' => Listed(d) /\ (Now(d) => Now(d)'),
         Now(d)' => Now(d)
  PROVE  StreamAt(d)'
<1>1. UNCHANGED <<Last(d), current>>
  BY DEF Last, current
<1>2. Sound(stream(d)', frames', d, early')
  BY DEF StreamAt, Sound
<1>3. Aligned(d)'
  BY <1>1 DEF StreamAt, Aligned
<1>4. Consecutive(d)'
  BY <1>1 DEF StreamAt, Consecutive
<1>5. Awaiting(d)'
  BY <1>1 DEF StreamAt, Awaiting
<1> QED
  BY <1>2, <1>3, <1>4, <1>5 DEF StreamAt

\* Where the reader is with respect to a client depends on its place only, and a
\* reader that begins is at none.
LEMMA PlaceKept ==
  ASSUME pc' = pc \/ (pc = "none" /\ pc' = "read"), ~ Locked \/ UNCHANGED <<listRtspClient, i>>, NEW d
  PROVE  (Due(d)' <=> Due(d)) /\ (Now(d)' <=> Now(d))
BY DEF Due, Now, Locked

\* What the loop does to one client's connection, and to that of another.
LEMMA StreamLoop ==
  ASSUME StreamInv, NEW c \in Client, Loop(c), NEW d \in Client
  PROVE  StreamAt(d)'
<1>1. StreamAt(d)
  BY DEF StreamInv
<1>2. /\ wire[d] \in Seq(Chunk) /\ out[d] \in Seq(Chunk)
      /\ UNCHANGED <<frames, iIFlag, iMissFrameFlag>>
      /\ pc' = pc \/ (pc = "none" /\ pc' = "read")
      /\ ~ Locked \/ UNCHANGED <<listRtspClient, i>>
  BY StreamType DEF StreamInv, Loop, AddViewer, Join, Refuse, Fail, Flush, client, reader
<1>3. (Due(d)' <=> Due(d)) /\ (Now(d)' <=> Now(d))
  BY <1>2, PlaceKept
<1>4. stream(d)' = stream(d)
  <2>1. CASE Flush(c)
    <3>1. CASE d = c
      <4>1. out[c] # <<>> /\ wire'[c] = Append(wire[c], Head(out[c])) /\ out'[c] = Tail(out[c])
        BY <2>1 DEF Flush, StreamInv, TypeOK
      <4>2. Append(wire[c], Head(out[c])) \o Tail(out[c]) = wire[c] \o out[c]
        BY <1>2, <3>1, <4>1, FlushLemma, Zenon
      <4> QED
        BY <3>1, <4>1, <4>2, Zenon DEF stream
    <3>2. CASE d # c
      BY <2>1, <3>2 DEF Flush, stream, StreamInv, TypeOK
    <3> QED
      BY <3>1, <3>2
  <2>2. CASE ~ Flush(c)
    BY <2>2 DEF Loop, AddViewer, Join, Refuse, Fail, stream
  <2> QED
    BY <2>1, <2>2
<1>5. stream(d) # <<>> \/ d \in early => ~ (state[d] \in {"new", "listed"})
  BY <1>2 DEF StreamInv, FreshInv, stream
<1>6. Listed(d)' => Listed(d) \/ state[d] = "new"
  BY DEF Loop, AddViewer, Join, Refuse, Fail, Flush, client, Listed, StreamInv, TypeOK
<1>7. d \in early' => d \in early \/ (stream(d) = <<>> /\ ~ iIFlag)
  <2>1. CASE Join(c)
    BY <1>5, <2>1 DEF Join
  <2>2. CASE ~ Join(c)
    BY <2>2 DEF Loop, AddViewer, Refuse, Fail, Flush, client
  <2> QED
    BY <2>1, <2>2
<1> QED
  BY <1>1, <1>2, <1>3, <1>4, <1>5, <1>6, <1>7, StreamStays

\* The reader at another client.
LEMMA StreamOther ==
  ASSUME StreamInv, NEW c \in Client, Serve(c), NEW d \in Client, d # c
  PROVE  StreamAt(d)'
<1>1. StreamAt(d) /\ TypeOK /\ ListInv
  BY DEF StreamInv
<1>2. i \in DOMAIN listRtspClient /\ listRtspClient[i] = c /\ i \in Nat /\ DOMAIN listRtspClient \subseteq Nat
  BY <1>1, ServingLemma
     DEF Serve, Drop, Pass, Measure, Miss, Skip, WriteHeader, WritePayload, TypeOK
<1>3. UNCHANGED <<wire, early, frames, iIFlag>> /\ out'[d] = out[d] /\ state'[d] = state[d]
      /\ iMissFrameFlag'[d] = iMissFrameFlag[d]
  BY <1>1
     DEF Serve, Drop, Pass, Measure, Miss, Skip, WriteHeader, WritePayload, TypeOK, client
<1>4. UNCHANGED <<stream(d), Listed(d)>>
  BY <1>3 DEF stream, Listed
<1>5. ~ Now(d) /\ ~ Now(d)'
  BY <1>2 DEF Serve, Drop, Pass, Measure, Miss, Skip, WriteHeader, WritePayload, Now, client
<1>6. pc # "ended" /\ (Due(d)' <=> Due(d))
  <2>1. CASE Drop(c)
    <3>1. pc = "serve" /\ pc' = "serve" /\ i' = i /\ listRtspClient' = Without(listRtspClient, i)
      BY <2>1 DEF Drop, PlaceAfterDrop
    <3>2. (\E q \in DOMAIN listRtspClient' : q >= i /\ listRtspClient'[q] = d)
          <=> (\E q \in DOMAIN listRtspClient : q > i /\ listRtspClient[q] = d)
      BY <1>1, <1>2, <3>1, StaysLemma
    <3>3. (\E q \in DOMAIN listRtspClient : q > i /\ listRtspClient[q] = d)
          <=> (\E q \in DOMAIN listRtspClient : q >= i /\ listRtspClient[q] = d)
      BY <1>2
    <3> QED
      BY <3>1, <3>2, <3>3 DEF Due
  <2>2. CASE Pass(c) \/ Miss(c) \/ Skip(c) \/ WritePayload(c)
    <3>1. pc \in {"serve", "decide", "payload"} /\ pc' = "serve" /\ i' = i + 1
          /\ listRtspClient' = listRtspClient
      BY <2>2 DEF Pass, Miss, Skip, WritePayload, client
    <3>2. \A q \in DOMAIN listRtspClient : listRtspClient[q] = d =>
            (q >= i <=> q >= i + 1) /\ (q > i <=> q >= i + 1)
      BY <1>2
    <3> QED
      BY <3>1, <3>2 DEF Due
  <2>3. CASE Measure(c) \/ WriteHeader(c)
    <3>1. pc \in {"serve", "decide"} /\ pc' \in {"decide", "payload"}
          /\ UNCHANGED <<listRtspClient, i>>
      BY <2>3 DEF Measure, WriteHeader, client
    <3>2. \A q \in DOMAIN listRtspClient : listRtspClient[q] = d => (q >= i <=> q > i)
      BY <1>2
    <3> QED
      BY <3>1, <3>2 DEF Due
  <2> QED
    BY <2>1, <2>2, <2>3 DEF Serve
<1> QED
  BY <1>1, <1>3, <1>4, <1>5, <1>6, StreamStays

\* The reader sends a header.
LEMMA StreamHeader ==
  ASSUME StreamInv, NEW c \in Client, WriteHeader(c)
  PROVE  StreamAt(c)'
<1> DEFINE h == [n |-> current, k |-> 0]
<1>1. StreamAt(c) /\ TypeOK /\ ListInv /\ OpenInv
  BY DEF StreamInv
<1>2. /\ pc = "decide" /\ pc' = "payload" /\ Sendable(c) /\ frames # <<>>
      /\ UNCHANGED <<frames, iIFlag, wire, early, listRtspClient, state, i>>
      /\ out'[c] = Append(out[c], h) /\ ~ iMissFrameFlag'[c]
  BY <1>1 DEF WriteHeader, TypeOK, client
<1>3. i \in DOMAIN listRtspClient /\ listRtspClient[i] = c /\ i \in Nat /\ Listed(c)
  BY <1>1, <1>2, ServingLemma DEF WriteHeader, TypeOK, ListInv
<1>4. /\ current \in 1..Len(frames) /\ current \in Nat /\ frames \in Seq(Frame)
      /\ stream(c) \in Seq(Chunk) /\ wire[c] \in Seq(Chunk) /\ out[c] \in Seq(Chunk)
  BY <1>1, <1>2, CurrentSize, StreamType DEF TypeOK
<1>5. h \in Chunk
  BY <1>4 DEF Chunk
<1>6. stream(c)' = Append(stream(c), h)
  <2>1. wire[c] \o Append(out[c], h) = Append(wire[c] \o out[c], h)
    BY <1>4, <1>5, HeaderLemma, Zenon
  <2> QED
    BY <1>2, <2>1, Zenon DEF stream
<1>7. Due(c) /\ ~ Now(c) /\ Now(c)' /\ iIFlag
  BY <1>1, <1>2, <1>3 DEF Due, Now, OpenInv
<1>8. ~ frames[current].key => ~ iMissFrameFlag[c]
  BY <1>2 DEF Sendable
<1>9. /\ stream(c) # <<>> => Last(c).k = frames[Last(c).n].size
      /\ stream(c) # <<>> /\ ~ frames[current].key => Last(c).n = current - 1
      /\ stream(c) = <<>> /\ c \in early => frames[current].key
  BY <1>1, <1>2, <1>3, <1>7, <1>8 DEF StreamAt, Aligned, Consecutive, Awaiting
<1>10. Sound(Append(stream(c), h), frames, c, early)
  <2>1. Sound(stream(c), frames, c, early)
    BY <1>1 DEF StreamAt
  <2> HIDE DEF h
  <2> QED
    BY <1>4, <1>9, <2>1, HeaderSound DEF Last, h
<1>11. stream(c)' # <<>> /\ Last(c)' = h
  BY <1>4, <1>5, <1>6 DEF Last
<1>12. current' = current
  BY <1>2 DEF current
<1>13. ~ Due(c)'
  <2>1. \A p \in DOMAIN listRtspClient : listRtspClient[p] = c => p = i
    BY <1>1, <1>3 DEF ListInv
  <2> QED
    BY <1>2, <1>3, <2>1 DEF Due
<1>14. Aligned(c)' /\ Consecutive(c)' /\ Awaiting(c)'
  BY <1>7, <1>11, <1>12, <1>13 DEF Aligned, Consecutive, Awaiting
<1>15. Sound(stream(c)', frames', c, early')
  BY <1>2, <1>6, <1>10
<1> QED
  BY <1>2, <1>7, <1>14, <1>15 DEF StreamAt

\* The reader sends the payload.
LEMMA StreamPayload ==
  ASSUME StreamInv, NEW c \in Client, WritePayload(c)
  PROVE  StreamAt(c)'
<1> DEFINE P == Payload(current)
<1>1. StreamAt(c) /\ TypeOK /\ ListInv /\ OpenInv
  BY DEF StreamInv
<1>2. /\ pc = "payload" /\ pc' = "serve" /\ frames # <<>> /\ i' = i + 1
      /\ UNCHANGED <<frames, iIFlag, wire, early, listRtspClient, state>>
      /\ out'[c] = out[c] \o P
  BY <1>1 DEF WritePayload, TypeOK, client
<1>3. i \in DOMAIN listRtspClient /\ listRtspClient[i] = c /\ i \in Nat
  BY <1>1, <1>2, ServingLemma DEF WritePayload, TypeOK
<1>4. /\ current \in 1..Len(frames) /\ current \in Nat /\ frames \in Seq(Frame)
      /\ stream(c) \in Seq(Chunk) /\ wire[c] \in Seq(Chunk) /\ out[c] \in Seq(Chunk)
  BY <1>1, <1>2, CurrentSize, StreamType DEF TypeOK
<1>5. /\ P \in Seq(Chunk) /\ Len(P) = frames[current].size
      /\ \A k \in 1..Len(P) : P[k] = [n |-> current, k |-> k]
  BY <1>1, <1>2, CurrentSize, PayloadLemma DEF Size
<1> HIDE DEF P
<1>6. stream(c)' = stream(c) \o P
  <2>1. wire[c] \o (out[c] \o P) = (wire[c] \o out[c]) \o P
    BY <1>4, <1>5, QueueLemma, Zenon
  <2> QED
    BY <1>2, <2>1, Zenon DEF stream
<1>7. Now(c) /\ stream(c) # <<>> /\ Last(c) = [n |-> current, k |-> 0]
  BY <1>1, <1>2, <1>3 DEF StreamAt, Aligned, Now
<1>8. /\ Sound(stream(c) \o P, frames, c, early)
      /\ stream(c) \o P # <<>>
      /\ (stream(c) \o P)[Len(stream(c) \o P)] = [n |-> current, k |-> frames[current].size]
  <2>1. Sound(stream(c), frames, c, early)
    BY <1>1 DEF StreamAt
  <2>2. stream(c)[Len(stream(c))] = [n |-> current, k |-> 0]
    BY <1>7, Zenon DEF Last
  <2>3. /\ P \in Seq(Chunk) /\ Len(P) = frames[current].size
        /\ \A k \in 1..Len(P) : P[k] = [n |-> current, k |-> k]
        /\ stream(c) # <<>> /\ stream(c) \in Seq(Chunk) /\ frames \in Seq(Frame)
        /\ current \in 1..Len(frames)
    BY <1>4, <1>5, <1>7, Zenon
  <2> QED
    BY <2>1, <2>2, <2>3, PayloadSound
<1>9. stream(c)' # <<>> /\ Last(c)' = [n |-> current, k |-> frames[current].size]
  BY <1>6, <1>8 DEF Last
<1>10. current' = current /\ iIFlag
  BY <1>1, <1>2 DEF current, OpenInv
<1>11. ~ Now(c)'
  BY <1>2 DEF Now
<1>12. ~ Due(c)'
  <2>1. \A p \in DOMAIN listRtspClient : listRtspClient[p] = c => p = i
    BY <1>1, <1>3 DEF ListInv
  <2> QED
    BY <1>2, <1>3, <2>1 DEF Due
<1>13. Aligned(c)' /\ Consecutive(c)' /\ Awaiting(c)'
  BY <1>2, <1>9, <1>10, <1>11, <1>12 DEF Aligned, Consecutive, Awaiting
<1>14. Sound(stream(c)', frames', c, early')
  BY <1>2, <1>6, <1>8
<1> QED
  BY <1>2, <1>10, <1>13, <1>14 DEF StreamAt

\* The reader drops a client, and what its buffer holds.
LEMMA StreamDropped ==
  ASSUME StreamInv, NEW c \in Client, Drop(c)
  PROVE  StreamAt(c)'
<1>1. StreamAt(c) /\ TypeOK
  BY DEF StreamInv
<1>2. /\ pc' = "serve" /\ pc = "serve" /\ UNCHANGED <<frames, iIFlag, wire, early>>
      /\ state'[c] = "gone" /\ out'[c] = <<>>
  BY <1>1 DEF Drop, TypeOK
<1>3. /\ wire[c] \in Seq(Chunk) /\ out[c] \in Seq(Chunk) /\ frames \in Seq(Frame)
      /\ stream(c) = wire[c] \o out[c]
  BY <1>1, StreamType DEF TypeOK, stream
<1>4. stream(c)' = wire[c]
  BY <1>2, <1>3 DEF stream
<1>5. Sound(wire[c], frames, c, early)
  <2>1. Sound(wire[c] \o out[c], frames, c, early)
    BY <1>1, <1>3 DEF StreamAt
  <2> QED
    BY <1>3, <2>1, WireSound
<1>6. wire[c] # <<>> => stream(c) # <<>>
  BY <1>3
<1>7. ~ Listed(c)' /\ ~ Now(c)'
  BY <1>2 DEF Listed, Now
<1>8. Aligned(c)' /\ Consecutive(c)' /\ Awaiting(c)'
  BY <1>7 DEF Aligned, Consecutive, Awaiting
<1>9. Sound(stream(c)', frames', c, early')
  BY <1>2, <1>4, <1>5
<1>10. stream(c)' # <<>> => iIFlag'
  BY <1>1, <1>2, <1>4, <1>6 DEF StreamAt
<1> QED
  BY <1>8, <1>9, <1>10 DEF StreamAt

\* The reader at a client it sends nothing to.
LEMMA StreamUnserved ==
  ASSUME StreamInv, NEW c \in Client, Pass(c) \/ Measure(c) \/ Miss(c) \/ Skip(c)
  PROVE  StreamAt(c)'
<1>1. StreamAt(c) /\ TypeOK /\ FreshInv
  BY DEF StreamInv
<1>2. /\ UNCHANGED <<frames, iIFlag, wire, out, early, state, listRtspClient>>
      /\ pc \in {"serve", "decide"} /\ pc' \in {"serve", "decide"}
  BY <1>1 DEF Pass, Measure, Miss, Skip, evbuffer_drain, TypeOK, client
<1>3. UNCHANGED <<stream(c), Listed(c)>> /\ ~ Now(c) /\ ~ Now(c)'
  BY <1>2 DEF stream, Listed, Now
<1>4. CASE Pass(c)
  <2>1. stream(c) = <<>> /\ c \notin early
    BY <1>1, <1>4 DEF Pass, FreshInv, stream
  <2> QED
    BY <1>1, <1>2, <1>3, <2>1, StreamStays
<1>5. CASE Measure(c)
  <2>1. UNCHANGED <<iMissFrameFlag, i>>
    BY <1>5 DEF Measure
  <2>2. Due(c)' <=> Due(c)
    BY <1>2, <2>1 DEF Due
  <2> QED
    BY <1>1, <1>2, <1>3, <2>1, <2>2, StreamStays
<1>6. CASE Miss(c) \/ Skip(c)
  <2>1. iMissFrameFlag'[c]
    BY <1>1, <1>6 DEF Miss, Skip, Sendable, TypeOK
  <2> QED
    BY <1>1, <1>2, <1>3, <2>1, StreamStays
<1> QED
  BY <1>4, <1>5, <1>6

\* The reader reads a frame.
LEMMA StreamRead ==
  ASSUME StreamInv, NEW f \in Frame, ReadFrame(f), NEW c \in Client
  PROVE  StreamAt(c)'
<1>1. StreamAt(c) /\ TypeOK
  BY DEF StreamInv
<1>2. /\ pc = "read" /\ frames' = Append(frames, f) /\ (iIFlag' <=> iIFlag \/ Opens(f))
      /\ UNCHANGED <<wire, out, early, state, listRtspClient, iMissFrameFlag>>
      /\ iIFlag' => pc' = "lock"
      /\ ~ iIFlag' => pc' = "read"
  BY Zenon DEF ReadFrame, client
<1>3. /\ frames \in Seq(Frame) /\ stream(c) \in Seq(Chunk) /\ Len(frames) \in Nat
      /\ Len(frames') = Len(frames) + 1 /\ frames'[Len(frames')] = f
      /\ \A n \in 1..Len(frames) : frames'[n] = frames[n]
  BY <1>1, <1>2, StreamType, ReadLemma DEF TypeOK
<1>4. UNCHANGED <<stream(c), Last(c), Listed(c)>>
  BY <1>2 DEF stream, Last, Listed
<1>5. Sound(stream(c)', frames', c, early')
  <2>1. Sound(stream(c), frames, c, early)
    BY <1>1 DEF StreamAt
  <2>2. Sound(stream(c), Append(frames, f), c, early)
    BY <1>3, <2>1, FrameSound
  <2> QED
    BY <1>2, <1>4, <2>2
<1>6. stream(c) # <<>> => Last(c).n \in 1..Len(frames)
  <2>1. stream(c) # <<>> => Len(stream(c)) \in 1..Len(stream(c))
    BY <1>3
  <2> QED
    BY <1>1, <2>1 DEF StreamAt, Sound, Within, Last
<1>7. ~ Now(c) /\ ~ Now(c)' /\ ~ Due(c) /\ (iIFlag' => Due(c)')
  BY <1>2 DEF Now, Due
<1>8. Aligned(c)'
  BY <1>1, <1>3, <1>4, <1>6, <1>7 DEF StreamAt, Aligned
<1>9. current' = current + 1 /\ current \in Nat /\ frames'[current'] = f
  BY <1>3 DEF current
<1>10. stream(c) # <<>> => iIFlag
  BY <1>1 DEF StreamAt
<1>11. Consecutive(c)'
  <2>1. stream(c) # <<>> /\ Listed(c) /\ ~ iMissFrameFlag[c] => Last(c).n = current
    BY <1>1, <1>2, <1>7 DEF StreamAt, Consecutive
  <2>2. stream(c) # <<>> => Due(c)'
    BY <1>2, <1>7, <1>10
  <2> QED
    BY <1>2, <1>4, <1>9, <2>1, <2>2 DEF Consecutive
<1>12. Awaiting(c)'
  <2>1. c \in early /\ Listed(c) /\ stream(c) = <<>> /\ ~ iMissFrameFlag[c] => ~ iIFlag
    BY <1>1, <1>2, <1>7 DEF StreamAt, Awaiting
  <2>2. iIFlag' /\ ~ iIFlag => frames'[current'].key
    BY <1>2, <1>9 DEF Opens
  <2> QED
    BY <1>2, <1>4, <1>7, <2>1, <2>2 DEF Awaiting
<1> QED
  BY <1>2, <1>4, <1>5, <1>8, <1>10, <1>11, <1>12 DEF StreamAt

\* The reader's steps between clients.
LEMMA StreamBetween ==
  ASSUME StreamInv, End \/ Lock \/ PastTheEnd \/ Unlock, NEW c \in Client
  PROVE  StreamAt(c)'
<1>1. StreamAt(c) /\ TypeOK /\ ListInv /\ FreshInv
  BY DEF StreamInv
<1>2. /\ UNCHANGED <<frames, iIFlag, iMissFrameFlag, wire, out, early, state, listRtspClient>>
      /\ pc \in {"read", "lock", "serve"} /\ pc' \in {"ended", "serve", "read"}
  BY DEF End, Lock, PastTheEnd, Unlock, client, reader
<1>3. UNCHANGED <<stream(c), Listed(c)>> /\ ~ Now(c) /\ ~ Now(c)'
  BY <1>2 DEF stream, Listed, Now
<1>4. CASE End \/ PastTheEnd
  <2>1. pc' = "ended"
    BY <1>4 DEF End, PastTheEnd
  <2> QED
    BY <1>1, <1>2, <1>3, <2>1, StreamStays
<1>5. CASE Lock
  <2>1. pc = "lock" /\ pc' = "serve" /\ i' = 1
    BY <1>5 DEF Lock
  <2>2. Listed(c) => \E p \in DOMAIN listRtspClient : p >= 1 /\ listRtspClient[p] = c
    BY <1>1 DEF ListInv, TypeOK
  <2>3. Listed(c) => Due(c) /\ Due(c)'
    BY <1>2, <2>1, <2>2 DEF Due
  <2> QED
    BY <1>1, <1>2, <1>3, <2>1, <2>3, StreamStays
<1>6. CASE Unlock
  <2>1. pc = "serve" /\ pc' = "read" /\ i > iClientNum /\ i \in Nat /\ iClientNum \in Nat
    BY <1>1, <1>6 DEF Unlock, TypeOK
  <2>2. ~ Due(c)'
    BY <2>1 DEF Due
  <2>3. \A p \in DOMAIN listRtspClient : p >= i => p > iClientNum
    BY <1>1, <2>1 DEF TypeOK
  <2>4. Due(c) => stream(c) = <<>> /\ c \notin early
    BY <1>1, <2>1, <2>3 DEF Due, FreshInv, stream
  <2> QED
    BY <1>1, <1>2, <1>3, <2>1, <2>2, <2>4, StreamStays
<1> QED
  BY <1>4, <1>5, <1>6

\* No step breaks a stream.
LEMMA StreamStep == StreamInv /\ Next => StreamInv'
<1> SUFFICES ASSUME StreamInv, Next
             PROVE  StreamInv'
  OBVIOUS
<1>1. TypeOK /\ ListInv /\ FreshInv /\ OpenInv
  BY DEF StreamInv
<1>2. TypeOK' /\ ListInv' /\ FreshInv'
  BY <1>1, TypeStep, ListStep, FreshStep DEF OpenInv
<1>3. OpenInv'
  <2>1. ASSUME NEW f \in Frame, ReadFrame(f)
        PROVE  OpenInv'
    <3>1. pc' # "read" => iIFlag'
      BY <2>1 DEF ReadFrame
    <3> QED
      BY <3>1 DEF OpenInv
  <2>2. ASSUME NEW c \in Client, Loop(c) \/ Serve(c)
        PROVE  OpenInv'
    <3>1. /\ iIFlag' = iIFlag
          /\ pc' \in {pc, "read"} \/ pc \notin {"none", "read", "ended"}
      BY <2>2 DEF Loop, AddViewer, Join, Refuse, Fail, Flush, Serve, Drop, Pass, Measure,
                  Miss, Skip, WriteHeader, WritePayload, reader
    <3> QED
      BY <1>1, <3>1 DEF OpenInv
  <2>3. CASE End \/ Lock \/ PastTheEnd \/ Unlock
    BY <1>1, <2>3 DEF End, Lock, PastTheEnd, Unlock, reader, OpenInv
  <2> QED
    BY <2>1, <2>2, <2>3 DEF Next
<1>4. ASSUME NEW d \in Client
      PROVE  StreamAt(d)'
  <2>1. ASSUME NEW c \in Client, Serve(c)
        PROVE  StreamAt(d)'
    <3>1. CASE d # c
      BY <2>1, <3>1, StreamOther
    <3>2. CASE d = c
      BY <2>1, <3>2, StreamHeader, StreamPayload, StreamDropped, StreamUnserved DEF Serve
    <3> QED
      BY <3>1, <3>2
  <2> QED
    BY <2>1, StreamLoop, StreamRead, StreamBetween DEF Next
<1> QED
  BY <1>2, <1>3, <1>4 DEF StreamInv

\* Initially nothing has been sent.
LEMMA StreamInit == Init => StreamInv
<1> SUFFICES ASSUME Init
             PROVE  StreamInv
  OBVIOUS
<1>1. /\ listRtspClient = <<>> /\ early = {}
      /\ state = [d \in Client |-> "new"]
  BY DEF Init
<1>2. /\ pc = "none" /\ iIFlag = FALSE /\ frames = <<>>
      /\ \A d \in Client : wire[d] = <<>> /\ out[d] = <<>>
  BY DEF Init
<1>3. \A d \in Client : stream(d) = <<>>
  <2>1. <<>> \in Seq(Chunk) /\ <<>> \o <<>> = <<>>
    BY EmptySeq, ConcatEmptySeq
  <2> QED
    BY <1>2, <2>1, Zenon DEF stream
<1>4. DOMAIN listRtspClient = {}
  BY <1>1
<1>5. ListInv
  BY <1>1, <1>2, <1>4 DEF ListInv, Listed
<1>6. FreshInv /\ OpenInv
  BY <1>1, <1>2 DEF FreshInv, OpenInv
<1>7. ASSUME NEW d \in Client
      PROVE  StreamAt(d)
  BY <1>2, <1>3 DEF StreamAt, Sound, Whole, NoGap, Within, Aligned, Now, Consecutive, Awaiting
<1> QED
  BY <1>5, <1>6, <1>7, TypeInit DEF StreamInv

\* The invariant of the streams holds of every reachable state.
THEOREM StreamInvHolds == Spec => []StreamInv
<1>1. StreamInv /\ UNCHANGED vars => StreamInv'
  <2> SUFFICES ASSUME StreamInv, UNCHANGED vars
               PROVE  StreamInv'
    OBVIOUS
  <2>1. TypeOK' /\ ListInv' /\ FreshInv' /\ OpenInv'
    BY DEF StreamInv, TypeOK, ListInv, Listed, FreshInv, OpenInv, vars, client, reader
  <2>2. ASSUME NEW c \in Client
        PROVE  StreamAt(c)'
    <3>1. StreamAt(c)
      BY DEF StreamInv
    <3>2. UNCHANGED <<stream(c), frames, iIFlag, early, iMissFrameFlag, pc, Listed(c)>>
      BY DEF vars, client, reader, stream, Listed
    <3>3. UNCHANGED <<Due(c), Now(c)>>
      BY DEF vars, client, reader, Due, Now
    <3> QED
      BY <3>1, <3>2, <3>3, StreamStays
  <2> QED
    BY <2>1, <2>2 DEF StreamInv
<1> QED
  BY StreamInit, <1>1, StreamStep, PTL DEF Spec

\* Every client sees whole frames, whatever is lost and however the loop flushes.
THEOREM WholeFramesHolds == Spec => []WholeFrames
<1>1. StreamInv => WholeFrames
  BY DEF StreamInv, StreamAt, Sound, Whole, WholeFrames, Size
<1> QED
  BY <1>1, StreamInvHolds, PTL

\* After a loss a stream resumes with a key frame, whoever joins, fails or is
\* dropped beside it.
THEOREM NoGapBeforeDeltaHolds == Spec => []NoGapBeforeDelta
<1>1. StreamInv => NoGapBeforeDelta
  BY DEF StreamInv, StreamAt, Sound, NoGap, NoGapBeforeDelta
<1> QED
  BY <1>1, StreamInvHolds, PTL

\* Those who were there before the stream opened are sent a key frame first.
THEOREM EarlyStartsWithKeyHolds == Spec => []EarlyStartsWithKey
<1>1. StreamInv => EarlyStartsWithKey
  BY DEF StreamInv, StreamAt, Sound, EarlyStartsWithKey, TypeOK
<1> QED
  BY <1>1, StreamInvHolds, PTL
=============================================================================
