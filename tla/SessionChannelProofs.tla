------------------------- MODULE SessionChannelProofs --------------------------
(***************************************************************************)
(* Safety of the session channels, for any number of channels and           *)
(* supervisors, any buffers and any number of chunks.                       *)
(***************************************************************************)
EXTENDS SessionChannel, TLAPS

Chunk == Dirs \X Nat
Recording == [state : {"none", "open", "closed"}, err : BOOLEAN, chunks : SUBSET Chunk]

Words == {"start", "no recording", "manifest", "finalize failed", "end"}

(* The evidence of a session that has started, of one that has only started, *)
(* and of one that has ended.                                                *)
Started(t) == Len(t) > 0 /\ t[1] = "start" /\ \A i \in 1..Len(t) : t[i] # "end"
StartOnly(t) == t = <<"start">>
Ended(t) ==
    Len(t) > 1 /\ t[1] = "start" /\ \A i \in 1..Len(t) : (t[i] = "end") <=> (i = Len(t))

(* The fields of a channel, with no bound on chunks or pending resizes. *)
ChannelType ==
    [loop : {"none", "requests", "inline", "waiting", "returned"},
     kind : {"none", "shell", "keeper", "files"},
     step : {"none", "begin", "banner", "holding", "notice", "dial", "dialing", "serving",
             "record", "piping", "finalize", "end", "close", "returned"},
     over : SUBSET {"eof", "client", "gateway"},
     resizes : Nat, resizeClosed : BOOLEAN,
     forwarder : {"none", "running", "ended"},
     session : {"none", "open", "closed"},
     pipe : [Dirs -> {"none", "reading", "writing", "ended"}],
     next : [Dirs -> Nat],
     rec : Recording,
     sent : SUBSET Chunk,
     trail : Seq(Words)]

(* Every channel has the type of its goroutines' state. *)
TypeOK == ch \in [Chans -> ChannelType]

(* resizeCh is closed only when the loop over the requests has ended. *)
ResizeOK(r) ==
    /\ r.loop = "none" => ~ r.resizeClosed
    /\ r.resizeClosed => r.loop # "requests"

Opening == {"none", "begin", "banner", "holding", "notice", "dial", "dialing", "serving"}

(* What has been recorded of the session at each step of its handler; a      *)
(* target's session without a forwarder is one the target has refused.       *)
TrailOK(r) ==
    /\ r.kind = "none" => r.step = "none"
    /\ r.step \in {"none", "begin"} => r.trail = << >>
    /\ r.step \in Opening \ {"none", "begin"} => StartOnly(r.trail)
    /\ r.step \in (Opening \ {"none", "begin"}) \union {"record", "piping", "finalize", "end"} =>
          Started(r.trail)
    /\ r.step \in Opening => r.session = "none"
    /\ r.session # "none" /\ r.forwarder = "none" =>
          r.session = "closed" /\ r.step \in {"close", "returned"}
    /\ r.step \in {"close", "returned"} =>
          IF r.session = "closed" /\ r.forwarder = "none" THEN StartOnly(r.trail) ELSE Ended(r.trail)

(* The pipes start after everything else and stay ended once they are. *)
PipesOK(r) ==
    /\ r.step \in Opening => r.forwarder = "none"
    /\ r.step \in Opening \union {"record"} =>
          r.rec.state = "none" /\ r.sent = {} /\ \A d \in Dirs : r.pipe[d] = "none" /\ r.next[d] = 0
    /\ r.step = "finalize" \/ r.rec.state = "closed" => \E d \in Dirs : r.pipe[d] = "ended"
    /\ \A d \in Dirs : r.pipe[d] = "writing" => r.next[d] > 0
    /\ \A x \in r.sent : x[2] \in 1..r.next[x[1]]

(* An open recording without an error holds every chunk read so far; a       *)
(* closed one has a manifest and every chunk handed on, or has failed.       *)
RecordingOK(r) ==
    /\ config.recordings /\ (\E d \in Dirs : r.pipe[d] # "none") => r.rec.state # "none"
    /\ config.recordings /\ r.sent # {} => r.rec.state # "none"
    /\ r.rec.state = "open" => r.step \in {"piping", "finalize"}
    /\ r.rec.state = "open" /\ ~ r.rec.err =>
          \A d \in Dirs : \A k \in 1..r.next[d] : <<d, k>> \in r.rec.chunks
    /\ r.rec.state = "closed" =>
          /\ r.step \in {"end", "close", "returned"}
          /\ \/ In("finalize failed", r.trail)
             \/ In("manifest", r.trail) /\ r.sent \subseteq r.rec.chunks

ChannelOK(r) == ResizeOK(r) /\ TrailOK(r) /\ PipesOK(r) /\ RecordingOK(r)

(* The inductive invariant: the channels are independent but for the config. *)
IInv == TypeOK /\ ~ panicked /\ \A c \in Chans : ChannelOK(ch[c])

-----------------------------------------------------------------------------
(* The initial state, and how a step's effect on one channel carries over to *)
(* the invariant.                                                            *)

(* A channel that was never opened satisfies the invariant. *)
LEMMA InitOK == Init => IInv
  <1>1. NoChannel \in ChannelType
    BY DEF NoChannel, ChannelType, Recording, Chunk, Dirs
  <1>2. ChannelOK(NoChannel)
    BY DEF NoChannel, ChannelOK, ResizeOK, TrailOK, PipesOK, RecordingOK, Opening
  <1> QED
    BY <1>1, <1>2 DEF Init, IInv, TypeOK

(* A step that leaves one channel in order leaves all of them so. *)
LEMMA Update ==
    ASSUME IInv, NEW c \in Chans, NEW r \in ChannelType, ChannelOK(r),
           ch' = [ch EXCEPT ![c] = r], UNCHANGED config, ~ panicked'
    PROVE  IInv'
  <1>1. TypeOK'
    BY DEF IInv, TypeOK
  <1>2. ASSUME NEW b \in Chans PROVE ChannelOK(ch[b])'
    <2>1. ch'[b] = IF b = c THEN r ELSE ch[b]
      BY DEF IInv, TypeOK
    <2>2. ChannelOK(ch'[b])
      BY <2>1 DEF IInv
    <2> QED
      BY <2>2 DEF ChannelOK, ResizeOK, TrailOK, PipesOK, RecordingOK
  <1> QED
    BY <1>1, <1>2 DEF IInv

(* What a handler appends to the trail. *)
LEMMA TrailStarts ==
    ASSUME NEW t \in Seq(Words), t = << >>
    PROVE  /\ Append(t, "start") \in Seq(Words) /\ Started(Append(t, "start"))
           /\ StartOnly(Append(t, "start"))
  <1>1. Len(t) = 0
    OBVIOUS
  <1>2. /\ Append(t, "start") \in Seq(Words) /\ Len(Append(t, "start")) = Len(t) + 1
        /\ Append(t, "start")[Len(t) + 1] = "start"
    BY DEF Words
  <1>3. Append(t, "start") = <<"start">>
    BY <1>1, <1>2
  <1> QED
    BY <1>1, <1>2, <1>3 DEF Started, StartOnly

LEMMA TrailGrows ==
    ASSUME NEW t \in Seq(Words), NEW e \in Words
    PROVE  /\ Append(t, e) \in Seq(Words)
           /\ In(e, Append(t, e))
           /\ \A x : In(x, t) => In(x, Append(t, e))
           /\ Started(t) /\ e # "end" => Started(Append(t, e))
           /\ Started(t) /\ e = "end" => Ended(Append(t, e))
  <1>1. /\ Append(t, e) \in Seq(Words) /\ Len(Append(t, e)) = Len(t) + 1
        /\ \A i \in 1..Len(t) : Append(t, e)[i] = t[i]
        /\ Append(t, e)[Len(t) + 1] = e
    OBVIOUS
  <1>2. DOMAIN t = 1..Len(t) /\ DOMAIN Append(t, e) = 1..(Len(t) + 1) /\ Len(t) \in Nat
    BY <1>1
  <1>3. In(e, Append(t, e)) /\ \A x : In(x, t) => In(x, Append(t, e))
    <2>1. In(e, Append(t, e))
      <3>1. Len(t) + 1 \in 1..(Len(t) + 1)
        BY <1>2
      <3> QED
        BY <1>1, <1>2, <3>1 DEF In
    <2>2. ASSUME NEW x, In(x, t) PROVE In(x, Append(t, e))
      <3>1. PICK i \in 1..Len(t) : t[i] = x
        BY <1>2, <2>2 DEF In
      <3>2. i \in 1..(Len(t) + 1) /\ Append(t, e)[i] = x
        BY <1>1, <1>2, <3>1
      <3> QED
        BY <1>2, <3>2 DEF In
    <2> QED
      BY <2>1, <2>2
  <1>4. Started(t) /\ e # "end" => Started(Append(t, e))
    BY <1>1, <1>2 DEF Started
  <1>5. Started(t) /\ e = "end" => Ended(Append(t, e))
    BY <1>1, <1>2 DEF Started, Ended
  <1> QED
    BY <1>1, <1>3, <1>4, <1>5

(* A handler that has not started its pipes goes on, or to its end. *)
LEMMA Moves ==
    ASSUME IInv, NEW c \in Chans, ch[c].step \in Opening \ {"none", "begin"},
           NEW t \in (Opening \ {"none", "begin"}) \union {"end"},
           Go(c, t), UNCHANGED <<config, panicked>>
    PROVE  IInv'
  <1> DEFINE r == [ch[c] EXCEPT !.step = t]
  <1>1. ch[c] \in ChannelType /\ ChannelOK(ch[c])
    BY DEF IInv, TypeOK
  <1>2. r \in ChannelType
    BY <1>1 DEF ChannelType, Opening
  <1>3. ChannelOK(r)
    <2>1. ResizeOK(r)
      BY <1>1 DEF ChannelType, ChannelOK, ResizeOK, Opening
    <2>2. TrailOK(r)
      BY <1>1 DEF ChannelType, Recording, ChannelOK, TrailOK, PipesOK, Opening
    <2>3. PipesOK(r)
      BY <1>1 DEF ChannelType, ChannelOK, PipesOK, Opening
    <2>4. RecordingOK(r)
      BY <1>1 DEF ChannelType, ChannelOK, PipesOK, RecordingOK, Opening
    <2> QED
      BY <2>1, <2>2, <2>3, <2>4 DEF ChannelOK
  <1>4. ch' = [ch EXCEPT ![c] = r]
    BY DEF Go
  <1> QED
    BY <1>2, <1>3, <1>4, Update DEF IInv

-----------------------------------------------------------------------------
(* The actions. *)

(* A channel is opened once. *)
LEMMA OpenChannelOK ==
    ASSUME IInv, NEW c \in Chans, OpenChannel(c)
    PROVE  IInv'
  <1>1. ch[c] \in ChannelType /\ ChannelOK(ch[c])
    BY DEF IInv, TypeOK
  <1> DEFINE r == [ch[c] EXCEPT !.loop = "requests"]
  <1>2. r \in ChannelType
    BY <1>1 DEF ChannelType
  <1>3. ResizeOK(r)
    BY <1>1 DEF OpenChannel, ChannelType, Recording, ChannelOK, ResizeOK
  <1>4. TrailOK(r)
    BY <1>1 DEF OpenChannel, ChannelType, Recording, ChannelOK, TrailOK, PipesOK, Opening
  <1>5. PipesOK(r)
    BY <1>1 DEF OpenChannel, ChannelType, Recording, ChannelOK, TrailOK, PipesOK, Opening
  <1>6. RecordingOK(r)
    BY <1>1
    DEF OpenChannel, ChannelType, Recording, ChannelOK, TrailOK, PipesOK, RecordingOK,
                Opening
  <1>7. ch' = [ch EXCEPT ![c] = r]
    BY <1>1 DEF OpenChannel, ChannelType, Recording
  <1> QED
    BY <1>1, <1>2, <1>3, <1>4, <1>5, <1>6, <1>7, Update
    DEF OpenChannel, connection, IInv, ChannelOK

(* A handler starts with nothing recorded. *)
LEMMA DispatchedOK ==
    ASSUME IInv, NEW c \in Chans, NEW kind \in {"shell", "keeper", "files"},
           NEW loop \in {"requests", "inline"}, Dispatched(c, kind, loop)
    PROVE  IInv'
  <1>1. ch[c] \in ChannelType /\ ChannelOK(ch[c])
    BY DEF IInv, TypeOK
  <1> DEFINE r == [ch[c] EXCEPT !.kind = kind, !.step = "begin", !.loop = loop]
  <1>2. r \in ChannelType
    BY <1>1 DEF ChannelType
  <1>3. ResizeOK(r)
    BY <1>1 DEF Dispatched, ChannelType, Recording, ChannelOK, ResizeOK
  <1>4. TrailOK(r)
    BY <1>1 DEF Dispatched, ChannelType, Recording, ChannelOK, TrailOK, PipesOK, Opening
  <1>5. PipesOK(r)
    BY <1>1 DEF Dispatched, ChannelType, Recording, ChannelOK, TrailOK, PipesOK, Opening
  <1>6. RecordingOK(r)
    BY <1>1
    DEF Dispatched, ChannelType, Recording, ChannelOK, TrailOK, PipesOK, RecordingOK,
                Opening
  <1>7. ch' = [ch EXCEPT ![c] = r]
    BY <1>1 DEF Dispatched, ChannelType, Recording
  <1> QED
    BY <1>1, <1>2, <1>3, <1>4, <1>5, <1>6, <1>7, Update
    DEF Dispatched, connection, IInv, ChannelOK

(* A window change finds resizeCh open. *)
LEMMA WindowChangeOK ==
    ASSUME IInv, NEW c \in Chans, WindowChange(c)
    PROVE  IInv'
  <1>1. ch[c] \in ChannelType /\ ChannelOK(ch[c])
    BY DEF IInv, TypeOK
  <1>2. ~ ch[c].resizeClosed
    BY <1>1 DEF WindowChange, ChannelType, Recording, ChannelOK, ResizeOK
  <1>3. ~ panicked' /\ UNCHANGED config
    BY <1>2 DEF WindowChange, IInv
  <1>4. (IF ch[c].resizes < ResizeCap THEN ch[c].resizes + 1 ELSE ch[c].resizes) \in Nat
    BY <1>1, ChannelAssumption DEF ChannelType
  <1> DEFINE r == [ch[c] EXCEPT !.resizes = IF @ < ResizeCap THEN @ + 1 ELSE @]
  <1>5. r \in ChannelType
    BY <1>1, <1>2, <1>3, <1>4 DEF ChannelType
  <1>6. ResizeOK(r)
    BY <1>1, <1>2, <1>3, <1>4 DEF WindowChange, ChannelType, Recording, ChannelOK, ResizeOK
  <1>7. TrailOK(r)
    BY <1>1, <1>2, <1>3, <1>4
    DEF WindowChange, ChannelType, Recording, ChannelOK, TrailOK, PipesOK, Opening
  <1>8. PipesOK(r)
    BY <1>1, <1>2, <1>3, <1>4
    DEF WindowChange, ChannelType, Recording, ChannelOK, TrailOK, PipesOK, Opening
  <1>9. RecordingOK(r)
    BY <1>1, <1>2, <1>3, <1>4
    DEF WindowChange, ChannelType, Recording, ChannelOK, TrailOK, PipesOK, RecordingOK,
                Opening
  <1>10. ch' = [ch EXCEPT ![c] = r]
    BY <1>1, <1>2, <1>3, <1>4 DEF WindowChange, ChannelType, Recording
  <1> QED
    BY <1>1, <1>2, <1>3, <1>4, <1>5, <1>6, <1>7, <1>8, <1>9, <1>10, Update
    DEF WindowChange, connection, IInv, ChannelOK

(* The loop closes resizeCh as its last act ... *)
LEMMA LoopEndsIdleOK ==
    ASSUME IInv, NEW c \in Chans, ch[c].kind = "none", LoopEnds(c)
    PROVE  IInv'
  <1>1. ch[c] \in ChannelType /\ ChannelOK(ch[c])
    BY DEF IInv, TypeOK
  <1> DEFINE r == [ch[c] EXCEPT !.loop = "returned", !.resizeClosed = TRUE,
                          !.over = @ \union {"gateway"}]
  <1>2. r \in ChannelType
    BY <1>1 DEF ChannelType
  <1>3. ResizeOK(r)
    BY <1>1 DEF LoopEnds, ChannelType, Recording, ChannelOK, ResizeOK
  <1>4. TrailOK(r)
    BY <1>1 DEF LoopEnds, ChannelType, Recording, ChannelOK, TrailOK, PipesOK, Opening
  <1>5. PipesOK(r)
    BY <1>1 DEF LoopEnds, ChannelType, Recording, ChannelOK, TrailOK, PipesOK, Opening
  <1>6. RecordingOK(r)
    BY <1>1 DEF LoopEnds, ChannelType, Recording, ChannelOK, TrailOK, PipesOK, RecordingOK,
                Opening
  <1>7. ch' = [ch EXCEPT ![c] = r]
    BY <1>1 DEF LoopEnds, ChannelType, Recording
  <1> QED
    BY <1>1, <1>2, <1>3, <1>4, <1>5, <1>6, <1>7, Update
    DEF LoopEnds, connection, IInv, ChannelOK

(* ... with a handler to wait for or without. *)
LEMMA LoopEndsServingOK ==
    ASSUME IInv, NEW c \in Chans, ch[c].kind # "none", LoopEnds(c)
    PROVE  IInv'
  <1>1. ch[c] \in ChannelType /\ ChannelOK(ch[c])
    BY DEF IInv, TypeOK
  <1> DEFINE r == [ch[c] EXCEPT !.loop = "waiting", !.resizeClosed = TRUE]
  <1>2. r \in ChannelType
    BY <1>1 DEF ChannelType
  <1>3. ResizeOK(r)
    BY <1>1 DEF LoopEnds, ChannelType, Recording, ChannelOK, ResizeOK
  <1>4. TrailOK(r)
    BY <1>1 DEF LoopEnds, ChannelType, Recording, ChannelOK, TrailOK, PipesOK, Opening
  <1>5. PipesOK(r)
    BY <1>1 DEF LoopEnds, ChannelType, Recording, ChannelOK, TrailOK, PipesOK, Opening
  <1>6. RecordingOK(r)
    BY <1>1 DEF LoopEnds, ChannelType, Recording, ChannelOK, TrailOK, PipesOK, RecordingOK,
                Opening
  <1>7. ch' = [ch EXCEPT ![c] = r]
    BY <1>1 DEF LoopEnds, ChannelType, Recording
  <1> QED
    BY <1>1, <1>2, <1>3, <1>4, <1>5, <1>6, <1>7, Update
    DEF LoopEnds, connection, IInv, ChannelOK

(* The loop returns once its handler has. *)
LEMMA JoinedOK ==
    ASSUME IInv, NEW c \in Chans, Joined(c)
    PROVE  IInv'
  <1>1. ch[c] \in ChannelType /\ ChannelOK(ch[c])
    BY DEF IInv, TypeOK
  <1> DEFINE r == [ch[c] EXCEPT !.loop = "returned"]
  <1>2. r \in ChannelType
    BY <1>1 DEF ChannelType
  <1>3. ResizeOK(r)
    BY <1>1 DEF Joined, ChannelType, Recording, ChannelOK, ResizeOK
  <1>4. TrailOK(r)
    BY <1>1 DEF Joined, ChannelType, Recording, ChannelOK, TrailOK, PipesOK, Opening
  <1>5. PipesOK(r)
    BY <1>1 DEF Joined, ChannelType, Recording, ChannelOK, TrailOK, PipesOK, Opening
  <1>6. RecordingOK(r)
    BY <1>1 DEF Joined, ChannelType, Recording, ChannelOK, TrailOK, PipesOK, RecordingOK,
                Opening
  <1>7. ch' = [ch EXCEPT ![c] = r]
    BY <1>1 DEF Joined, ChannelType, Recording
  <1> QED
    BY <1>1, <1>2, <1>3, <1>4, <1>5, <1>6, <1>7, Update
    DEF Joined, connection, IInv, ChannelOK

(* The drain closes the channel of a keeper. *)
LEMMA KeeperDrainedOK ==
    ASSUME IInv, NEW c \in Chans, KeeperDrained(c)
    PROVE  IInv'
  <1>1. ch[c] \in ChannelType /\ ChannelOK(ch[c])
    BY DEF IInv, TypeOK
  <1> DEFINE r == [ch[c] EXCEPT !.over = @ \union {"gateway"}]
  <1>2. r \in ChannelType
    BY <1>1 DEF ChannelType
  <1>3. ResizeOK(r)
    BY <1>1 DEF KeeperDrained, ChannelType, Recording, ChannelOK, ResizeOK
  <1>4. TrailOK(r)
    BY <1>1 DEF KeeperDrained, ChannelType, Recording, ChannelOK, TrailOK, PipesOK, Opening
  <1>5. PipesOK(r)
    BY <1>1 DEF KeeperDrained, ChannelType, Recording, ChannelOK, TrailOK, PipesOK, Opening
  <1>6. RecordingOK(r)
    BY <1>1
    DEF KeeperDrained, ChannelType, Recording, ChannelOK, TrailOK, PipesOK, RecordingOK,
                Opening
  <1>7. ch' = [ch EXCEPT ![c] = r]
    BY <1>1 DEF KeeperDrained, ChannelType, Recording
  <1> QED
    BY <1>1, <1>2, <1>3, <1>4, <1>5, <1>6, <1>7, Update
    DEF KeeperDrained, connection, IInv, ChannelOK

(* The client closes a channel or half of it. *)
LEMMA ClientEndsOK ==
    ASSUME IInv, NEW c \in Chans, NEW half \in {"eof", "client"}, ClientEnds(c, half)
    PROVE  IInv'
  <1>1. ch[c] \in ChannelType /\ ChannelOK(ch[c])
    BY DEF IInv, TypeOK
  <1> DEFINE r == [ch[c] EXCEPT !.over = @ \union {half}]
  <1>2. r \in ChannelType
    BY <1>1 DEF ChannelType
  <1>3. ResizeOK(r)
    BY <1>1 DEF ClientEnds, ChannelType, Recording, ChannelOK, ResizeOK
  <1>4. TrailOK(r)
    BY <1>1 DEF ClientEnds, ChannelType, Recording, ChannelOK, TrailOK, PipesOK, Opening
  <1>5. PipesOK(r)
    BY <1>1 DEF ClientEnds, ChannelType, Recording, ChannelOK, TrailOK, PipesOK, Opening
  <1>6. RecordingOK(r)
    BY <1>1
    DEF ClientEnds, ChannelType, Recording, ChannelOK, TrailOK, PipesOK, RecordingOK,
                Opening
  <1>7. ch' = [ch EXCEPT ![c] = r]
    BY <1>1 DEF ClientEnds, ChannelType, Recording
  <1> QED
    BY <1>1, <1>2, <1>3, <1>4, <1>5, <1>6, <1>7, Update
    DEF ClientEnds, connection, IInv, ChannelOK

(* A resize is forwarded. *)
LEMMA ForwardResizeOK ==
    ASSUME IInv, NEW c \in Chans, ForwardResize(c)
    PROVE  IInv'
  <1>1. ch[c] \in ChannelType /\ ChannelOK(ch[c])
    BY DEF IInv, TypeOK
  <1>2. ch[c].resizes - 1 \in Nat
    BY <1>1 DEF ForwardResize, ChannelType
  <1> DEFINE r == [ch[c] EXCEPT !.resizes = @ - 1]
  <1>3. r \in ChannelType
    BY <1>1, <1>2 DEF ChannelType
  <1>4. ResizeOK(r)
    BY <1>1, <1>2 DEF ForwardResize, ChannelType, Recording, ChannelOK, ResizeOK
  <1>5. TrailOK(r)
    BY <1>1, <1>2
    DEF ForwardResize, ChannelType, Recording, ChannelOK, TrailOK, PipesOK, Opening
  <1>6. PipesOK(r)
    BY <1>1, <1>2
    DEF ForwardResize, ChannelType, Recording, ChannelOK, TrailOK, PipesOK, Opening
  <1>7. RecordingOK(r)
    BY <1>1, <1>2
    DEF ForwardResize, ChannelType, Recording, ChannelOK, TrailOK, PipesOK, RecordingOK,
                Opening
  <1>8. ch' = [ch EXCEPT ![c] = r]
    BY <1>1, <1>2 DEF ForwardResize, ChannelType, Recording
  <1> QED
    BY <1>1, <1>2, <1>3, <1>4, <1>5, <1>6, <1>7, <1>8, Update
    DEF ForwardResize, connection, IInv, ChannelOK

(* A handler records its start before anything else. *)
LEMMA BeginOK ==
    ASSUME IInv, NEW c \in Chans, Begin(c)
    PROVE  IInv'
  <1>1. ch[c] \in ChannelType /\ ChannelOK(ch[c])
    BY DEF IInv, TypeOK
  <1>2. /\ Append(ch[c].trail, "start") \in Seq(Words)
        /\ Started(Append(ch[c].trail, "start"))
        /\ StartOnly(Append(ch[c].trail, "start"))
    BY <1>1, TrailStarts DEF Begin, ChannelType, Recording, ChannelOK, TrailOK
  <1>3. PICK s \in {"banner", "dial", "end"} :
          ch' = [ch EXCEPT ![c] = [ch[c] EXCEPT !.step = s, !.trail = Append(@, "start")]]
    <2>1. PICK s \in {"banner", "dial", "end"} : Record(c, "start", s)
      BY Zenon DEF Begin
    <2>2. ch \in [Chans -> ChannelType]
      BY DEF IInv, TypeOK
    <2>3. ch' = [ch EXCEPT ![c] = [ch[c] EXCEPT !.step = s, !.trail = Append(@, "start")]]
      BY <2>1, <2>2 DEF ChannelType, Record
    <2> QED
      BY <2>3
  <1> DEFINE r == [ch[c] EXCEPT !.step = s, !.trail = Append(@, "start")]
  <1>4. r \in ChannelType
    BY <1>1, <1>2, <1>3 DEF ChannelType
  <1>5. ResizeOK(r)
    BY <1>1, <1>2, <1>3 DEF Begin, ChannelType, Recording, ChannelOK, ResizeOK
  <1>6. TrailOK(r)
    BY <1>1, <1>2, <1>3
    DEF Begin, ChannelType, Recording, ChannelOK, TrailOK, PipesOK, Opening, Record
  <1>7. PipesOK(r)
    BY <1>1, <1>2, <1>3
    DEF Begin, ChannelType, Recording, ChannelOK, TrailOK, PipesOK, Opening, Record
  <1>8. RecordingOK(r)
    BY <1>1, <1>2, <1>3
    DEF Begin, ChannelType, Recording, ChannelOK, TrailOK, PipesOK, RecordingOK,
                Opening, Record
  <1> QED
    BY <1>1, <1>2, <1>3, <1>4, <1>5, <1>6, <1>7, <1>8, Update
    DEF Begin, connection, IInv, ChannelOK

(* The target has opened a shell. *)
LEMMA OpenShellOK ==
    ASSUME IInv, NEW c \in Chans, OpenShell(c)
    PROVE  IInv'
  <1>1. ch[c] \in ChannelType /\ ChannelOK(ch[c])
    BY DEF IInv, TypeOK
  <1> DEFINE r == [ch[c] EXCEPT !.step = "record", !.session = "open", !.forwarder = "running"]
  <1>2. r \in ChannelType
    BY <1>1 DEF ChannelType
  <1>3. ResizeOK(r)
    BY <1>1 DEF OpenShell, ChannelType, Recording, ChannelOK, ResizeOK
  <1>4. TrailOK(r)
    BY <1>1 DEF OpenShell, ChannelType, Recording, ChannelOK, TrailOK, PipesOK, Opening
  <1>5. PipesOK(r)
    BY <1>1 DEF OpenShell, ChannelType, Recording, ChannelOK, TrailOK, PipesOK, Opening
  <1>6. RecordingOK(r)
    BY <1>1 DEF OpenShell, ChannelType, Recording, ChannelOK, TrailOK, PipesOK, RecordingOK,
                Opening
  <1>7. ch' = [ch EXCEPT ![c] = r]
    BY <1>1 DEF OpenShell, ChannelType, Recording
  <1> QED
    BY <1>1, <1>2, <1>3, <1>4, <1>5, <1>6, <1>7, Update
    DEF OpenShell, connection, IInv, ChannelOK

(* The target has refused one, and no end is recorded. *)
LEMMA SetupFailsOK ==
    ASSUME IInv, NEW c \in Chans, SetupFails(c)
    PROVE  IInv'
  <1>1. ch[c] \in ChannelType /\ ChannelOK(ch[c])
    BY DEF IInv, TypeOK
  <1> DEFINE r == [ch[c] EXCEPT !.step = "close", !.session = "closed"]
  <1>2. r \in ChannelType
    BY <1>1 DEF ChannelType
  <1>3. ResizeOK(r)
    BY <1>1 DEF SetupFails, ChannelType, Recording, ChannelOK, ResizeOK
  <1>4. TrailOK(r)
    BY <1>1 DEF SetupFails, ChannelType, Recording, ChannelOK, TrailOK, PipesOK, Opening
  <1>5. PipesOK(r)
    BY <1>1 DEF SetupFails, ChannelType, Recording, ChannelOK, TrailOK, PipesOK, Opening
  <1>6. RecordingOK(r)
    BY <1>1
    DEF SetupFails, ChannelType, Recording, ChannelOK, TrailOK, PipesOK, RecordingOK,
                Opening
  <1>7. ch' = [ch EXCEPT ![c] = r]
    BY <1>1 DEF SetupFails, ChannelType, Recording
  <1> QED
    BY <1>1, <1>2, <1>3, <1>4, <1>5, <1>6, <1>7, Update
    DEF SetupFails, connection, IInv, ChannelOK

(* There is no recording, and the evidence says so. *)
LEMMA RecorderFailsOK ==
    ASSUME IInv, NEW c \in Chans, RecorderFails(c)
    PROVE  IInv'
  <1>1. ch[c] \in ChannelType /\ ChannelOK(ch[c])
    BY DEF IInv, TypeOK
  <1>2. ch[c].trail \in Seq(Words) /\ Started(ch[c].trail)
    BY <1>1 DEF RecorderFails, ChannelType, Recording, ChannelOK, TrailOK, Opening
  <1>3. "no recording" \in Words /\ "no recording" # "end"
    BY DEF Words
  <1>4. /\ Append(ch[c].trail, "no recording") \in Seq(Words)
        /\ Started(Append(ch[c].trail, "no recording"))
    BY <1>2, <1>3, TrailGrows, Zenon
  <1> DEFINE r == [ch[c] EXCEPT !.step = "end", !.trail = Append(@, "no recording")]
  <1>5. r \in ChannelType
    BY <1>1, <1>2, <1>3, <1>4 DEF ChannelType
  <1>6. ResizeOK(r)
    BY <1>1, <1>2, <1>3, <1>4 DEF RecorderFails, ChannelType, Recording, ChannelOK, ResizeOK
  <1>7. TrailOK(r)
    BY <1>1, <1>2, <1>3, <1>4
    DEF RecorderFails, ChannelType, Recording, ChannelOK, TrailOK, PipesOK, Opening, Record
  <1>8. PipesOK(r)
    BY <1>1, <1>2, <1>3, <1>4
    DEF RecorderFails, ChannelType, Recording, ChannelOK, TrailOK, PipesOK, Opening, Record
  <1>9. RecordingOK(r)
    BY <1>1, <1>2, <1>3, <1>4
    DEF RecorderFails, ChannelType, Recording, ChannelOK, TrailOK, PipesOK, RecordingOK,
                Opening, Record
  <1>10. ch' = [ch EXCEPT ![c] = r]
    BY <1>1, <1>2, <1>3, <1>4 DEF RecorderFails, ChannelType, Recording, Record
  <1> QED
    BY <1>1, <1>2, <1>3, <1>4, <1>5, <1>6, <1>7, <1>8, <1>9, <1>10, Update
    DEF RecorderFails, connection, IInv, ChannelOK

(* The pipes start over an empty recording. *)
LEMMA StartPipesOK ==
    ASSUME IInv, NEW c \in Chans, StartPipes(c)
    PROVE  IInv'
  <1>1. ch[c] \in ChannelType /\ ChannelOK(ch[c])
    BY DEF IInv, TypeOK
  <1>2. /\ ch[c].sent = {} /\ ch[c].rec.state = "none"
        /\ \A d \in Dirs : ch[c].next[d] = 0
    BY <1>1 DEF StartPipes, ChannelType, Recording, ChannelOK, PipesOK, Opening
  <1> DEFINE r == [ch[c] EXCEPT !.step = "piping",
                          !.rec.state = IF config.recordings THEN "open" ELSE "none",
                          !.pipe = [d \in Dirs |-> "reading"]]
  <1>3. r \in ChannelType
    <2>1. [ch[c].rec EXCEPT !.state = IF config.recordings THEN "open" ELSE "none"] \in Recording
      BY <1>1 DEF ChannelType, Recording
    <2> QED
      BY <1>1, <2>1 DEF ChannelType
  <1>4. ResizeOK(r)
    BY <1>1, <1>2 DEF StartPipes, ChannelType, Recording, ChannelOK, ResizeOK
  <1>5. TrailOK(r)
    BY <1>1, <1>2
    DEF StartPipes, ChannelType, Recording, ChannelOK, TrailOK, PipesOK, Opening
  <1>6. PipesOK(r)
    BY <1>1, <1>2
    DEF StartPipes, ChannelType, Recording, ChannelOK, TrailOK, PipesOK, Opening
  <1>7. RecordingOK(r)
    BY <1>1, <1>2
    DEF StartPipes, ChannelType, Recording, ChannelOK, TrailOK, PipesOK, RecordingOK,
                Opening
  <1>8. ch' = [ch EXCEPT ![c] = r]
    BY <1>1, <1>2 DEF StartPipes, ChannelType, Recording
  <1> QED
    BY <1>1, <1>2, <1>3, <1>4, <1>5, <1>6, <1>7, <1>8, Update
    DEF StartPipes, connection, IInv, ChannelOK

(* A pipe that has ended stays ended. *)
LEMMA PipeEndsOK ==
    ASSUME IInv, NEW c \in Chans, NEW d \in Dirs, PipeEnds(c, d)
    PROVE  IInv'
  <1>1. ch[c] \in ChannelType /\ ChannelOK(ch[c])
    BY DEF IInv, TypeOK
  <1> DEFINE r == [ch[c] EXCEPT !.pipe[d] = "ended"]
  <1>2. r \in ChannelType
    BY <1>1 DEF ChannelType
  <1>3. ResizeOK(r)
    BY <1>1 DEF PipeEnds, ChannelType, Recording, ChannelOK, ResizeOK
  <1>4. TrailOK(r)
    BY <1>1 DEF PipeEnds, ChannelType, Recording, ChannelOK, TrailOK, PipesOK, Opening
  <1>5. PipesOK(r)
    BY <1>1 DEF PipeEnds, ChannelType, Recording, ChannelOK, TrailOK, PipesOK, Opening
  <1>6. RecordingOK(r)
    BY <1>1 DEF PipeEnds, ChannelType, Recording, ChannelOK, TrailOK, PipesOK, RecordingOK,
                Opening
  <1>7. ch' = [ch EXCEPT ![c] = r]
    BY <1>1 DEF PipeEnds, ChannelType, Recording
  <1> QED
    BY <1>1, <1>2, <1>3, <1>4, <1>5, <1>6, <1>7, Update
    DEF PipeEnds, connection, IInv, ChannelOK

(* The recording is closed after one pipe has ended. *)
LEMMA PipingEndsOK ==
    ASSUME IInv, NEW c \in Chans, PipingEnds(c)
    PROVE  IInv'
  <1>1. ch[c] \in ChannelType /\ ChannelOK(ch[c])
    BY DEF IInv, TypeOK
  <1> DEFINE r == [ch[c] EXCEPT !.step = "finalize"]
  <1>2. r \in ChannelType
    BY <1>1 DEF ChannelType
  <1>3. ResizeOK(r)
    BY <1>1 DEF PipingEnds, ChannelType, Recording, ChannelOK, ResizeOK
  <1>4. TrailOK(r)
    BY <1>1 DEF PipingEnds, ChannelType, Recording, ChannelOK, TrailOK, PipesOK, Opening, Go
  <1>5. PipesOK(r)
    BY <1>1 DEF PipingEnds, ChannelType, Recording, ChannelOK, TrailOK, PipesOK, Opening, Go
  <1>6. RecordingOK(r)
    BY <1>1
    DEF PipingEnds, ChannelType, Recording, ChannelOK, TrailOK, PipesOK, RecordingOK,
                Opening, Go
  <1>7. ch' = [ch EXCEPT ![c] = r]
    BY <1>1 DEF PipingEnds, ChannelType, Recording, Go
  <1> QED
    BY <1>1, <1>2, <1>3, <1>4, <1>5, <1>6, <1>7, Update
    DEF PipingEnds, connection, IInv, ChannelOK

(* The forwarder of a shell ends. *)
LEMMA ForwarderEndsOK ==
    ASSUME IInv, NEW c \in Chans, ForwarderEnds(c)
    PROVE  IInv'
  <1>1. ch[c] \in ChannelType /\ ChannelOK(ch[c])
    BY DEF IInv, TypeOK
  <1> DEFINE r == [ch[c] EXCEPT !.forwarder = "ended"]
  <1>2. r \in ChannelType
    BY <1>1 DEF ChannelType
  <1>3. ResizeOK(r)
    BY <1>1 DEF ForwarderEnds, ChannelType, Recording, ChannelOK, ResizeOK
  <1>4. TrailOK(r)
    BY <1>1 DEF ForwarderEnds, ChannelType, Recording, ChannelOK, TrailOK, PipesOK, Opening
  <1>5. PipesOK(r)
    BY <1>1 DEF ForwarderEnds, ChannelType, Recording, ChannelOK, TrailOK, PipesOK, Opening
  <1>6. RecordingOK(r)
    BY <1>1
    DEF ForwarderEnds, ChannelType, Recording, ChannelOK, TrailOK, PipesOK, RecordingOK,
                Opening
  <1>7. ch' = [ch EXCEPT ![c] = r]
    BY <1>1 DEF ForwarderEnds, ChannelType, Recording
  <1> QED
    BY <1>1, <1>2, <1>3, <1>4, <1>5, <1>6, <1>7, Update
    DEF ForwarderEnds, connection, IInv, ChannelOK

(* The end is recorded last. *)
LEMMA EndOK ==
    ASSUME IInv, NEW c \in Chans, End(c)
    PROVE  IInv'
  <1>1. ch[c] \in ChannelType /\ ChannelOK(ch[c])
    BY DEF IInv, TypeOK
  <1>2. ch[c].trail \in Seq(Words) /\ Started(ch[c].trail)
    BY <1>1 DEF End, ChannelType, Recording, ChannelOK, TrailOK, Opening
  <1>3. "end" \in Words
    BY DEF Words
  <1>4. /\ Append(ch[c].trail, "end") \in Seq(Words)
        /\ Ended(Append(ch[c].trail, "end"))
        /\ \A x : In(x, ch[c].trail) => In(x, Append(ch[c].trail, "end"))
    BY <1>2, <1>3, TrailGrows, Zenon
  <1> DEFINE r == [ch[c] EXCEPT !.step = "close", !.trail = Append(@, "end")]
  <1>5. r \in ChannelType
    BY <1>1, <1>2, <1>3, <1>4 DEF ChannelType
  <1>6. ResizeOK(r)
    BY <1>1, <1>2, <1>3, <1>4 DEF End, ChannelType, Recording, ChannelOK, ResizeOK
  <1>7. TrailOK(r)
    BY <1>1, <1>2, <1>3, <1>4
    DEF End, ChannelType, Recording, ChannelOK, TrailOK, PipesOK, Opening, Record
  <1>8. PipesOK(r)
    BY <1>1, <1>2, <1>3, <1>4
    DEF End, ChannelType, Recording, ChannelOK, TrailOK, PipesOK, Opening, Record
  <1>9. RecordingOK(r)
    BY <1>1, <1>2, <1>3, <1>4
    DEF End, ChannelType, Recording, ChannelOK, TrailOK, PipesOK, RecordingOK,
                Opening, Record
  <1>10. ch' = [ch EXCEPT ![c] = r]
    BY <1>1, <1>2, <1>3, <1>4 DEF End, ChannelType, Recording, Record
  <1> QED
    BY <1>1, <1>2, <1>3, <1>4, <1>5, <1>6, <1>7, <1>8, <1>9, <1>10, Update
    DEF End, connection, IInv, ChannelOK

(* The deferred closes add nothing to the evidence. *)
LEMMA CloseOK ==
    ASSUME IInv, NEW c \in Chans, Close(c)
    PROVE  IInv'
  <1>1. ch[c] \in ChannelType /\ ChannelOK(ch[c])
    BY DEF IInv, TypeOK
  <1>2. PICK s \in {"none", "closed"} :
          /\ ch[c].session # "open" => s = ch[c].session
          /\ ch' = [ch EXCEPT ![c] = [ch[c] EXCEPT !.step = "returned", !.over = @ \union {"gateway"},
                          !.session = s]]
    <2> DEFINE s == IF ch[c].session = "open" THEN "closed" ELSE ch[c].session
    <2>1. s \in {"none", "closed"} /\ (ch[c].session # "open" => s = ch[c].session)
      BY <1>1 DEF ChannelType
    <2>2. ch \in [Chans -> ChannelType]
      BY DEF IInv, TypeOK
    <2>3. ch' = [ch EXCEPT ![c] = [ch[c] EXCEPT !.step = "returned", !.over = @ \union {"gateway"},
                          !.session = s]]
      BY <2>2 DEF Close, ChannelType
    <2> QED
      BY <2>1, <2>3
  <1> DEFINE r == [ch[c] EXCEPT !.step = "returned", !.over = @ \union {"gateway"},
                          !.session = s]
  <1>3. r \in ChannelType
    <2>1. ch[c].over \union {"gateway"} \in SUBSET {"eof", "client", "gateway"}
      BY <1>1 DEF ChannelType
    <2>2. ch[c] \in ChannelType
      BY <1>1
    <2> QED
      BY <2>1, <2>2 DEF ChannelType
  <1>4. ResizeOK(r)
    BY <1>1, <1>2 DEF Close, ChannelType, Recording, ChannelOK, ResizeOK
  <1>5. TrailOK(r)
    BY <1>1, <1>2 DEF Close, ChannelType, Recording, ChannelOK, TrailOK, PipesOK, Opening
  <1>6. PipesOK(r)
    BY <1>1, <1>2 DEF Close, ChannelType, Recording, ChannelOK, TrailOK, PipesOK, Opening
  <1>7. RecordingOK(r)
    BY <1>1, <1>2
    DEF Close, ChannelType, Recording, ChannelOK, TrailOK, PipesOK, RecordingOK,
                Opening
  <1> QED
    BY <1>1, <1>2, <1>3, <1>4, <1>5, <1>6, <1>7, Update
    DEF Close, connection, IInv, ChannelOK

(* The shell on the target exits. *)
LEMMA TargetExitsOK ==
    ASSUME IInv, NEW c \in Chans, TargetExits(c)
    PROVE  IInv'
  <1>1. ch[c] \in ChannelType /\ ChannelOK(ch[c])
    BY DEF IInv, TypeOK
  <1> DEFINE r == [ch[c] EXCEPT !.session = "closed"]
  <1>2. r \in ChannelType
    BY <1>1 DEF ChannelType
  <1>3. ResizeOK(r)
    BY <1>1 DEF TargetExits, ChannelType, Recording, ChannelOK, ResizeOK
  <1>4. TrailOK(r)
    BY <1>1 DEF TargetExits, ChannelType, Recording, ChannelOK, TrailOK, PipesOK, Opening
  <1>5. PipesOK(r)
    BY <1>1 DEF TargetExits, ChannelType, Recording, ChannelOK, TrailOK, PipesOK, Opening
  <1>6. RecordingOK(r)
    BY <1>1
    DEF TargetExits, ChannelType, Recording, ChannelOK, TrailOK, PipesOK, RecordingOK,
                Opening
  <1>7. ch' = [ch EXCEPT ![c] = r]
    BY <1>1 DEF TargetExits, ChannelType, Recording
  <1> QED
    BY <1>1, <1>2, <1>3, <1>4, <1>5, <1>6, <1>7, Update
    DEF TargetExits, connection, IInv, ChannelOK

(* What the recorder makes of a chunk. *)
LEMMA EventOK ==
    ASSUME NEW rec \in Recording, NEW x \in Chunk, NEW ok \in BOOLEAN
    PROVE  /\ Event(rec, x, ok) \in Recording
           /\ Event(rec, x, ok).state = rec.state
           /\ rec.chunks \subseteq Event(rec, x, ok).chunks
           /\ Event(rec, x, ok).state = "open" /\ ~ Event(rec, x, ok).err =>
                 ~ rec.err /\ x \in Event(rec, x, ok).chunks
  <1>1. CASE rec.state # "open" \/ rec.err
    BY <1>1 DEF Event, Recording
  <1>2. CASE rec.state = "open" /\ ~ rec.err /\ ok
    <2>1. Event(rec, x, ok) = [rec EXCEPT !.chunks = @ \union {x}]
      BY <1>2 DEF Event
    <2>2. rec.chunks \union {x} \in SUBSET Chunk
      BY DEF Recording
    <2> QED
      BY <1>2, <2>1, <2>2 DEF Recording
  <1>3. CASE rec.state = "open" /\ ~ rec.err /\ ~ ok
    <2>1. Event(rec, x, ok) = [rec EXCEPT !.err = TRUE]
      BY <1>3 DEF Event
    <2> QED
      BY <1>3, <2>1 DEF Recording
  <1> QED
    BY <1>1, <1>2, <1>3

(* A chunk is recorded before it is handed on. *)
LEMMA PipeReadsOK ==
    ASSUME IInv, NEW c \in Chans, NEW d \in Dirs, PipeReads(c, d)
    PROVE  IInv'
  <1>1. ch[c] \in ChannelType /\ ChannelOK(ch[c])
    BY DEF IInv, TypeOK
  <1>2. ch[c].pipe[d] = "reading"
    BY DEF PipeReads
  <1>3. PICK ok \in BOOLEAN :
          ch' = [ch EXCEPT ![c].next[d] = @ + 1, ![c].pipe[d] = "writing",
                           ![c].rec = Event(@, <<d, ch[c].next[d] + 1>>, ok)]
    BY DEF PipeReads
  <1>4. ch[c].next[d] + 1 \in Nat /\ <<d, ch[c].next[d] + 1>> \in Chunk
    BY <1>1 DEF ChannelType, Chunk
  <1>5. PICK e \in Recording :
          /\ e = Event(ch[c].rec, <<d, ch[c].next[d] + 1>>, ok)
          /\ e.state = ch[c].rec.state /\ ch[c].rec.chunks \subseteq e.chunks
          /\ e.state = "open" /\ ~ e.err =>
                ~ ch[c].rec.err /\ <<d, ch[c].next[d] + 1>> \in e.chunks
    BY <1>1, <1>4, EventOK DEF ChannelType
  <1> DEFINE r == [ch[c] EXCEPT !.next[d] = @ + 1, !.pipe[d] = "writing", !.rec = e]
  <1>6. /\ r.next[d] = ch[c].next[d] + 1 /\ r.pipe[d] = "writing" /\ r.rec = e
        /\ \A b \in Dirs \ {d} : r.next[b] = ch[c].next[b] /\ r.pipe[b] = ch[c].pipe[b]
        /\ \A b \in Dirs : ch[c].next[b] \in Nat
        /\ r.step = ch[c].step /\ r.sent = ch[c].sent /\ r.trail = ch[c].trail
    BY <1>1 DEF ChannelType
  <1>7. ~ ch[c].step \in Opening \union {"record"}
    BY <1>1, <1>2 DEF ChannelOK, PipesOK
  <1>8. r \in ChannelType
    BY <1>1, <1>2, <1>3, <1>4, <1>5, <1>6, <1>7 DEF ChannelType
  <1>9. ResizeOK(r)
    BY <1>1, <1>2, <1>3, <1>4, <1>5, <1>6, <1>7
    DEF ChannelType, Recording, ChannelOK, ResizeOK
  <1>10. TrailOK(r)
    BY <1>1, <1>6, <1>7 DEF ChannelType, ChannelOK, TrailOK, Opening
  <1>11. PipesOK(r)
    <2>1. ASSUME NEW x \in r.sent PROVE x[2] \in 1..r.next[x[1]]
      <3>1. x[1] \in Dirs /\ x[2] \in Nat /\ x[2] \in 1..ch[c].next[x[1]]
        BY <1>1, <1>6 DEF ChannelType, Chunk, ChannelOK, PipesOK
      <3> QED
        BY <1>6, <3>1
    <2>2. \A b \in Dirs : r.pipe[b] = "writing" => r.next[b] > 0
      BY <1>1, <1>6 DEF ChannelOK, PipesOK
    <2>3. r.step = "finalize" \/ r.rec.state = "closed" => \E b \in Dirs : r.pipe[b] = "ended"
      BY <1>1, <1>2, <1>5, <1>6 DEF ChannelOK, PipesOK
    <2> QED
      BY <1>6, <1>7, <2>1, <2>2, <2>3 DEF PipesOK
  <1>12. RecordingOK(r)
    <2>1. ASSUME r.rec.state = "open", ~ r.rec.err, NEW b \in Dirs, NEW k \in 1..r.next[b]
          PROVE  <<b, k>> \in r.rec.chunks
      <3>1. CASE k \in 1..ch[c].next[b]
        BY <1>1, <1>5, <1>6, <2>1, <3>1 DEF ChannelOK, RecordingOK
      <3>2. CASE b = d /\ k = ch[c].next[d] + 1
        BY <1>5, <1>6, <2>1, <3>2
      <3> QED
        BY <1>6, <2>1, <3>1, <3>2
    <2>2. config.recordings => r.rec.state # "none"
      <3>1. config.recordings => ch[c].rec.state # "none"
        BY <1>1, <1>2 DEF ChannelOK, RecordingOK
      <3> QED
        BY <1>5, <1>6, <3>1
    <2>3. r.rec.state = "closed" =>
            /\ r.step \in {"end", "close", "returned"}
            /\ \/ In("finalize failed", r.trail)
               \/ In("manifest", r.trail) /\ r.sent \subseteq r.rec.chunks
      BY <1>1, <1>5, <1>6 DEF ChannelOK, RecordingOK
    <2>4. r.rec.state = "open" => r.step \in {"piping", "finalize"}
      BY <1>1, <1>5, <1>6 DEF ChannelOK, RecordingOK
    <2> QED
      BY <2>1, <2>2, <2>3, <2>4 DEF RecordingOK
  <1>13. ch' = [ch EXCEPT ![c] = r]
    BY <1>1, <1>3, <1>5 DEF ChannelType
  <1> QED
    BY <1>1, <1>2, <1>3, <1>4, <1>5, <1>6, <1>7, <1>8, <1>9, <1>10, <1>11, <1>12, <1>13,
        Update
    DEF PipeReads, connection, IInv, ChannelOK

(* A chunk is handed on, and counts until the recorder is closed. *)
LEMMA PipeWritesOK ==
    ASSUME IInv, NEW c \in Chans, NEW d \in Dirs, PipeWrites(c, d)
    PROVE  IInv'
  <1>1. ch[c] \in ChannelType /\ ChannelOK(ch[c])
    BY DEF IInv, TypeOK
  <1>2. <<d, ch[c].next[d]>> \in Chunk
    BY <1>1 DEF ChannelType, Chunk
  <1>3. PICK S \in SUBSET Chunk :
          /\ S = IF ch[c].rec.state = "closed" THEN ch[c].sent
                 ELSE ch[c].sent \union {<<d, ch[c].next[d]>>}
          /\ \/ S = ch[c].sent
             \/ /\ S = ch[c].sent \union {<<d, ch[c].next[d]>>}
                /\ ch[c].rec.state # "closed"
    BY <1>1, <1>2 DEF ChannelType
  <1> DEFINE r == [ch[c] EXCEPT !.pipe[d] = "reading", !.sent = S]
  <1>4. r \in ChannelType
    <2>1. [ch[c].pipe EXCEPT ![d] = "reading"] \in [Dirs -> {"none", "reading", "writing", "ended"}]
      BY <1>1 DEF ChannelType
    <2> QED
      BY <1>1, <1>3, <2>1 DEF ChannelType
  <1>5. ResizeOK(r)
    BY <1>1, <1>2, <1>3 DEF PipeWrites, ChannelType, Recording, ChannelOK, ResizeOK
  <1>6. TrailOK(r)
    BY <1>1, <1>2, <1>3
    DEF PipeWrites, ChannelType, Recording, ChannelOK, TrailOK, PipesOK, Opening, Chunk
  <1>7. PipesOK(r)
    BY <1>1, <1>2, <1>3
    DEF PipeWrites, ChannelType, Recording, ChannelOK, TrailOK, PipesOK, Opening, Chunk
  <1>8. RecordingOK(r)
    BY <1>1, <1>2, <1>3
    DEF PipeWrites, ChannelType, Recording, ChannelOK, TrailOK, PipesOK, RecordingOK,
                Opening, Chunk
  <1>9. ch' = [ch EXCEPT ![c] = r]
    BY <1>1, <1>2, <1>3 DEF PipeWrites, ChannelType, Recording, Chunk
  <1> QED
    BY <1>1, <1>2, <1>3, <1>4, <1>5, <1>6, <1>7, <1>8, <1>9, Update
    DEF PipeWrites, connection, IInv, ChannelOK

(* Without a recording there is nothing to finalize ... *)
LEMMA FinalizeNoneOK ==
    ASSUME IInv, NEW c \in Chans, ch[c].rec.state = "none", Finalize(c)
    PROVE  IInv'
  <1>1. ch[c] \in ChannelType /\ ChannelOK(ch[c])
    BY DEF IInv, TypeOK
  <1> DEFINE r == [ch[c] EXCEPT !.step = "end"]
  <1>2. r \in ChannelType
    BY <1>1 DEF ChannelType
  <1>3. ResizeOK(r)
    BY <1>1 DEF Finalize, ChannelType, Recording, ChannelOK, ResizeOK
  <1>4. TrailOK(r)
    BY <1>1 DEF Finalize, ChannelType, Recording, ChannelOK, TrailOK, PipesOK, Opening, Go
  <1>5. PipesOK(r)
    BY <1>1 DEF Finalize, ChannelType, Recording, ChannelOK, TrailOK, PipesOK, Opening, Go
  <1>6. RecordingOK(r)
    BY <1>1 DEF Finalize, ChannelType, Recording, ChannelOK, TrailOK, PipesOK, RecordingOK,
                Opening, Go
  <1>7. ch' = [ch EXCEPT ![c] = r]
    BY <1>1 DEF Finalize, ChannelType, Recording, Go
  <1> QED
    BY <1>1, <1>2, <1>3, <1>4, <1>5, <1>6, <1>7, Update
    DEF Finalize, connection, IInv, ChannelOK

(* ... with one there is a manifest of all that was sent, or a failure. *)
LEMMA FinalizeOK ==
    ASSUME IInv, NEW c \in Chans, ch[c].rec.state # "none", Finalize(c)
    PROVE  IInv'
  <1>1. ch[c] \in ChannelType /\ ChannelOK(ch[c])
    BY DEF IInv, TypeOK
  <1>2. ch[c].rec.state = "open"
    BY <1>1 DEF Finalize, ChannelType, Recording, ChannelOK, RecordingOK
  <1>3. ~ ch[c].rec.err => ch[c].sent \subseteq ch[c].rec.chunks
    BY <1>1, <1>2 DEF ChannelType, Recording, Chunk, ChannelOK, PipesOK, RecordingOK
  <1>4. ch[c].trail \in Seq(Words) /\ Started(ch[c].trail)
    BY <1>1 DEF Finalize, ChannelType, ChannelOK, TrailOK, Opening
  <1>5. \A e \in {"manifest", "finalize failed"} : e \in Words /\ e # "end"
    BY DEF Words
  <1>6. \A e \in {"manifest", "finalize failed"} :
          /\ Append(ch[c].trail, e) \in Seq(Words) /\ Started(Append(ch[c].trail, e))
          /\ In(e, Append(ch[c].trail, e))
    BY <1>4, <1>5, TrailGrows, Zenon
  <1>7. PICK e \in {"manifest", "finalize failed"} :
          /\ e = "manifest" => ~ ch[c].rec.err
          /\ ch' = [ch EXCEPT ![c] = [ch[c] EXCEPT !.step = "end", !.rec.state = "closed",
                          !.trail = Append(@, e)]]
    <2>1. PICK ok \in BOOLEAN :
            ch' = [ch EXCEPT ![c].step = "end", ![c].rec.state = "closed",
                             ![c].trail = Append(@, Finalized(ch[c].rec, ok))]
      BY DEF Finalize
    <2> DEFINE f == Finalized(ch[c].rec, ok)
    <2>2. f \in {"manifest", "finalize failed"} /\ (f = "manifest" => ~ ch[c].rec.err)
      BY DEF Finalized
    <2>3. ch \in [Chans -> ChannelType]
      BY DEF IInv, TypeOK
    <2> HIDE DEF f
    <2>4. ch' = [ch EXCEPT ![c] = [ch[c] EXCEPT !.step = "end", !.rec.state = "closed",
                          !.trail = Append(@, f)]]
      BY <2>1, <2>3 DEF ChannelType, Recording, f
    <2> QED
      BY <2>2, <2>4
  <1> DEFINE r == [ch[c] EXCEPT !.step = "end", !.rec.state = "closed",
                          !.trail = Append(@, e)]
  <1>8. r \in ChannelType
    <2>1. [ch[c].rec EXCEPT !.state = "closed"] \in Recording
      BY <1>1 DEF ChannelType, Recording
    <2>2. Append(ch[c].trail, e) \in Seq(Words)
      BY <1>6
    <2> QED
      BY <1>1, <2>1, <2>2 DEF ChannelType
  <1>9. ResizeOK(r)
    BY <1>1, <1>2, <1>3, <1>4, <1>5, <1>6, <1>7
    DEF Finalize, ChannelType, Recording, ChannelOK, ResizeOK
  <1>10. TrailOK(r)
    BY <1>1, <1>2, <1>3, <1>4, <1>5, <1>6, <1>7
    DEF Finalize, ChannelType, Recording, ChannelOK, TrailOK, PipesOK, Opening, Finalized
  <1>11. PipesOK(r)
    BY <1>1, <1>2, <1>3, <1>4, <1>5, <1>6, <1>7
    DEF Finalize, ChannelType, Recording, ChannelOK, TrailOK, PipesOK, Opening, Finalized
  <1>12. RecordingOK(r)
    BY <1>1, <1>2, <1>3, <1>4, <1>5, <1>6, <1>7
    DEF Finalize, ChannelType, Recording, ChannelOK, TrailOK, PipesOK, RecordingOK,
                Opening, Finalized
  <1> QED
    BY <1>1, <1>2, <1>3, <1>4, <1>5, <1>6, <1>7, <1>8, <1>9, <1>10, <1>11, <1>12, Update
    DEF Finalize, connection, IInv, ChannelOK

-----------------------------------------------------------------------------
(* The steps of the specification. *)

(* A step that touches no channel. *)
LEMMA Same == ASSUME IInv, UNCHANGED <<ch, config, panicked>> PROVE IInv'
  <1>1. TypeOK' /\ ~ panicked'
    BY DEF IInv, TypeOK
  <1>2. ASSUME NEW b \in Chans PROVE ChannelOK(ch[b])'
    <2>1. ChannelOK(ch'[b])
      BY DEF IInv
    <2> QED
      BY <2>1 DEF ChannelOK, ResizeOK, TrailOK, PipesOK, RecordingOK
  <1> QED
    BY <1>1, <1>2 DEF IInv

(* The steps that only move a handler on. *)
LEMMA MovesOK ==
    ASSUME IInv, NEW c \in Chans,
           \/ Dial(c) \/ (Connect(c) /\ ~ UNCHANGED ch) \/ Dialed(c) \/ Refused(c)
           \/ OpenFiles(c) \/ FilesServed(c)
           \/ KeeperWrites(c) \/ KeeperWriteFails(c) \/ TakeNotice(c) \/ KeeperEnds(c)
    PROVE  IInv'
  <1>1. UNCHANGED <<config, panicked>>
    BY DEF Dial, Connect, Dialed, Refused, OpenFiles, FilesServed, KeeperWrites, KeeperWriteFails,
           TakeNotice, KeeperEnds, connection
  <1>2. ch[c].step \in Opening \ {"none", "begin"}
    BY DEF Dial, Connect, Dialed, Refused, OpenFiles, FilesServed, KeeperWrites, KeeperWriteFails,
           TakeNotice, KeeperEnds, Opening
  <1>3. \E t \in (Opening \ {"none", "begin"}) \union {"end"} : Go(c, t)
    BY DEF Dial, Connect, Dialed, Refused, OpenFiles, FilesServed, KeeperWrites, KeeperWriteFails,
           TakeNotice, KeeperEnds, Opening
  <1> QED
    BY <1>1, <1>2, <1>3, Moves

(* Every step of the specification preserves the invariant. *)
LEMMA NextOK == ASSUME IInv, [Next]_vars PROVE IInv'
  <1>1. ASSUME NEW c \in Chans, Serving(c) PROVE IInv'
    <2>1. CASE Connect(c) /\ UNCHANGED ch
      BY <2>1, Same DEF Connect, connection
    <2>2. CASE Connect(c) /\ ~ UNCHANGED ch
      BY <2>2, MovesOK
    <2>3. CASE Begin(c) \/ OpenShell(c) \/ SetupFails(c) \/ End(c) \/ Close(c) \/ Joined(c)
      BY <2>3, BeginOK, OpenShellOK, SetupFailsOK, EndOK, CloseOK, JoinedOK
    <2>4. CASE Dial(c) \/ Dialed(c) \/ Refused(c) \/ OpenFiles(c)
      BY <2>4, MovesOK
    <2>5. CASE LoopEnds(c)
      BY <2>5, LoopEndsIdleOK, LoopEndsServingOK
    <2> QED
      BY <1>1, <2>1, <2>2, <2>3, <2>4, <2>5 DEF Serving
  <1>2. ASSUME NEW c \in Chans, Shell(c) PROVE IInv'
    BY <1>2, RecorderFailsOK, StartPipesOK, PipingEndsOK, FinalizeNoneOK, FinalizeOK,
       ForwardResizeOK, ForwarderEndsOK DEF Shell
  <1>3. ASSUME NEW c \in Chans, Keeper(c) PROVE IInv'
    BY <1>3, MovesOK, KeeperDrainedOK DEF Keeper
  <1>4. ASSUME NEW c \in Chans, ShellRequest(c) \/ FilesRequest(c) PROVE IInv'
    BY <1>4, DispatchedOK DEF ShellRequest, FilesRequest
  <1>5. ASSUME NEW c \in Chans, Peers(c) PROVE IInv'
    BY <1>4, <1>5, OpenChannelOK, WindowChangeOK, MovesOK, TargetExitsOK, ClientEndsOK,
       PipeReadsOK, PipeWritesOK DEF Peers
  <1>6. ASSUME NEW c \in Chans, NEW d \in Dirs, PipeEnds(c, d) PROVE IInv'
    BY <1>6, PipeEndsOK
  <1>7. CASE Announce \/ CloseLeg \/ Deregister \/ Disconnected \/ Shutdown
    BY <1>7, Same DEF Announce, CloseLeg, Deregister, Disconnected, Shutdown
  <1>8. ASSUME NEW s \in Supervisors, Watch(s) PROVE IInv'
    BY <1>8, Same DEF Watch, connection
  <1>9. CASE UNCHANGED vars
    BY <1>9, Same DEF vars, connection
  <1> QED
    BY <1>1, <1>2, <1>3, <1>5, <1>6, <1>7, <1>8, <1>9 DEF Next

(* The invariant has the evidence in it. *)
LEMMA Covered == ASSUME IInv PROVE EvidenceCoversSession
  <1> SUFFICES ASSUME NEW c \in Chans, ch[c].step = "returned"
               PROVE  /\ IF SetupRefused(c) THEN ch[c].trail = <<"start">> ELSE Bracketed(ch[c].trail)
                      /\ config.recordings /\ ch[c].sent # {} =>
                            \/ /\ In("manifest", ch[c].trail)
                               /\ ch[c].sent \subseteq ch[c].rec.chunks
                            \/ In("finalize failed", ch[c].trail)
    BY DEF EvidenceCoversSession
  <1>1. ch[c] \in ChannelType /\ ChannelOK(ch[c])
    BY DEF IInv, TypeOK
  <1>2. SetupRefused(c) => ch[c].trail = <<"start">>
    BY <1>1 DEF ChannelOK, TrailOK, SetupRefused, StartOnly
  <1>3. ~ SetupRefused(c) => Bracketed(ch[c].trail)
    <2> SUFFICES ASSUME ~ SetupRefused(c) PROVE Bracketed(ch[c].trail)
      OBVIOUS
    <2>1. ch[c].trail \in Seq(Words) /\ Ended(ch[c].trail)
      BY <1>1 DEF ChannelType, ChannelOK, TrailOK, SetupRefused
    <2> QED
      BY <2>1 DEF Ended, Bracketed
  <1>4. config.recordings /\ ch[c].sent # {} => ch[c].rec.state = "closed"
    BY <1>1 DEF ChannelType, Recording, ChannelOK, RecordingOK
  <1> QED
    BY <1>1, <1>2, <1>3, <1>4 DEF ChannelOK, RecordingOK

(* Handlers, pipes and recordings keep step with the evidence of their session *)
(* in every reachable state: the inductive invariant of the channels.          *)
THEOREM Invariant == Spec => []IInv
  BY InitOK, NextOK, PTL DEF Spec

(* resizeCh has one sender, which closes it last: whatever order the requests *)
(* of a channel, the end of its shell and the end of the connection come in,  *)
(* no window-change panics the gateway (handleSession).                       *)
THEOREM ResizesAreSafe == Spec => []NoSendOnClosed
  <1>1. IInv => NoSendOnClosed
    BY DEF IInv, NoSendOnClosed
  <1> QED
    BY <1>1, Invariant, PTL

(* A session that has returned has a start and, last, an end in the evidence, *)
(* but for a shell whose pty, pipes or shell the target refused, which has a  *)
(* start alone (interactive.go:282-297); a recorded shell has a manifest of   *)
(* all that was handed on before the recorder was closed, or a failure: for   *)
(* any number of channels, chunks and failing writes (Recorder).              *)
THEOREM SessionsAreCovered == Spec => []EvidenceCoversSession
  <1>1. IInv => EvidenceCoversSession
    BY Covered
  <1> QED
    BY <1>1, Invariant, PTL

=============================================================================
