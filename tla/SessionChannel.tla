---------------------------- MODULE SessionChannel -----------------------------
(***************************************************************************)
(* The session channels of one connection (internal/session): the loop over *)
(* a channel's requests (handleSession), the goroutine it starts for a      *)
(* recorded shell or a tunnel keeper, the two pipes and the resize          *)
(* forwarder of a shell, the recorder (internal/recording), the brackets of *)
(* an sftp or scp session, whose transfers are module Transfer, and the     *)
(* registry's supervisors.                                                  *)
(*                                                                          *)
(* x/crypto/ssh and the peers are external.  A Close of the gateway's makes *)
(* its writes fail; reads and requests end once the client has closed the   *)
(* channel too, or the connection is gone.  A peer that does not read       *)
(* blocks a write for as long as it likes, and a target that does not       *)
(* answer what waits for it, until the leg is closed.                       *)
(***************************************************************************)
EXTENDS SessionRegistry

CONSTANTS Chans,       \* session channels
          Configs,     \* a target named? tunnels, shells, files, recordings, API on?
          ResizeCap,   \* the buffer of resizeCh, 4 in the code
          NoticeCap,   \* maxPendingTunnelNotices
          MaxChunks    \* bound: reads of each pipe

ASSUME ChannelAssumption ==
    {ResizeCap, NoticeCap} \subseteq Nat \ {0} /\ MaxChunks \in Nat

VARIABLES config,
          connected,   \* is the client's connection up?
          ctxDone,     \* the gateway's context is cancelled
          leg,         \* the target leg the channels share
          cleanup,     \* how far handleConn's deferred calls are
          notices,     \* how many notices the announcer holds
          panicked,    \* a send on a closed channel
          ch           \* the channels

connection == <<config, connected, ctxDone, leg, cleanup, notices, panicked>>
vars == <<connection, ch, registry>>

Dirs == {"in", "out"}   \* client to target, target to client

(* loop, step: where handleSession and the goroutine or call that serves the *)
(* channel are.  over: who has closed it, "eof" for the client's half.       *)
(* session, forwarder, pipe, rec: the shell's.  next, sent: how many chunks  *)
(* a pipe has read, and those handed on before the recorder was closed.      *)
NoChannel ==
    [loop |-> "none", kind |-> "none", step |-> "none", over |-> {},
     resizes |-> 0, resizeClosed |-> FALSE, forwarder |-> "none", session |-> "none",
     pipe |-> [d \in Dirs |-> "none"], next |-> [d \in Dirs |-> 0],
     rec |-> [state |-> "none", err |-> FALSE, chunks |-> {}],
     sent |-> {}, trail |-> << >>]

Init ==
    /\ config \in Configs
    /\ connected = TRUE /\ ctxDone = FALSE /\ leg = "none" /\ cleanup = "no"
    /\ notices = 0 /\ panicked = FALSE
    /\ ch = [c \in Chans |-> NoChannel]
    /\ RegistryInit(config.api)

(* What the ends of a channel, and of the shell behind it, let be seen. *)
InputOver(c)  == ~ connected \/ ch[c].over \intersect {"eof", "client"} # {}
OutputOver(c) == ~ connected \/ ch[c].over \intersect {"client", "gateway"} # {}
TargetOver(c) == ch[c].session # "open" \/ leg # "open"

SourceOver(c, d) == IF d = "in" THEN InputOver(c) ELSE TargetOver(c)
SinkOver(c, d)   == IF d = "in" THEN TargetOver(c) ELSE OutputOver(c)

Go(c, step)         == ch' = [ch EXCEPT ![c].step = step]
Record(c, e, step)  == ch' = [ch EXCEPT ![c].step = step, ![c].trail = Append(@, e)]

-----------------------------------------------------------------------------
(* handleSession: the requests of a channel. *)

OpenChannel(c) ==
    /\ ch[c].loop = "none" /\ cleanup = "no"
    /\ ch' = [ch EXCEPT ![c].loop = "requests"]
    /\ ChannelOpened
    /\ UNCHANGED connection

Dispatched(c, kind, loop) ==
    /\ ch[c].loop = "requests" /\ ch[c].kind = "none"
    /\ ch' = [ch EXCEPT ![c].kind = kind, ![c].step = "begin", ![c].loop = loop]
    /\ UNCHANGED <<connection, registry>>

(* shell: without a target a keeper, where tunnels are on; a shell, also     *)
(* without a target, where shells are on; a second one is refused.           *)
ShellRequest(c) ==
    IF ~ config.target /\ config.tunnels THEN Dispatched(c, "keeper", "requests")
    ELSE config.shells /\ Dispatched(c, "shell", "requests")

(* subsystem sftp and exec scp are served by the loop itself. *)
FilesRequest(c) == config.files /\ Dispatched(c, "files", "inline")

(* window-change: dropped when the buffer is full. *)
WindowChange(c) ==
    /\ ch[c].loop = "requests"
    /\ IF ch[c].resizeClosed THEN panicked' = TRUE /\ UNCHANGED ch
       ELSE /\ ch' = [ch EXCEPT ![c].resizes = IF @ < ResizeCap THEN @ + 1 ELSE @]
            /\ UNCHANGED panicked
    /\ UNCHANGED <<config, connected, ctxDone, leg, cleanup, notices, registry>>

(* mutant: resizeCh is left to the garbage collector. *)
LoopEndsUnclosed(c) ==
    /\ ch[c].loop = "requests" /\ (~ connected \/ "client" \in ch[c].over)
    /\ ch' = [ch EXCEPT ![c].loop = IF ch[c].kind = "none" THEN "returned" ELSE "waiting"]
    /\ IF ch[c].kind = "none" THEN ChannelClosed ELSE UNCHANGED registry
    /\ UNCHANGED connection

(* The requests end: resizeCh is closed and the goroutine, if any, awaited. *)
LoopEnds(c) ==
    /\ ch[c].loop = "requests" /\ (~ connected \/ "client" \in ch[c].over)
    /\ IF ch[c].kind = "none"
       THEN /\ ch' = [ch EXCEPT ![c].loop = "returned", ![c].resizeClosed = TRUE,
                                ![c].over = @ \union {"gateway"}]
            /\ ChannelClosed
       ELSE /\ ch' = [ch EXCEPT ![c].loop = "waiting", ![c].resizeClosed = TRUE]
            /\ UNCHANGED registry
    /\ UNCHANGED connection

(* shellDone, or the end of the call that served the files. *)
Joined(c) ==
    /\ ch[c].loop \in {"waiting", "inline"} /\ ch[c].step = "returned"
    /\ ch' = [ch EXCEPT ![c].loop = "returned"]
    /\ ChannelClosed
    /\ UNCHANGED connection

-----------------------------------------------------------------------------
(* runRecordedShell, runSFTP and runSCP up to the target's session. *)

Begin(c) ==
    /\ ch[c].step = "begin"
    /\ IF ch[c].kind = "keeper" THEN Record(c, "start", "banner")
       ELSE IF config.target THEN Record(c, "start", "dial")
       ELSE Record(c, "start", "end")
    /\ UNCHANGED <<connection, registry>>

(* getOrDial: the first channel dials, under the cache's mutex. *)
Dial(c) ==
    /\ ch[c].step = "dial" /\ leg = "none"
    /\ leg' = "dialing" /\ Go(c, "dialing")
    /\ UNCHANGED <<config, connected, ctxDone, cleanup, notices, panicked, registry>>

(* The TCP connection, which has a timeout ... *)
Connect(c) ==
    /\ ch[c].step = "dialing" /\ leg = "dialing"
    /\ \/ leg' = "handshaking" /\ UNCHANGED ch
       \/ leg' = "failed" /\ Go(c, "dial")
    /\ UNCHANGED <<config, connected, ctxDone, cleanup, notices, panicked, registry>>

(* ... and the SSH handshake, which has none. *)
Dialed(c) ==
    /\ ch[c].step = "dialing" /\ leg = "handshaking"
    /\ leg' \in {"open", "failed"} /\ Go(c, "dial")
    /\ UNCHANGED <<config, connected, ctxDone, cleanup, notices, panicked, registry>>

(* Policy denies the host, the dial failed or the target opens no session. *)
Refused(c) ==
    /\ ch[c].step = "dial"
    /\ Go(c, "end")
    /\ UNCHANGED <<connection, registry>>

OpenFiles(c) ==
    /\ ch[c].kind = "files" /\ ch[c].step = "dial" /\ leg = "open"
    /\ Go(c, "serving")
    /\ UNCHANGED <<connection, registry>>

(* A pty, the pipes and a shell on the target, and the resize forwarder. *)
OpenShell(c) ==
    /\ ch[c].kind = "shell" /\ ch[c].step = "dial" /\ leg = "open"
    /\ ch' = [ch EXCEPT ![c].step = "record", ![c].session = "open", ![c].forwarder = "running"]
    /\ UNCHANGED <<connection, registry>>

(* One of them is refused: the shell returns, and no end is recorded. *)
SetupFails(c) ==
    /\ ch[c].kind = "shell" /\ ch[c].step = "dial" /\ leg \in {"open", "closed"}
    /\ ch' = [ch EXCEPT ![c].step = "close", ![c].session = "closed"]
    /\ UNCHANGED <<connection, registry>>

(* Serve returns when the client is done or gone; scp also by itself. *)
FilesServed(c) ==
    /\ ch[c].step = "serving"
    /\ Go(c, "end")
    /\ UNCHANGED <<connection, registry>>

-----------------------------------------------------------------------------
(* The recorded shell. *)

(* Create, or the header, fails: no shell without a recording. *)
RecorderFails(c) ==
    /\ ch[c].step = "record" /\ config.recordings
    /\ Record(c, "no recording", "end")
    /\ UNCHANGED <<connection, registry>>

StartPipes(c) ==
    /\ ch[c].step = "record"
    /\ ch' = [ch EXCEPT ![c].step = "piping",
                        ![c].rec.state = IF config.recordings THEN "open" ELSE "none",
                        ![c].pipe = [d \in Dirs |-> "reading"]]
    /\ UNCHANGED <<connection, registry>>

(* Recorder.event, with the outcome ok or not of the write to the store:     *)
(* after its first error, and once closed, the recorder drops what it gets.  *)
Event(rec, chunk, ok) ==
    IF rec.state # "open" \/ rec.err THEN rec
    ELSE IF ok THEN [rec EXCEPT !.chunks = @ \union {chunk}] ELSE [rec EXCEPT !.err = TRUE]

(* A pipe reads a chunk and records it ... *)
PipeReads(c, d) ==
    /\ ch[c].pipe[d] = "reading" /\ ch[c].next[d] < MaxChunks
    /\ \E ok \in BOOLEAN :
           ch' = [ch EXCEPT ![c].next[d] = @ + 1, ![c].pipe[d] = "writing",
                            ![c].rec = Event(@, <<d, ch[c].next[d] + 1>>, ok)]
    /\ UNCHANGED <<connection, registry>>

(* ... then hands it on, ... *)
PipeWrites(c, d) ==
    /\ ch[c].pipe[d] = "writing" /\ ~ SinkOver(c, d)
    /\ ch' = [ch EXCEPT ![c].pipe[d] = "reading",
                        ![c].sent = IF ch[c].rec.state = "closed" THEN @
                                    ELSE @ \union {<<d, ch[c].next[d]>>}]
    /\ UNCHANGED <<connection, registry>>

(* ... until there is nothing to read, or the write fails. *)
PipeEnds(c, d) ==
    /\ \/ ch[c].pipe[d] = "reading" /\ SourceOver(c, d)
       \/ ch[c].pipe[d] = "writing" /\ SinkOver(c, d)
    /\ ch' = [ch EXCEPT ![c].pipe[d] = "ended"]
    /\ UNCHANGED <<connection, registry>>

(* <-done: one direction is enough. *)
PipingEnds(c) ==
    /\ ch[c].step = "piping" /\ \E d \in Dirs : ch[c].pipe[d] = "ended"
    /\ Go(c, "finalize")
    /\ UNCHANGED <<connection, registry>>

(* mutant: only the error of this close is looked at. *)
FinalizedIgnoring(rec, ok) == IF ok THEN "manifest" ELSE "finalize failed"

(* Recorder.Close: a manifest, unless a write or this close has failed. *)
Finalized(rec, ok) == IF ok /\ ~ rec.err THEN "manifest" ELSE "finalize failed"

Finalize(c) ==
    /\ ch[c].step = "finalize"
    /\ IF ch[c].rec.state = "none" THEN Go(c, "end")
       ELSE \E ok \in BOOLEAN :
                ch' = [ch EXCEPT ![c].step = "end", ![c].rec.state = "closed",
                                 ![c].trail = Append(@, Finalized(ch[c].rec, ok))]
    /\ UNCHANGED <<connection, registry>>

ForwardResize(c) ==
    /\ ch[c].forwarder = "running" /\ ch[c].resizes > 0
    /\ ch' = [ch EXCEPT ![c].resizes = @ - 1]
    /\ UNCHANGED <<connection, registry>>

ForwarderEnds(c) ==
    /\ ch[c].forwarder = "running" /\ ch[c].resizes = 0 /\ ch[c].resizeClosed
    /\ ch' = [ch EXCEPT ![c].forwarder = "ended"]
    /\ UNCHANGED <<connection, registry>>

-----------------------------------------------------------------------------
(* runTunnelKeeper. *)

(* The banner, and a notice, may wait for a client that does not read. *)
KeeperWrites(c) ==
    /\ ch[c].step \in {"banner", "notice"} /\ ~ OutputOver(c)
    /\ Go(c, "holding")
    /\ UNCHANGED <<connection, registry>>

(* Only the failure of a notice is looked at. *)
KeeperWriteFails(c) ==
    /\ ch[c].step \in {"banner", "notice"} /\ OutputOver(c)
    /\ Go(c, IF ch[c].step = "banner" THEN "holding" ELSE "end")
    /\ UNCHANGED <<connection, registry>>

TakeNotice(c) ==
    /\ ch[c].step = "holding" /\ notices > 0
    /\ notices' = notices - 1 /\ Go(c, "notice")
    /\ UNCHANGED <<config, connected, ctxDone, leg, cleanup, panicked, registry>>

(* clientGone: the channel ends, or a Ctrl-C arrives, which is an "eof" here. *)
KeeperEnds(c) ==
    /\ ch[c].step = "holding" /\ InputOver(c)
    /\ Go(c, "end")
    /\ UNCHANGED <<connection, registry>>

(* The watcher closes the channel when the gateway drains. *)
KeeperDrained(c) ==
    /\ ch[c].step \in {"holding", "notice"} /\ ctxDone /\ "gateway" \notin ch[c].over
    /\ ch' = [ch EXCEPT ![c].over = @ \union {"gateway"}]
    /\ UNCHANGED <<connection, registry>>

(* announce, from a tunnel of the connection: dropped when the buffer is full. *)
Announce ==
    /\ connected /\ config.tunnels /\ notices < NoticeCap
    /\ notices' = notices + 1
    /\ UNCHANGED <<config, connected, ctxDone, leg, cleanup, panicked, ch, registry>>

-----------------------------------------------------------------------------
(* The end of a shell, a keeper, an sftp or scp session. *)

End(c) ==
    /\ ch[c].step = "end"
    /\ Record(c, "end", "close")
    /\ UNCHANGED <<connection, registry>>

(* mutant: the receiver closes resizeCh. *)
CloseClosingResizes(c) ==
    /\ ch[c].step = "close"
    /\ ch' = [ch EXCEPT ![c].step = "returned", ![c].over = @ \union {"gateway"},
                        ![c].session = IF @ = "open" THEN "closed" ELSE @,
                        ![c].resizeClosed = TRUE]
    /\ UNCHANGED <<connection, registry>>

(* The deferred closes: the target's session, then the channel. *)
Close(c) ==
    /\ ch[c].step = "close"
    /\ ch' = [ch EXCEPT ![c].step = "returned", ![c].over = @ \union {"gateway"},
                        ![c].session = IF @ = "open" THEN "closed" ELSE @]
    /\ UNCHANGED <<connection, registry>>

-----------------------------------------------------------------------------
(* handleConn's deferred calls once the connection is gone: tch.close, which *)
(* waits for a dial, then deregister.                                        *)

CloseLeg ==
    /\ ~ connected /\ cleanup = "no" /\ leg \notin {"dialing", "handshaking"}
    /\ cleanup' = "leg" /\ leg' = IF leg = "open" THEN "closed" ELSE leg
    /\ UNCHANGED <<config, connected, ctxDone, notices, panicked, ch, registry>>

Deregister ==
    /\ \/ cleanup = "leg" /\ cleanup' = "published" /\ PublishEnd
       \/ cleanup = "published" /\ cleanup' = "done" /\ RemoveEntry
    /\ UNCHANGED <<config, connected, ctxDone, leg, notices, panicked, ch>>

-----------------------------------------------------------------------------
(* The peers. *)

(* The client ends its half of a channel or closes it, the answer to a       *)
(* close of the gateway's included; the target's shell exits.                *)
ClientEnds(c, half) ==
    /\ ch[c].loop # "none" /\ half \notin ch[c].over /\ connected
    /\ ch' = [ch EXCEPT ![c].over = @ \union {half}]
    /\ UNCHANGED <<connection, registry>>

TargetExits(c) ==
    /\ ch[c].session = "open"
    /\ ch' = [ch EXCEPT ![c].session = "closed"]
    /\ UNCHANGED <<connection, registry>>

(* The client leaves, or Terminate closes its connection. *)
Disconnected ==
    /\ connected
    /\ connected' = FALSE
    /\ UNCHANGED <<config, ctxDone, leg, cleanup, notices, panicked, ch, registry>>

(* SIGTERM; of what is modelled here only a keeper looks at it. *)
Shutdown ==
    /\ ~ ctxDone /\ \E c \in Chans : ch[c].kind = "keeper"
    /\ ctxDone' = TRUE
    /\ UNCHANGED <<config, connected, leg, cleanup, notices, panicked, ch, registry>>

Watch(s) ==
    /\ Get(s) \/ Subscribe(s) \/ Deliver(s) \/ Detach(s)
    /\ UNCHANGED <<connection, ch>>

-----------------------------------------------------------------------------
(* The gateway's own steps: all but those that wait for a peer. *)
Shell(c) ==
    \/ RecorderFails(c) \/ StartPipes(c) \/ PipingEnds(c) \/ Finalize(c)
    \/ ForwardResize(c) \/ ForwarderEnds(c)

Serving(c) ==
    \/ Begin(c) \/ Dial(c) \/ Connect(c) \/ Dialed(c) \/ Refused(c) \/ OpenFiles(c) \/ OpenShell(c)
    \/ SetupFails(c) \/ End(c) \/ Close(c) \/ LoopEnds(c) \/ Joined(c)

Keeper(c) == KeeperWriteFails(c) \/ TakeNotice(c) \/ KeeperEnds(c) \/ KeeperDrained(c)

Peers(c) ==
    \/ OpenChannel(c) \/ ShellRequest(c) \/ FilesRequest(c) \/ WindowChange(c)
    \/ FilesServed(c) \/ KeeperWrites(c) \/ TargetExits(c)
    \/ \E half \in {"eof", "client"} : ClientEnds(c, half)
    \/ \E d \in Dirs : PipeReads(c, d) \/ PipeWrites(c, d)

Next ==
    \/ \E c \in Chans :
           \/ Serving(c) \/ Shell(c) \/ Keeper(c) \/ Peers(c)
           \/ \E d \in Dirs : PipeEnds(c, d)
    \/ Announce \/ CloseLeg \/ Deregister \/ Disconnected \/ Shutdown
    \/ \E s \in Supervisors : Watch(s)

(* The gateway's goroutines run, and the stores' calls end; what waits for    *)
(* the target goes on once the leg is closed or has failed, what waits for    *)
(* the client (a TCP connection too, which may need its agent first) once     *)
(* the connection is gone; a supervisor reads what it is sent.  Nothing makes *)
(* a client or a target read, write, answer or leave: the SSH handshake with  *)
(* the target may take for ever.                                             *)
Fairness ==
    /\ \A c \in Chans :
           /\ WF_vars(Begin(c)) /\ WF_vars(Dial(c)) /\ WF_vars(~ connected /\ Connect(c))
           /\ WF_vars(leg \in {"closed", "failed"} /\ (Refused(c) \/ SetupFails(c)))
           /\ WF_vars(RecorderFails(c) \/ StartPipes(c)) /\ WF_vars(PipingEnds(c))
           /\ WF_vars(Finalize(c)) /\ WF_vars(End(c)) /\ WF_vars(Close(c))
           /\ WF_vars(leg # "open" /\ ForwardResize(c)) /\ WF_vars(ForwarderEnds(c))
           /\ WF_vars(LoopEnds(c)) /\ WF_vars(Joined(c))
           /\ WF_vars(~ connected /\ leg # "open" /\ FilesServed(c))
           /\ WF_vars(Keeper(c))
           /\ \A d \in Dirs : WF_vars(PipeEnds(c, d))
    /\ WF_vars(CloseLeg) /\ WF_vars(Deregister)
    /\ \A s \in Supervisors : WF_vars(Deliver(s) /\ UNCHANGED <<connection, ch>>)

Spec == Init /\ [][Next]_vars
FairSpec == Spec /\ Fairness

-----------------------------------------------------------------------------
(* Properties. *)

In(e, s) == \E i \in DOMAIN s : s[i] = e

(* resizeCh is closed by its only sender: a window-change that comes after   *)
(* the shell has ended never meets a closed channel (handleSession).         *)
NoSendOnClosed == ~ panicked

(* A shell whose pty, pipes or shell the target refused. *)
SetupRefused(c) == ch[c].session = "closed" /\ ch[c].forwarder = "none"

Bracketed(trail) ==
    /\ trail # << >> /\ Head(trail) = "start"
    /\ \A i \in DOMAIN trail : (trail[i] = "end") <=> (i = Len(trail))

(* A session that was started ends in the evidence, once and last, on five   *)
(* of the nine ways out of runRecordedShell and on every one of the others;  *)
(* on the four where the target refuses the pty, a pipe or the shell         *)
(* (interactive.go:282-297) its trail is a start alone.  Of a recorded shell *)
(* that ended there is a manifest, and every chunk handed on in either       *)
(* direction before the recorder was closed is in the recording, or an event *)
(* that says there is no such recording (Recorder).                          *)
EvidenceCoversSession ==
    \A c \in Chans : LET trail == ch[c].trail IN
        ch[c].step = "returned" =>
            /\ IF SetupRefused(c) THEN trail = <<"start">> ELSE Bracketed(trail)
            /\ config.recordings /\ ch[c].sent # {} =>
                  \/ In("manifest", trail) /\ ch[c].sent \subseteq ch[c].rec.chunks
                  \/ In("finalize failed", trail)

Quiet(c) ==
    /\ ch[c].loop \in {"none", "returned"} /\ ch[c].forwarder # "running"
    /\ \A d \in Dirs : ch[c].pipe[d] \in {"none", "ended"}

(* The target holds a handler: it never finishes the SSH handshake, or the   *)
(* leg was dialed after tch.close and nobody is left to close it.            *)
HeldByTarget == leg = "handshaking" \/ (leg = "open" /\ cleanup # "no")

(* When the connection is gone, however that came about, nothing of its      *)
(* channels stays, neither handler nor pipe nor forwarder, unless the target *)
(* holds them for ever in one of the two ways the gateway does not bound     *)
(* (target.go:280, 335).                                                     *)
ChannelsEnd == \A c \in Chans : (~ connected ~> Quiet(c)) \/ <>[]HeldByTarget

(* The stream of a supervisor who is attached when the session ends is ended  *)
(* (registry.go:118-119), if the supervisor keeps up.  The comment there      *)
(* claims it of every attached one, but the event is dropped for one whose    *)
(* buffer is full just then; and a target that never finishes its SSH         *)
(* handshake keeps handleConn from ever publishing it.                        *)
StreamsEnd ==
    \A s \in Supervisors :
       \/ ~ connected /\ ~ ended /\ s \in Streaming ~> s \notin Streaming
       \/ <>(cleanup = "leg" /\ Full(s))
       \/ <>[](leg = "handshaking")
=============================================================================
