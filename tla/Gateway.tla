-------------------------------- MODULE Gateway --------------------------------
(***************************************************************************)
(* The life of client connections in the gateway process: Serve on one or   *)
(* two listeners, the handshake slots, handleConn with the password stashed *)
(* for the target, the channel handlers with the target leg they share      *)
(* (internal/session/session.go, target.go), the registry that can          *)
(* terminate a session (internal/sessions/registry.go), and the drain at    *)
(* shutdown (cmd/omni-sag/main.go).                                         *)
(*                                                                          *)
(* handleConn does not wait for the handlers it starts: they may run on     *)
(* after it has returned, and the model keeps them apart.                   *)
(***************************************************************************)
EXTENDS Naturals, FiniteSets

CONSTANTS Listeners,    \* Serve calls: the main one, and one for TLS
          MainListener, \* the one main waits for
          Conns,        \* TCP connections of clients
          Port,         \* the listener each of them connects to
          Handlers,     \* names for the channels of a connection
          Openable,     \* bound: the channels <<c, h>> the clients open
          MaxHandshakes,\* capacity of s.sem
          MaxChannels,  \* maxChannelsPerConn
          None

ASSUME GatewayAssumption ==
    /\ MainListener \in Listeners
    /\ MaxHandshakes \in Nat \ {0}
    /\ MaxChannels \in Nat \ {0}
    /\ Openable \subseteq Conns \X Handlers
    /\ None \notin Conns
    /\ None \notin Handlers
    /\ Port \in [Conns -> Listeners]

VARIABLES ctxDone,   \* main's context is cancelled
          draining,  \* s.draining
          lnClosed,  \* listeners that are closed
          serve,     \* Serve: [pc, the connection it is admitting]
          conn,      \* handleConn per connection
          peer,      \* is the client's side of the connection alive?
          secret,    \* the target password: "none", "stashed", "taken", "destroyed"
          leg,       \* targetConnCache: [dialed, client, the dialing handler]
          handler,   \* channel handlers per connection
          drain      \* Drain: "no", "waiting", "clean", "elapsed"; "never" if main failed

process == <<ctxDone, draining, lnClosed, serve, drain>>
vars == <<process, conn, peer, secret, leg, handler>>

Accepting == [pc |-> "accepting", conn |-> None]
Stopped   == [pc |-> "returned", conn |-> None]
NoLeg     == [dialed |-> FALSE, client |-> "none", by |-> None]

(* Connections counted by s.wg and s.active. *)
Active == {c \in Conns : conn[c] \in {"handshake", "serving", "closing", "cleaning"}}

InHandshake == {c \in Conns : conn[c] = "handshake"}

Running(c) == {h \in Handlers : handler[c][h] \notin {"none", "done"}}

Init ==
    /\ ctxDone = FALSE
    /\ draining = FALSE
    /\ lnClosed = {}
    /\ serve = [l \in Listeners |-> Accepting]
    /\ conn = [c \in Conns |-> "none"]
    /\ peer = [c \in Conns |-> FALSE]
    /\ secret = [c \in Conns |-> "none"]
    /\ leg = [c \in Conns |-> NoLeg]
    /\ handler = [c \in Conns |-> [h \in Handlers |-> "none"]]
    /\ drain = "no"

-----------------------------------------------------------------------------
(* SIGTERM: main's context ends; every Serve stores draining, then closes    *)
(* its listener.                                                             *)
Cancel ==
    /\ ~ctxDone
    /\ drain # "never"
    /\ ctxDone' = TRUE
    /\ UNCHANGED <<draining, lnClosed, serve, drain, conn, peer, secret, leg, handler>>

StoreDraining ==
    /\ ctxDone
    /\ ~draining
    /\ draining' = TRUE
    /\ UNCHANGED <<ctxDone, lnClosed, serve, drain, conn, peer, secret, leg, handler>>

CloseListener(l) ==
    /\ draining
    /\ l \notin lnClosed
    /\ lnClosed' = lnClosed \cup {l}
    /\ UNCHANGED <<ctxDone, draining, serve, drain, conn, peer, secret, leg, handler>>

(* Serve accepts a connection, and refuses it while draining. *)
Accept(l, c) ==
    /\ serve[l] = Accepting
    /\ l \notin lnClosed
    /\ Port[c] = l
    /\ conn[c] = "none"
    /\ IF draining
       THEN conn' = [conn EXCEPT ![c] = "refused"] /\ UNCHANGED serve
       ELSE conn' = [conn EXCEPT ![c] = "queued"] /\ serve' = [serve EXCEPT ![l] = [pc |-> "slot", conn |-> c]]
    /\ peer' = [peer EXCEPT ![c] = ~draining]
    /\ UNCHANGED <<ctxDone, draining, lnClosed, drain, secret, leg, handler>>

SlotFree == Cardinality(InHandshake) < MaxHandshakes

(* It waits for a handshake slot, counts the connection and starts handleConn ... *)
Admit(l) ==
    /\ serve[l].pc = "slot"
    /\ SlotFree
    /\ conn' = [conn EXCEPT ![serve[l].conn] = "handshake"]
    /\ serve' = [serve EXCEPT ![l] = Accepting]
    /\ UNCHANGED <<ctxDone, draining, lnClosed, drain, peer, secret, leg, handler>>

(* mutant: the wait for a slot ignores the context. *)
AdmitCancelledNever(l) == FALSE /\ UNCHANGED vars

(* ... unless the context ends first. *)
AdmitCancelled(l) ==
    /\ serve[l].pc = "slot"
    /\ ctxDone
    /\ conn' = [conn EXCEPT ![serve[l].conn] = "refused"]
    /\ peer' = [peer EXCEPT ![serve[l].conn] = FALSE]
    /\ serve' = [serve EXCEPT ![l] = Stopped]
    /\ UNCHANGED <<ctxDone, draining, lnClosed, drain, secret, leg, handler>>

(* Serve ends when its closed listener fails Accept ... *)
ServeReturns(l) ==
    /\ serve[l] = Accepting
    /\ l \in lnClosed
    /\ serve' = [serve EXCEPT ![l] = Stopped]
    /\ UNCHANGED <<ctxDone, draining, lnClosed, drain, conn, peer, secret, leg, handler>>

(* ... or when an open one does (no descriptors left, say).  For main that is *)
(* an error it returns with, without a drain; the TLS listener just stops.   *)
AcceptFails(l) ==
    /\ serve[l] = Accepting
    /\ ~ctxDone
    /\ serve' = [serve EXCEPT ![l] = Stopped]
    /\ drain' = IF l = MainListener THEN "never" ELSE drain
    /\ UNCHANGED <<ctxDone, draining, lnClosed, conn, peer, secret, leg, handler>>

-----------------------------------------------------------------------------
(* The keyboard-interactive callback of prompt mode collects the password. *)
StashTargetSecret(c) ==
    /\ conn[c] = "handshake"
    /\ peer[c]
    /\ secret[c] = "none"
    /\ secret' = [secret EXCEPT ![c] = "stashed"]
    /\ UNCHANGED <<process, conn, peer, leg, handler>>

(* NewServerConn succeeds: the slot is released, the session registered. *)
HandshakeSucceeds(c) ==
    /\ conn[c] = "handshake"
    /\ peer[c]
    /\ conn' = [conn EXCEPT ![c] = "serving"]
    /\ UNCHANGED <<process, peer, secret, leg, handler>>

(* ... or fails: a refused login, a client that left, the deadline.  Nothing  *)
(* is deferred yet, and a password that was stashed stays.                   *)
HandshakeFails(c) ==
    /\ conn[c] = "handshake"
    /\ conn' = [conn EXCEPT ![c] = "failed"]
    /\ peer' = [peer EXCEPT ![c] = FALSE]
    /\ UNCHANGED <<process, secret, leg, handler>>

(* The client leaves. *)
ClientLeaves(c) ==
    /\ conn[c] \in {"queued", "handshake", "serving"}
    /\ peer[c]
    /\ peer' = [peer EXCEPT ![c] = FALSE]
    /\ UNCHANGED <<process, conn, secret, leg, handler>>

(* The API terminates a registered session: its connection is closed. *)
Terminate(c) ==
    /\ conn[c] \in {"serving", "closing"}
    /\ peer' = [peer EXCEPT ![c] = FALSE]
    /\ UNCHANGED <<process, conn, secret, leg, handler>>

(* handleConn's loop starts a handler per channel, up to maxChannelsPerConn;  *)
(* channels the client opened before it left may still be in the queue.      *)
OpenChannel(c, h) ==
    /\ conn[c] = "serving"
    /\ <<c, h>> \in Openable
    /\ handler[c][h] = "none"
    /\ Cardinality(Running(c)) < MaxChannels
    /\ \E kind \in {"session", "tunnel"} :
          handler' = [handler EXCEPT ![c][h] = kind]
    /\ UNCHANGED <<process, conn, peer, secret, leg>>

(* The channel stream ends with the connection: the deferred calls begin. *)
LoopEnds(c) ==
    /\ conn[c] = "serving"
    /\ ~peer[c]
    /\ conn' = [conn EXCEPT ![c] = "closing"]
    /\ UNCHANGED <<process, peer, secret, leg, handler>>

(* mutant: the clean-up waits for the handlers. *)
CloseLegJoining(c) ==
    /\ conn[c] = "closing"
    /\ Running(c) = {}
    /\ leg' = [leg EXCEPT ![c].client = IF @ = "open" THEN "closed" ELSE @]
    /\ conn' = [conn EXCEPT ![c] = "cleaning"]
    /\ UNCHANGED <<process, peer, secret, handler>>

(* tch.close, which waits for the mutex a dialing handler holds. *)
CloseLeg(c) ==
    /\ conn[c] = "closing"
    /\ leg[c].by = None
    /\ leg' = [leg EXCEPT ![c].client = IF @ = "open" THEN "closed" ELSE @]
    /\ conn' = [conn EXCEPT ![c] = "cleaning"]
    /\ UNCHANGED <<process, peer, secret, handler>>

(* Deregister, destroy a password nobody used, close the connection. *)
FinishConn(c) ==
    /\ conn[c] = "cleaning"
    /\ conn' = [conn EXCEPT ![c] = "closed"]
    /\ secret' = [secret EXCEPT ![c] = IF @ = "stashed" THEN "destroyed" ELSE @]
    /\ UNCHANGED <<process, peer, leg, handler>>

-----------------------------------------------------------------------------
(* mutant: the password is read and left in pendingSecrets. *)
DialBeginsLoading(c, h) ==
    /\ handler[c][h] = "session"
    /\ leg[c].by = None
    /\ ~leg[c].dialed
    /\ secret[c] # "destroyed"
    /\ leg' = [leg EXCEPT ![c].by = h]
    /\ handler' = [handler EXCEPT ![c][h] = "dialing"]
    /\ UNCHANGED <<process, conn, peer, secret>>

(* getOrDial: the first handler dials, under the mutex of the cache.  In     *)
(* prompt mode the leg takes the stashed password, and is refused without it.*)
DialBegins(c, h) ==
    /\ handler[c][h] = "session"
    /\ leg[c].by = None
    /\ ~leg[c].dialed
    /\ IF secret[c] = "destroyed"
       THEN /\ leg' = [leg EXCEPT ![c].dialed = TRUE]
            /\ handler' = [handler EXCEPT ![c][h] = "done"]
            /\ UNCHANGED secret
       ELSE /\ leg' = [leg EXCEPT ![c].by = h]
            /\ handler' = [handler EXCEPT ![c][h] = "dialing"]
            /\ secret' = [secret EXCEPT ![c] = IF @ = "stashed" THEN "taken" ELSE @]
    /\ UNCHANGED <<process, conn, peer>>

(* The target accepts the TCP connection; the SSH handshake with it has no   *)
(* deadline.                                                                 *)
Connected(c, h) ==
    /\ handler[c][h] = "dialing"
    /\ handler' = [handler EXCEPT ![c][h] = "handshaking"]
    /\ UNCHANGED <<process, conn, peer, secret, leg>>

DialSucceeds(c, h) ==
    /\ handler[c][h] = "handshaking"
    /\ leg' = [leg EXCEPT ![c] = [dialed |-> TRUE, client |-> "open", by |-> None]]
    /\ handler' = [handler EXCEPT ![c][h] = "piping"]
    /\ UNCHANGED <<process, conn, peer, secret>>

(* mutant: a failed dial is forgotten, and the next channel tries again. *)
DialFailsForgotten(c, h) ==
    /\ handler[c][h] \in {"dialing", "handshaking"}
    /\ leg' = [leg EXCEPT ![c] = NoLeg]
    /\ handler' = [handler EXCEPT ![c][h] = "done"]
    /\ UNCHANGED <<process, conn, peer, secret>>

(* No credential, no connection within the timeout, or a refused handshake. *)
DialFails(c, h) ==
    /\ handler[c][h] \in {"dialing", "handshaking"}
    /\ leg' = [leg EXCEPT ![c] = [dialed |-> TRUE, client |-> "none", by |-> None]]
    /\ handler' = [handler EXCEPT ![c][h] = "done"]
    /\ UNCHANGED <<process, conn, peer, secret>>

(* Later handlers share the leg, or its failure. *)
LegShared(c, h) ==
    /\ handler[c][h] = "session"
    /\ leg[c].dialed
    /\ handler' = [handler EXCEPT ![c][h] = IF leg[c].client = "none" THEN "done" ELSE "piping"]
    /\ UNCHANGED <<process, conn, peer, secret, leg>>

(* A handler ends: a refusal before the dial, the end of the shell or of the *)
(* tunnel, a recovered panic.                                                *)
HandlerEnds(c, h) ==
    /\ handler[c][h] \in {"session", "piping", "tunnel"}
    /\ handler' = [handler EXCEPT ![c][h] = "done"]
    /\ UNCHANGED <<process, conn, peer, secret, leg>>

-----------------------------------------------------------------------------
(* mutant: main drains without waiting for Serve. *)
DrainStartsEarly ==
    /\ drain = "no"
    /\ ctxDone
    /\ drain' = "waiting"
    /\ UNCHANGED <<ctxDone, draining, lnClosed, serve, conn, peer, secret, leg, handler>>

(* main: Drain once its Serve has returned, ... *)
DrainStarts ==
    /\ drain = "no"
    /\ serve[MainListener] = Stopped
    /\ drain' = "waiting"
    /\ UNCHANGED <<ctxDone, draining, lnClosed, serve, conn, peer, secret, leg, handler>>

(* ... until s.wg is zero ... *)
DrainClean ==
    /\ drain = "waiting"
    /\ Active = {}
    /\ drain' = "clean"
    /\ UNCHANGED <<ctxDone, draining, lnClosed, serve, conn, peer, secret, leg, handler>>

(* ... or the grace period is over. *)
DrainElapses ==
    /\ drain = "waiting"
    /\ drain' = "elapsed"
    /\ UNCHANGED <<ctxDone, draining, lnClosed, serve, conn, peer, secret, leg, handler>>

Next ==
    \/ Cancel \/ StoreDraining \/ DrainStarts \/ DrainClean \/ DrainElapses
    \/ \E l \in Listeners :
          \/ CloseListener(l) \/ Admit(l) \/ AdmitCancelled(l) \/ ServeReturns(l) \/ AcceptFails(l)
          \/ \E c \in Conns : Accept(l, c)
    \/ \E c \in Conns :
          \/ StashTargetSecret(c) \/ HandshakeSucceeds(c) \/ HandshakeFails(c)
          \/ ClientLeaves(c) \/ Terminate(c)
          \/ LoopEnds(c) \/ CloseLeg(c) \/ FinishConn(c)
          \/ \E h \in Handlers :
                \/ OpenChannel(c, h) \/ DialBegins(c, h) \/ Connected(c, h)
                \/ DialSucceeds(c, h) \/ DialFails(c, h)
                \/ LegShared(c, h) \/ HandlerEnds(c, h)

(* A dial up to its TCP connection: bounded by timeouts, but in passthrough   *)
(* mode also by the agent of a client that is still there.                   *)
ConnectEnds(c, h) == handler[c][h] = "dialing" /\ ~peer[c] /\ (Connected(c, h) \/ DialFails(c, h))

(* Runnable goroutines run, the grace timer fires, and the TCP part of a dial *)
(* ends.  Clients need do nothing, not even finish their handshakes; nor need *)
(* a target finish the one with the gateway.                                 *)
Fairness ==
    /\ WF_vars(StoreDraining) /\ WF_vars(DrainStarts) /\ WF_vars(DrainClean \/ DrainElapses)
    /\ \A l \in Listeners : /\ WF_vars(CloseListener(l))
                            /\ WF_vars(Admit(l) \/ AdmitCancelled(l))
                            /\ WF_vars(ServeReturns(l))
    /\ \A c \in Conns : /\ WF_vars(LoopEnds(c)) /\ WF_vars(CloseLeg(c))
                        /\ WF_vars(FinishConn(c))
                        /\ \A h \in Handlers : WF_vars(ConnectEnds(c, h))

Spec == Init /\ [][Next]_vars
FairSpec == Spec /\ Fairness

-----------------------------------------------------------------------------
(* Properties. *)

(* Every variable has its type, and no more than MaxHandshakes connections   *)
(* are in their handshake.                                                   *)
TypeOK ==
    /\ ctxDone \in BOOLEAN
    /\ draining \in BOOLEAN
    /\ lnClosed \subseteq Listeners
    /\ serve \in [Listeners -> [pc : {"accepting", "slot", "returned"}, conn : Conns \cup {None}]]
    /\ conn \in [Conns -> {"none", "refused", "queued", "handshake", "serving", "closing",
                           "cleaning", "closed", "failed"}]
    /\ peer \in [Conns -> BOOLEAN]
    /\ secret \in [Conns -> {"none", "stashed", "taken", "destroyed"}]
    /\ leg \in [Conns -> [dialed : BOOLEAN, client : {"none", "open", "closed"},
                          by : Handlers \cup {None}]]
    /\ handler \in [Conns -> [Handlers -> {"none", "session", "tunnel", "dialing", "handshaking",
                                          "piping", "done"}]]
    /\ drain \in {"no", "waiting", "clean", "elapsed", "never"}
    /\ Cardinality(InHandshake) <= MaxHandshakes

(* A password typed for a target serves at most one leg: one that a handler   *)
(* took is never put back or seen by the clean-up, one that the clean-up      *)
(* destroyed was never used and no later dial goes ahead.  Otherwise it is in *)
(* pendingSecrets, where it outlives no connection that was served; but it   *)
(* does outlive one whose handshake fails after the prompt, which the comment *)
(* of stashTargetSecret ("either path zeroizes it") does not count with.      *)
PasswordsAccounted ==
    \A c \in Conns :
       /\ secret[c] = "destroyed" => conn[c] = "closed" /\ leg[c].by = None /\ leg[c].client = "none"
       /\ secret[c] = "taken" => leg[c].dialed \/ leg[c].by # None
       /\ secret[c] = "stashed" =>
             /\ conn[c] \in {"handshake", "serving", "closing", "cleaning", "failed"}
             /\ leg[c] = NoLeg

(* A connection has one target leg: the handlers racing for it dial one at   *)
(* a time, and a failed or closed leg is never dialed again, so it is never  *)
(* reopened with other credentials.                                          *)
OneTargetLeg ==
    [][\A c \in Conns :
          /\ leg[c].dialed => leg'[c].dialed /\ leg'[c].by = None
          /\ leg[c].dialed /\ leg[c].client # "open" => leg'[c].client # "open"
          /\ \A h \in Handlers : leg[c].by = h => leg'[c].by \in {h, None} /\
                                 (leg'[c].by = None => leg'[c].dialed)]_vars

(* Once Drain reports a clean end no connection that main's own listener     *)
(* accepted is being served.  Of the other listener main.go:386-388 says the  *)
(* same ("both listeners feed the same session server, so Drain still         *)
(* accounts for every session"), but nobody waits for its Serve, which may    *)
(* still admit a connection when s.wg has been seen at zero.                 *)
DrainAccountsForEverySession ==
    drain = "clean" => \A c \in Active : Port[c] # MainListener

(* The gateway ends its drain after SIGTERM even if every handshake slot is  *)
(* taken by a client that stalls.                                            *)
ShutdownEnds == ctxDone ~> drain \in {"clean", "elapsed"}

(* A connection whose client is gone, or which the API terminated, is        *)
(* cleaned up, whatever its handlers do, unless its target accepted a TCP     *)
(* connection and never finishes the SSH handshake: getOrDial then keeps the  *)
(* mutex that the clean-up waits for.                                        *)
ConnectionEnds ==
    \A c \in Conns :
       \/ conn[c] = "serving" /\ ~peer[c] ~> conn[c] = "closed"
       \/ \E h \in Handlers : <>[](handler[c][h] = "handshaking")
=============================================================================
