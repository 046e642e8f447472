----------------------------- MODULE GatewayProofs -----------------------------
(***************************************************************************)
(* The safety of the gateway process for any number of listeners,           *)
(* connections and channels, and any limits on handshakes and channels.     *)
(***************************************************************************)
EXTENDS Gateway, FiniteSetTheorems, TLAPS

ServeType == [pc : {"accepting", "slot", "returned"}, conn : Conns \cup {None}]
ConnType == {"none", "refused", "queued", "handshake", "serving", "closing", "cleaning", "closed", "failed"}
LegType == [dialed : BOOLEAN, client : {"none", "open", "closed"}, by : Handlers \cup {None}]
HandlerType == {"none", "session", "tunnel", "dialing", "handshaking", "piping", "done"}

(* A connection Serve holds while it waits for a slot is nobody else's. *)
OneAdmission ==
    \A l \in Listeners : serve[l].pc = "slot" =>
       /\ serve[l].conn \in Conns
       /\ conn[serve[l].conn] = "queued"
       /\ Port[serve[l].conn] = l
       /\ \A m \in Listeners : serve[m].pc = "slot" /\ serve[m].conn = serve[l].conn => m = l

(* A connection has neither channels nor a leg before its handshake is done;  *)
(* a handler that dials holds the mutex of the cache; and the password of the *)
(* connection is where PasswordsAccounted says.                              *)
NothingYet(c) ==
    conn[c] \in {"none", "refused", "queued", "handshake", "failed"} =>
       leg[c] = NoLeg /\ \A h \in Handlers : handler[c][h] = "none"

DialerHolds(c) ==
    \A h \in Handlers : handler[c][h] \in {"dialing", "handshaking"} => leg[c].by = h

PasswordOK(c) ==
    /\ secret[c] = "destroyed" => conn[c] = "closed" /\ leg[c].by = None /\ leg[c].client = "none"
    /\ secret[c] = "taken" => leg[c].dialed \/ leg[c].by # None
    /\ secret[c] = "stashed" =>
          /\ conn[c] \in {"handshake", "serving", "closing", "cleaning", "failed"}
          /\ leg[c] = NoLeg

ConnOK == \A c \in Conns : NothingYet(c) /\ DialerHolds(c) /\ PasswordOK(c)

(* Once the leg was dialed, or the dial refused, nobody is dialing. *)
DialedOnce == \A c \in Conns : leg[c].dialed => leg[c].by = None

(* main drains only after its Serve has returned, and that does not change.  *)
DrainAfterServe == drain # "no" => serve[MainListener] = Stopped

IInv ==
    /\ TypeOK
    /\ IsFiniteSet(InHandshake)
    /\ OneAdmission
    /\ ConnOK
    /\ DialedOnce
    /\ DrainAfterServe
    /\ DrainAccountsForEverySession

(* What any step may do to the leg of a connection. *)
LegMove(c) ==
    \/ leg'[c] = leg[c]
    \/ /\ leg[c].by = None /\ leg'[c].by = None
       /\ leg'[c].dialed = leg[c].dialed
       /\ leg[c].client # "open" => leg'[c].client = leg[c].client
    \/ /\ leg[c].by = None /\ ~leg[c].dialed
       /\ \/ leg'[c].dialed /\ leg'[c].by = None
          \/ ~leg'[c].dialed /\ leg'[c].by \in Handlers
    \/ /\ leg[c].by \in Handlers
       /\ leg'[c].dialed /\ leg'[c].by = None

(* The step OneTargetLeg allows. *)
LegStep ==
    \A c \in Conns :
       /\ leg[c].dialed => leg'[c].dialed /\ leg'[c].by = None
       /\ leg[c].dialed /\ leg[c].client # "open" => leg'[c].client # "open"
       /\ \A h \in Handlers : leg[c].by = h => leg'[c].by \in {h, None} /\
                              (leg'[c].by = None => leg'[c].dialed)

-----------------------------------------------------------------------------
LEMMA InitEstablishes == Init => IInv
<1> SUFFICES ASSUME Init PROVE IInv
  OBVIOUS
<1>1. InHandshake = {}
  BY DEF Init, InHandshake
<1>2. IsFiniteSet(InHandshake) /\ Cardinality(InHandshake) = 0
  BY <1>1, FS_EmptySet
<1>3. TypeOK
  <2>1. Accepting \in ServeType /\ NoLeg \in LegType
    BY DEF Accepting, NoLeg, ServeType, LegType
  <2>2. serve \in [Listeners -> ServeType] /\ leg \in [Conns -> LegType]
    BY <2>1 DEF Init
  <2>3. /\ handler \in [Conns -> [Handlers -> HandlerType]]
        /\ conn \in [Conns -> ConnType]
    BY DEF Init, HandlerType, ConnType
  <2>4. Cardinality(InHandshake) <= MaxHandshakes
    BY <1>2, GatewayAssumption
  <2> QED
    BY <2>2, <2>3, <2>4 DEF Init, TypeOK, ServeType, LegType, HandlerType, ConnType
<1>4. /\ OneAdmission /\ ConnOK /\ DialedOnce
      /\ DrainAfterServe /\ DrainAccountsForEverySession
  BY DEF Init, OneAdmission, ConnOK, NothingYet, DialerHolds, PasswordOK, DialedOnce,
         DrainAfterServe, DrainAccountsForEverySession, Accepting, NoLeg
<1> QED
  BY <1>2, <1>3, <1>4 DEF IInv

(* A handshake that starts takes a slot that was free; every other step       *)
(* frees slots or leaves them.                                               *)
LEMMA SlotsStep ==
    ASSUME IInv, [Next]_vars
    PROVE  IsFiniteSet(InHandshake') /\ Cardinality(InHandshake') <= MaxHandshakes
<1> USE DEF IInv
<1>1. IsFiniteSet(InHandshake) /\ Cardinality(InHandshake) <= MaxHandshakes /\ Cardinality(InHandshake) \in Nat
  BY FS_CardinalityType DEF TypeOK
<1>2. CASE \E l \in Listeners : Admit(l)
  <2>1. PICK l \in Listeners : Admit(l)
    BY <1>2
  <2>2. SlotFree /\ serve[l].conn \in Conns
    BY <2>1 DEF Admit, OneAdmission
  <2>3. InHandshake' = InHandshake \cup {serve[l].conn}
    BY <2>1, <2>2 DEF Admit, InHandshake, TypeOK
  <2>4. /\ IsFiniteSet(InHandshake')
        /\ Cardinality(InHandshake') \in {Cardinality(InHandshake), Cardinality(InHandshake) + 1}
    BY <1>1, <2>3, FS_AddElement
  <2> QED
    BY <1>1, <2>2, <2>4, GatewayAssumption DEF SlotFree
<1>3. CASE ~\E l \in Listeners : Admit(l)
  <2>1. InHandshake' \subseteq InHandshake
    <3>1. CASE UNCHANGED conn
      BY <3>1 DEF InHandshake
    <3>2. CASE \E l \in Listeners, c \in Conns : Accept(l, c)
      BY <3>2 DEF Accept, InHandshake, TypeOK
    <3>3. CASE \E l \in Listeners : AdmitCancelled(l)
      BY <3>3 DEF AdmitCancelled, InHandshake, TypeOK
    <3>4. CASE \E c \in Conns : HandshakeSucceeds(c) \/ HandshakeFails(c) \/ LoopEnds(c)
                              \/ CloseLeg(c) \/ FinishConn(c)
      BY <3>4 DEF HandshakeSucceeds, HandshakeFails, LoopEnds, CloseLeg, FinishConn, InHandshake, TypeOK
    <3> QED
      BY <1>3, <3>1, <3>2, <3>3, <3>4, ZenonT(60)
         DEF Next, vars, process, Cancel, StoreDraining, CloseListener, ServeReturns, AcceptFails,
             StashTargetSecret, ClientLeaves, Terminate, OpenChannel, DialBegins,
             Connected, DialSucceeds, DialFails, LegShared, HandlerEnds, DrainStarts, DrainClean, DrainElapses
  <2>2. IsFiniteSet(InHandshake') /\ Cardinality(InHandshake') <= Cardinality(InHandshake) /\ Cardinality(InHandshake') \in Nat
    BY <1>1, <2>1, FS_Subset, FS_CardinalityType
  <2> QED
    BY <1>1, <2>2, GatewayAssumption
<1> QED
  BY <1>2, <1>3

LEMMA TypeStep ==
    ASSUME IInv, [Next]_vars
    PROVE  TypeOK'
<1>1. /\ serve \in [Listeners -> ServeType]
      /\ conn \in [Conns -> ConnType]
      /\ leg \in [Conns -> LegType]
      /\ handler \in [Conns -> [Handlers -> HandlerType]]
      /\ peer \in [Conns -> BOOLEAN]
      /\ secret \in [Conns -> {"none", "stashed", "taken", "destroyed"}]
  BY DEF IInv, TypeOK, ServeType, ConnType, LegType, HandlerType
<1>2. /\ ctxDone' \in {ctxDone, TRUE}
      /\ draining' \in {draining, TRUE}
      /\ \/ lnClosed' = lnClosed
         \/ \E l \in Listeners : lnClosed' = lnClosed \cup {l}
  BY ZenonT(60) DEF Next, vars, process, Cancel, StoreDraining, CloseListener, Accept, Admit,
         AdmitCancelled, ServeReturns, AcceptFails, StashTargetSecret, HandshakeSucceeds, HandshakeFails,
         ClientLeaves, Terminate, OpenChannel, LoopEnds, CloseLeg, FinishConn, DialBegins,
         Connected, DialSucceeds, DialFails, LegShared, HandlerEnds, DrainStarts, DrainClean, DrainElapses
<1>3. drain' \in {drain, "waiting", "clean", "elapsed", "never"}
  BY ZenonT(60) DEF Next, vars, process, Cancel, StoreDraining, CloseListener, Accept, Admit,
         AdmitCancelled, ServeReturns, AcceptFails, StashTargetSecret, HandshakeSucceeds, HandshakeFails,
         ClientLeaves, Terminate, OpenChannel, LoopEnds, CloseLeg, FinishConn, DialBegins,
         Connected, DialSucceeds, DialFails, LegShared, HandlerEnds, DrainStarts, DrainClean, DrainElapses
<1>4. serve' \in [Listeners -> ServeType]
  <2>1. ASSUME NEW l \in Listeners, NEW c \in Conns, Accept(l, c) PROVE serve' \in [Listeners -> ServeType]
    <3>1. [pc |-> "slot", conn |-> c] \in ServeType
      BY DEF ServeType
    <3> QED
      BY <1>1, <2>1, <3>1 DEF Accept
  <2>2. Accepting \in ServeType /\ Stopped \in ServeType
    BY DEF Accepting, Stopped, ServeType
  <2>3. ASSUME NEW l \in Listeners, Admit(l) \/ AdmitCancelled(l) \/ ServeReturns(l) \/ AcceptFails(l)
        PROVE  serve' \in [Listeners -> ServeType]
    BY <1>1, <2>2, <2>3 DEF Admit, AdmitCancelled, ServeReturns, AcceptFails
  <2>4. CASE UNCHANGED serve
    BY <1>1, <2>4
  <2> QED
    BY <2>1, <2>3, <2>4, ZenonT(60)
       DEF Next, vars, process, Cancel, StoreDraining, CloseListener,
         StashTargetSecret, HandshakeSucceeds, HandshakeFails,
         ClientLeaves, Terminate, OpenChannel, LoopEnds, CloseLeg, FinishConn, DialBegins,
         Connected, DialSucceeds, DialFails, LegShared, HandlerEnds, DrainStarts, DrainClean, DrainElapses
<1>5. conn' \in [Conns -> ConnType] /\ peer' \in [Conns -> BOOLEAN]
  <2>1. CASE \E l \in Listeners, c \in Conns : Accept(l, c)
    BY <1>1, <2>1 DEF Accept, ConnType, IInv, TypeOK
  <2>2. CASE \E l \in Listeners : Admit(l) \/ AdmitCancelled(l)
    BY <1>1, <2>2 DEF Admit, AdmitCancelled, ConnType
  <2>3. CASE \E c \in Conns : HandshakeSucceeds(c) \/ HandshakeFails(c) \/ ClientLeaves(c)
                            \/ Terminate(c) \/ LoopEnds(c) \/ CloseLeg(c) \/ FinishConn(c)
    BY <1>1, <2>3 DEF HandshakeSucceeds, HandshakeFails, ClientLeaves, Terminate, LoopEnds,
                      CloseLeg, FinishConn, ConnType
  <2>4. CASE UNCHANGED <<conn, peer>>
    BY <1>1, <2>4
  <2> QED
    BY <2>1, <2>2, <2>3, <2>4, ZenonT(60)
       DEF Next, vars, process, Cancel, StoreDraining, CloseListener, ServeReturns, AcceptFails,
         StashTargetSecret, OpenChannel, DialBegins,
         Connected, DialSucceeds, DialFails, LegShared, HandlerEnds, DrainStarts, DrainClean, DrainElapses
<1>6. secret' \in [Conns -> {"none", "stashed", "taken", "destroyed"}]
  <2>1. CASE \E c \in Conns : StashTargetSecret(c) \/ FinishConn(c)
    BY <1>1, <2>1 DEF StashTargetSecret, FinishConn
  <2>2. CASE \E c \in Conns, h \in Handlers : DialBegins(c, h)
    BY <1>1, <2>2 DEF DialBegins
  <2>3. CASE UNCHANGED secret
    BY <1>1, <2>3
  <2> QED
    BY <2>1, <2>2, <2>3, ZenonT(60)
       DEF Next, vars, process, Cancel, StoreDraining, CloseListener, Accept, Admit,
         AdmitCancelled, ServeReturns, AcceptFails, HandshakeSucceeds, HandshakeFails,
         ClientLeaves, Terminate, OpenChannel, LoopEnds, CloseLeg,
         Connected, DialSucceeds, DialFails, LegShared, HandlerEnds, DrainStarts, DrainClean, DrainElapses
<1>7. leg' \in [Conns -> LegType]
  <2>1. ASSUME NEW c \in Conns, CloseLeg(c) PROVE leg' \in [Conns -> LegType]
    <3>1. PICK k \in {"none", "open", "closed"} : leg' = [leg EXCEPT ![c].client = k]
      BY <1>1, <2>1 DEF CloseLeg, LegType
    <3>2. [leg[c] EXCEPT !.client = k] \in LegType
      BY <1>1 DEF LegType
    <3> QED
      BY <1>1, <3>1, <3>2
  <2>2. ASSUME NEW c \in Conns, NEW h \in Handlers, DialBegins(c, h) PROVE leg' \in [Conns -> LegType]
    <3>1. /\ [leg[c] EXCEPT !.dialed = TRUE] \in LegType
          /\ [leg[c] EXCEPT !.by = h] \in LegType
      BY <1>1 DEF LegType
    <3>2. \/ leg' = [leg EXCEPT ![c] = [leg[c] EXCEPT !.dialed = TRUE]]
          \/ leg' = [leg EXCEPT ![c] = [leg[c] EXCEPT !.by = h]]
      BY <1>1, <2>2 DEF DialBegins
    <3> QED
      BY <1>1, <3>1, <3>2
  <2>3. ASSUME NEW c \in Conns, NEW h \in Handlers, DialSucceeds(c, h) \/ DialFails(c, h)
        PROVE  leg' \in [Conns -> LegType]
    <3>1. /\ [dialed |-> TRUE, client |-> "open", by |-> None] \in LegType
          /\ [dialed |-> TRUE, client |-> "none", by |-> None] \in LegType
      BY DEF LegType
    <3> QED
      BY <1>1, <2>3, <3>1 DEF DialSucceeds, DialFails
  <2>4. CASE UNCHANGED leg
    BY <1>1, <2>4
  <2> QED
    BY <2>1, <2>2, <2>3, <2>4, ZenonT(60)
       DEF Next, vars, process, Cancel, StoreDraining, CloseListener, Accept, Admit,
         AdmitCancelled, ServeReturns, AcceptFails, StashTargetSecret, HandshakeSucceeds, HandshakeFails,
         ClientLeaves, Terminate, OpenChannel, LoopEnds, FinishConn, Connected,
         LegShared, HandlerEnds, DrainStarts, DrainClean, DrainElapses
<1>8. handler' \in [Conns -> [Handlers -> HandlerType]]
  <2>1. ASSUME NEW c \in Conns, NEW h \in Handlers,
               \/ OpenChannel(c, h) \/ DialBegins(c, h) \/ Connected(c, h) \/ DialSucceeds(c, h)
               \/ DialFails(c, h) \/ LegShared(c, h) \/ HandlerEnds(c, h)
        PROVE  handler' \in [Conns -> [Handlers -> HandlerType]]
    <3>1. \E k \in HandlerType : handler' = [handler EXCEPT ![c][h] = k]
      BY <2>1 DEF OpenChannel, DialBegins, Connected, DialSucceeds, DialFails, LegShared, HandlerEnds, HandlerType
    <3> QED
      BY <1>1, <3>1
  <2>2. CASE UNCHANGED handler
    BY <1>1, <2>2
  <2> QED
    BY <2>1, <2>2
       DEF Next, vars, process, Cancel, StoreDraining, CloseListener, Accept, Admit,
         AdmitCancelled, ServeReturns, AcceptFails, StashTargetSecret, HandshakeSucceeds, HandshakeFails,
         ClientLeaves, Terminate, LoopEnds, CloseLeg, FinishConn,
         DrainStarts, DrainClean, DrainElapses
<1>9. ctxDone' \in BOOLEAN /\ draining' \in BOOLEAN /\ lnClosed' \subseteq Listeners
  BY <1>2 DEF IInv, TypeOK
<1>10. drain' \in {"no", "waiting", "clean", "elapsed", "never"}
  BY <1>3 DEF IInv, TypeOK
<1> QED
  BY <1>9, <1>10, <1>4, <1>5, <1>6, <1>7, <1>8, SlotsStep
     DEF TypeOK, ServeType, ConnType, LegType, HandlerType

LEMMA AdmissionStep ==
    ASSUME IInv, [Next]_vars
    PROVE  OneAdmission'
<1> USE DEF IInv, TypeOK, OneAdmission
<1>1. CASE \E l \in Listeners, c \in Conns : Accept(l, c)
  <2>1. PICK l \in Listeners, c \in Conns : Accept(l, c)
    BY <1>1
  <2>2. /\ conn[c] = "none" /\ Port[c] = l
        /\ \A m \in Listeners : serve[m].pc = "slot" => serve[m].conn # c
    BY <2>1 DEF Accept
  <2>3. CASE draining
    BY <2>1, <2>2, <2>3 DEF Accept
  <2>4. CASE ~draining
    <3>1. conn' = [conn EXCEPT ![c] = "queued"] /\ serve' = [serve EXCEPT ![l] = [pc |-> "slot", conn |-> c]]
      BY <2>1, <2>4 DEF Accept
    <3>2. ASSUME NEW m \in Listeners, m # l, serve'[m].pc = "slot"
          PROVE  /\ serve'[m] = serve[m] /\ serve[m].conn # c /\ conn'[serve[m].conn] = "queued"
                 /\ Port[serve[m].conn] = m
      BY <2>2, <3>1, <3>2
    <3>3. serve'[l].pc = "slot" /\ serve'[l].conn = c /\ conn'[c] = "queued"
      BY <3>1
    <3>4. ASSUME NEW m \in Listeners, serve'[m].pc = "slot"
          PROVE  /\ serve'[m].conn \in Conns /\ conn'[serve'[m].conn] = "queued"
                 /\ Port[serve'[m].conn] = m
      BY <2>2, <3>2, <3>3, <3>4
    <3>5. ASSUME NEW m \in Listeners, NEW n \in Listeners, serve'[m].pc = "slot", serve'[n].pc = "slot",
                 serve'[m].conn = serve'[n].conn
          PROVE  m = n
      BY <3>2, <3>3, <3>5
    <3> QED
      BY <3>4, <3>5
  <2> QED
    BY <2>3, <2>4
<1>2. CASE \E l \in Listeners : Admit(l) \/ AdmitCancelled(l) \/ ServeReturns(l) \/ AcceptFails(l)
  <2>1. PICK l \in Listeners : Admit(l) \/ AdmitCancelled(l) \/ ServeReturns(l) \/ AcceptFails(l)
    BY <1>2
  <2>2. \/ UNCHANGED conn
        \/ serve[l].pc = "slot" /\ \E s \in {"handshake", "refused"} : conn' = [conn EXCEPT ![serve[l].conn] = s]
    BY <2>1 DEF Admit, AdmitCancelled, ServeReturns, AcceptFails
  <2>3. serve'[l].pc # "slot" /\ \A m \in Listeners : m # l => serve'[m] = serve[m]
    BY <2>1 DEF Admit, AdmitCancelled, ServeReturns, AcceptFails, Accepting, Stopped
  <2>4. ASSUME NEW m \in Listeners, serve'[m].pc = "slot"
        PROVE  serve'[m] = serve[m] /\ serve[m].conn \in Conns /\ conn'[serve[m].conn] = "queued"
    BY <2>2, <2>3, <2>4
  <2> QED
    BY <2>4
<1>3. CASE \/ UNCHANGED <<serve, conn>>
           \/ \E c \in Conns : /\ UNCHANGED serve
                               /\ conn[c] # "queued"
                               /\ \E s \in {"serving", "closing", "cleaning", "closed", "failed"} :
                                     conn' = [conn EXCEPT ![c] = s]
  BY <1>3
<1> QED
  BY <1>1, <1>2, <1>3, ZenonT(60) DEF Next, vars, process, Cancel, StoreDraining, CloseListener,
         StashTargetSecret, HandshakeSucceeds, HandshakeFails,
         ClientLeaves, Terminate, OpenChannel, LoopEnds, CloseLeg, FinishConn, DialBegins,
         Connected, DialSucceeds, DialFails, LegShared, HandlerEnds, DrainStarts, DrainClean, DrainElapses

LEMMA ConnStep ==
    ASSUME IInv, [Next]_vars
    PROVE  ConnOK'
<1> SUFFICES ASSUME NEW d \in Conns PROVE (NothingYet(d) /\ DialerHolds(d) /\ PasswordOK(d))'
  BY DEF ConnOK
<1>0. /\ NothingYet(d) /\ DialerHolds(d) /\ PasswordOK(d)
      /\ conn \in [Conns -> ConnType] /\ leg \in [Conns -> LegType]
      /\ handler \in [Conns -> [Handlers -> HandlerType]]
      /\ secret \in [Conns -> {"none", "stashed", "taken", "destroyed"}]
  BY DEF IInv, ConnOK, TypeOK, ConnType, LegType, HandlerType
<1> DEFINE Same == conn'[d] = conn[d] /\ leg'[d] = leg[d] /\ handler'[d] = handler[d] /\ secret'[d] = secret[d]
<1>1. CASE Same
  BY <1>0, <1>1 DEF NothingYet, DialerHolds, PasswordOK
<1>2. ASSUME NEW l \in Listeners, Accept(l, d) PROVE (NothingYet(d) /\ DialerHolds(d) /\ PasswordOK(d))'
  BY <1>0, <1>2 DEF Accept, NothingYet, DialerHolds, PasswordOK
<1>3. ASSUME NEW l \in Listeners, serve[l].conn = d, Admit(l) \/ AdmitCancelled(l)
      PROVE  (NothingYet(d) /\ DialerHolds(d) /\ PasswordOK(d))'
  <2>1. conn[d] = "queued"
    BY <1>3 DEF Admit, AdmitCancelled, IInv, OneAdmission
  <2> QED
    BY <1>0, <1>3, <2>1 DEF Admit, AdmitCancelled, NothingYet, DialerHolds, PasswordOK
<1>4. CASE StashTargetSecret(d) \/ HandshakeSucceeds(d) \/ HandshakeFails(d)
  <2>1. /\ leg' = leg /\ handler' = handler /\ leg[d] = NoLeg
        /\ conn'[d] \in {"handshake", "serving", "failed"}
        /\ \A h \in Handlers : handler[d][h] = "none"
        /\ secret'[d] \in {secret[d], "stashed"}
    BY <1>0, <1>4 DEF StashTargetSecret, HandshakeSucceeds, HandshakeFails, NothingYet, process
  <2>2. secret[d] \notin {"destroyed", "taken"}
    BY <1>0, <1>4, <2>1 DEF StashTargetSecret, HandshakeSucceeds, HandshakeFails, PasswordOK, NoLeg
  <2> QED
    BY <2>1, <2>2 DEF NothingYet, DialerHolds, PasswordOK
<1>5. CASE LoopEnds(d) \/ FinishConn(d)
  <2>1. /\ leg' = leg /\ handler' = handler /\ conn'[d] \in {"closing", "closed"}
        /\ secret[d] # "destroyed"
        /\ \/ secret'[d] = secret[d] /\ (secret[d] # "stashed" \/ conn'[d] = "closing")
           \/ secret[d] = "stashed" /\ secret'[d] = "destroyed" /\ conn'[d] = "closed"
    BY <1>0, <1>5 DEF LoopEnds, FinishConn, PasswordOK, process
  <2>2. secret[d] = "stashed" => leg[d].by = None /\ leg[d].client = "none"
    BY <1>0 DEF PasswordOK, NoLeg
  <2> QED
    BY <1>0, <2>1, <2>2 DEF NothingYet, DialerHolds, PasswordOK
<1>6. CASE CloseLeg(d)
  <2>1. /\ conn[d] = "closing" /\ conn'[d] = "cleaning" /\ secret' = secret /\ handler' = handler
        /\ leg' = [leg EXCEPT ![d].client = IF @ = "open" THEN "closed" ELSE @]
    BY <1>0, <1>6 DEF CloseLeg, process
  <2>2. /\ leg'[d].by = leg[d].by /\ leg'[d].dialed = leg[d].dialed
        /\ leg'[d].client = IF leg[d].client = "open" THEN "closed" ELSE leg[d].client
    BY <1>0, <2>1 DEF LegType
  <2>3. leg[d] = NoLeg => leg'[d] = NoLeg
    <3>1. leg'[d] = [leg[d] EXCEPT !.client = leg[d].client] \/ leg[d].client = "open"
      BY <1>0, <2>1 DEF LegType
    <3>2. [leg[d] EXCEPT !.client = leg[d].client] = leg[d]
      BY <1>0 DEF LegType
    <3>3. leg[d] = NoLeg => leg[d].client # "open"
      BY DEF NoLeg
    <3> QED
      BY <3>1, <3>2, <3>3
  <2> QED
    BY <1>0, <2>1, <2>2, <2>3 DEF NothingYet, DialerHolds, PasswordOK
<1>7. ASSUME NEW h \in Handlers, OpenChannel(d, h) \/ LegShared(d, h) \/ HandlerEnds(d, h)
      PROVE  (NothingYet(d) /\ DialerHolds(d) /\ PasswordOK(d))'
  <2>1. /\ conn' = conn /\ leg' = leg /\ secret' = secret
        /\ conn[d] \notin {"none", "refused", "queued", "handshake", "failed"}
    BY <1>0, <1>7 DEF OpenChannel, LegShared, HandlerEnds, NothingYet, process
  <2>2. \A k \in Handlers : handler'[d][k] \in {"dialing", "handshaking"} => handler'[d][k] = handler[d][k]
    BY <1>0, <1>7 DEF OpenChannel, LegShared, HandlerEnds
  <2> QED
    BY <1>0, <2>1, <2>2 DEF NothingYet, DialerHolds, PasswordOK
<1>8. ASSUME NEW h \in Handlers, DialBegins(d, h) PROVE (NothingYet(d) /\ DialerHolds(d) /\ PasswordOK(d))'
  <2>1. /\ conn' = conn /\ leg[d].by = None
        /\ conn[d] \notin {"none", "refused", "queued", "handshake", "failed"}
    BY <1>0, <1>8 DEF DialBegins, NothingYet
  <2>2. \A k \in Handlers : handler[d][k] \notin {"dialing", "handshaking"}
    BY <1>0, <2>1, GatewayAssumption DEF DialerHolds
  <2>3. CASE secret[d] = "destroyed"
    <3>1. /\ secret' = secret /\ leg' = [leg EXCEPT ![d].dialed = TRUE]
          /\ handler' = [handler EXCEPT ![d][h] = "done"]
      BY <1>8, <2>3 DEF DialBegins
    <3>2. leg'[d].by = leg[d].by /\ leg'[d].client = leg[d].client
      BY <1>0, <3>1 DEF LegType
    <3>3. \A k \in Handlers : handler'[d][k] \notin {"dialing", "handshaking"}
      BY <1>0, <2>2, <3>1
    <3> QED
      BY <1>0, <2>1, <2>3, <3>1, <3>2, <3>3 DEF NothingYet, DialerHolds, PasswordOK
  <2>4. CASE secret[d] # "destroyed"
    <3>1. /\ leg' = [leg EXCEPT ![d].by = h] /\ handler' = [handler EXCEPT ![d][h] = "dialing"]
          /\ secret'[d] \notin {"stashed", "destroyed"}
      BY <1>0, <1>8, <2>4 DEF DialBegins
    <3>2. leg'[d].by = h
      BY <1>0, <3>1 DEF LegType
    <3>3. \A k \in Handlers : handler'[d][k] \in {"dialing", "handshaking"} => k = h
      BY <1>0, <2>2, <3>1
    <3> QED
      BY <2>1, <3>1, <3>2, <3>3, GatewayAssumption DEF NothingYet, DialerHolds, PasswordOK
  <2> QED
    BY <2>3, <2>4
<1>9. ASSUME NEW h \in Handlers, Connected(d, h) PROVE (NothingYet(d) /\ DialerHolds(d) /\ PasswordOK(d))'
  <2>1. /\ conn' = conn /\ leg' = leg /\ secret' = secret /\ leg[d].by = h
        /\ conn[d] \notin {"none", "refused", "queued", "handshake", "failed"}
    BY <1>0, <1>9 DEF Connected, NothingYet, DialerHolds, process
  <2>2. \A k \in Handlers : k # h => handler'[d][k] = handler[d][k]
    BY <1>0, <1>9 DEF Connected
  <2> QED
    BY <1>0, <2>1, <2>2 DEF NothingYet, DialerHolds, PasswordOK
<1>10. ASSUME NEW h \in Handlers, DialSucceeds(d, h) \/ DialFails(d, h)
       PROVE  (NothingYet(d) /\ DialerHolds(d) /\ PasswordOK(d))'
  <2>1. /\ conn' = conn /\ secret' = secret /\ leg[d].by = h
        /\ conn[d] \notin {"none", "refused", "queued", "handshake", "failed"}
    BY <1>0, <1>10 DEF DialSucceeds, DialFails, NothingYet, DialerHolds, process
  <2>2. secret[d] \notin {"stashed", "destroyed"}
    BY <1>0, <2>1, GatewayAssumption DEF PasswordOK, NoLeg
  <2>3. leg'[d].dialed
    BY <1>0, <1>10 DEF DialSucceeds, DialFails
  <2>4. \A k \in Handlers : handler'[d][k] \notin {"dialing", "handshaking"}
    <3>1. \A k \in Handlers : k # h => handler[d][k] \notin {"dialing", "handshaking"}
      BY <1>0, <2>1 DEF DialerHolds
    <3> QED
      BY <1>0, <1>10, <3>1 DEF DialSucceeds, DialFails
  <2> QED
    BY <2>1, <2>2, <2>3, <2>4 DEF NothingYet, DialerHolds, PasswordOK
<1>11. ASSUME NEW c \in Conns, c # d,
              \/ StashTargetSecret(c) \/ HandshakeSucceeds(c) \/ HandshakeFails(c)
              \/ LoopEnds(c) \/ FinishConn(c) \/ CloseLeg(c)
              \/ \E l \in Listeners : Accept(l, c)
       PROVE  Same
  BY <1>0, <1>11 DEF StashTargetSecret, HandshakeSucceeds, HandshakeFails, LoopEnds, FinishConn,
                     CloseLeg, Accept, process
<1>12. ASSUME NEW c \in Conns, c # d, NEW h \in Handlers,
              \/ OpenChannel(c, h) \/ LegShared(c, h) \/ HandlerEnds(c, h) \/ DialBegins(c, h)
              \/ Connected(c, h) \/ DialSucceeds(c, h) \/ DialFails(c, h)
       PROVE  Same
  BY <1>0, <1>12 DEF OpenChannel, LegShared, HandlerEnds, DialBegins, Connected, DialSucceeds,
                     DialFails, process
<1>13. ASSUME NEW l \in Listeners, serve[l].conn # d, Admit(l) \/ AdmitCancelled(l) PROVE Same
  BY <1>0, <1>13 DEF Admit, AdmitCancelled
<1>14. CASE UNCHANGED <<conn, secret, leg, handler>>
  BY <1>1, <1>14
<1> HIDE DEF Same
<1> QED
  BY <1>1, <1>2, <1>3, <1>4, <1>5, <1>6, <1>7, <1>8, <1>9, <1>10, <1>11, <1>12, <1>13, <1>14
     DEF Next, vars, process, Cancel, StoreDraining, CloseListener, ServeReturns, AcceptFails,
         ClientLeaves, Terminate, DrainStarts, DrainClean, DrainElapses

LEMMA LegMoves ==
    ASSUME IInv, [Next]_vars, NEW c \in Conns
    PROVE  LegMove(c)
<1>0. leg \in [Conns -> LegType]
  BY DEF IInv, TypeOK, LegType
<1>1. CASE UNCHANGED leg
  BY <1>1 DEF LegMove
<1>2. ASSUME NEW d \in Conns, CloseLeg(d) PROVE LegMove(c)
  BY <1>0, <1>2 DEF CloseLeg, LegType, LegMove
<1>3. ASSUME NEW d \in Conns, NEW h \in Handlers, DialBegins(d, h) PROVE LegMove(c)
  <2>1. \/ leg' = [leg EXCEPT ![d].dialed = TRUE]
        \/ leg' = [leg EXCEPT ![d].by = h]
    BY <1>3 DEF DialBegins
  <2>2. leg[d].by = None /\ ~leg[d].dialed
    BY <1>3 DEF DialBegins
  <2>3. \/ leg'[d].dialed /\ leg'[d].by = leg[d].by
        \/ leg'[d].dialed = leg[d].dialed /\ leg'[d].by = h
    BY <1>0, <2>1 DEF LegType
  <2>4. c # d => leg'[c] = leg[c]
    BY <1>0, <2>1
  <2>5. \/ leg'[d].dialed /\ leg'[d].by = None
        \/ ~leg'[d].dialed /\ leg'[d].by \in Handlers
    BY <2>2, <2>3, Zenon
  <2> QED
    BY <2>2, <2>4, <2>5, Zenon DEF LegMove
<1>4. ASSUME NEW d \in Conns, NEW h \in Handlers, DialSucceeds(d, h) \/ DialFails(d, h)
      PROVE  LegMove(c)
  <2>1. leg[d].by = h
    BY <1>4 DEF DialSucceeds, DialFails, IInv, ConnOK, DialerHolds
  <2> QED
    BY <1>0, <1>4, <2>1, GatewayAssumption DEF DialSucceeds, DialFails, LegType, LegMove
<1> QED
  BY <1>1, <1>2, <1>3, <1>4
     DEF Next, vars, process, Cancel, StoreDraining, CloseListener, Accept, Admit,
         AdmitCancelled, ServeReturns, AcceptFails, StashTargetSecret, HandshakeSucceeds, HandshakeFails,
         ClientLeaves, Terminate, OpenChannel, LoopEnds, FinishConn, Connected,
         LegShared, HandlerEnds, DrainStarts, DrainClean, DrainElapses

(* A listener whose Serve has returned stays so; connections become active    *)
(* only through a Serve that has not.                                        *)
LEMMA ServeMoves ==
    ASSUME IInv, [Next]_vars
    PROVE  /\ \A l \in Listeners : serve[l] = Stopped => serve'[l] = Stopped
           /\ drain' # "no" => drain # "no" \/ serve'[MainListener] = Stopped
<1> USE DEF IInv, TypeOK
<1>1. CASE \E l \in Listeners, c \in Conns : Accept(l, c)
  BY <1>1 DEF Accept, Accepting, Stopped
<1>2. CASE \E l \in Listeners : Admit(l) \/ AdmitCancelled(l) \/ ServeReturns(l) \/ AcceptFails(l)
  BY <1>2 DEF Admit, AdmitCancelled, ServeReturns, AcceptFails, Accepting, Stopped
<1>3. CASE UNCHANGED serve /\ (drain' = drain \/ drain # "no" \/ serve[MainListener] = Stopped)
  BY <1>3
<1> QED
  BY <1>1, <1>2, <1>3, ZenonT(60) DEF Next, vars, process, Cancel, StoreDraining, CloseListener,
         StashTargetSecret, HandshakeSucceeds, HandshakeFails,
         ClientLeaves, Terminate, OpenChannel, LoopEnds, CloseLeg, FinishConn, DialBegins,
         Connected, DialSucceeds, DialFails, LegShared, HandlerEnds, DrainStarts, DrainClean, DrainElapses

LEMMA DrainStep ==
    ASSUME IInv, [Next]_vars
    PROVE  DrainAccountsForEverySession'
<1> SUFFICES ASSUME drain' = "clean", NEW c \in Active', Port[c] = MainListener PROVE FALSE
  BY DEF DrainAccountsForEverySession
<1>1. CASE drain = "clean"
  <2>1. serve[MainListener] = Stopped /\ c \notin Active /\ c \in Conns
    BY <1>1 DEF IInv, DrainAfterServe, DrainAccountsForEverySession, Active
  <2>2. CASE \E l \in Listeners, d \in Conns : Accept(l, d)
    BY <2>1, <2>2 DEF Accept, Active, IInv, TypeOK
  <2>3. ASSUME NEW l \in Listeners, Admit(l) \/ AdmitCancelled(l) PROVE FALSE
    <3>1. serve[l].pc = "slot" /\ serve[l].conn \in Conns /\ Port[serve[l].conn] = l
      BY <2>3 DEF Admit, AdmitCancelled, IInv, OneAdmission
    <3>2. l # MainListener
      BY <2>1, <3>1 DEF Stopped
    <3>3. conn'[c] = conn[c]
      BY <2>1, <2>3, <3>1, <3>2 DEF Admit, AdmitCancelled, IInv, TypeOK
    <3> QED
      BY <2>1, <3>3 DEF Active
  <2>4. CASE UNCHANGED conn
    BY <2>1, <2>4 DEF Active
  <2>5. CASE \E d \in Conns : \/ HandshakeSucceeds(d) \/ HandshakeFails(d) \/ LoopEnds(d)
                               \/ CloseLeg(d) \/ FinishConn(d)
    BY <2>1, <2>5 DEF HandshakeSucceeds, HandshakeFails, LoopEnds, CloseLeg, FinishConn, Active, IInv, TypeOK
  <2> QED
    BY <2>2, <2>3, <2>4, <2>5, ZenonT(60)
       DEF Next, vars, process, Cancel, StoreDraining, CloseListener, ServeReturns, AcceptFails,
         StashTargetSecret, ClientLeaves, Terminate, OpenChannel, DialBegins, Connected,
         DialSucceeds, DialFails, LegShared, HandlerEnds, DrainStarts, DrainClean, DrainElapses
<1>2. CASE drain # "clean"
  <2>1. DrainClean
    BY <1>2, ZenonT(60) DEF Next, vars, process, Cancel, StoreDraining, CloseListener, Accept, Admit,
         AdmitCancelled, ServeReturns, AcceptFails, StashTargetSecret, HandshakeSucceeds, HandshakeFails,
         ClientLeaves, Terminate, OpenChannel, LoopEnds, CloseLeg, FinishConn, DialBegins,
         Connected, DialSucceeds, DialFails, LegShared, HandlerEnds, DrainStarts, DrainElapses
  <2> QED
    BY <2>1 DEF DrainClean, Active
<1> QED
  BY <1>1, <1>2

LEMMA StepPreserves == IInv /\ [Next]_vars => IInv'
<1> SUFFICES ASSUME IInv, [Next]_vars PROVE IInv'
  OBVIOUS
<1>1. TypeOK' /\ OneAdmission' /\ IsFiniteSet(InHandshake')
  BY TypeStep, AdmissionStep, SlotsStep
<1>2. ConnOK'
  BY ConnStep
<1>3. DialedOnce'
  <2> SUFFICES ASSUME NEW c \in Conns, leg'[c].dialed PROVE leg'[c].by = None
    BY DEF DialedOnce
  <2>1. leg[c].dialed => leg[c].by = None
    BY DEF IInv, DialedOnce
  <2> QED
    BY <2>1, LegMoves DEF LegMove
<1>4. DrainAfterServe'
  BY ServeMoves, GatewayAssumption DEF DrainAfterServe, IInv
<1>5. DrainAccountsForEverySession'
  BY DrainStep
<1> QED
  BY <1>1, <1>2, <1>3, <1>4, <1>5 DEF IInv

-----------------------------------------------------------------------------
(* The inductive invariant holds in every reachable state. *)
THEOREM Invariance == Spec => []IInv
  BY InitEstablishes, StepPreserves, PTL DEF Spec

(* Every variable keeps its type, and s.sem bounds the handshakes. *)
THEOREM TypeCorrect == Spec => []TypeOK
<1>1. IInv => TypeOK
  BY DEF IInv
<1> QED
  BY <1>1, Invariance, PTL

(* A password serves one leg at most; the handler that dials takes it or      *)
(* handleConn's clean-up destroys it, and never both.  One that is still in   *)
(* pendingSecrets belongs to a connection that is up, or to one whose         *)
(* handshake failed after the prompt.                                        *)
THEOREM PasswordsAreAccounted == Spec => []PasswordsAccounted
<1>1. IInv => PasswordsAccounted
  BY DEF IInv, ConnOK, PasswordOK, PasswordsAccounted
<1> QED
  BY <1>1, Invariance, PTL

(* The channels of a connection share one target leg, dialed at most once     *)
(* (getOrDial).                                                              *)
THEOREM LegDialedOnce == Spec => OneTargetLeg
<1>1. IInv /\ [Next]_vars => [LegStep]_vars
  <2> SUFFICES ASSUME IInv, [Next]_vars, NEW c \in Conns
               PROVE  /\ leg[c].dialed => leg'[c].dialed /\ leg'[c].by = None
                      /\ leg[c].dialed /\ leg[c].client # "open" => leg'[c].client # "open"
                      /\ \A h \in Handlers : leg[c].by = h => leg'[c].by \in {h, None} /\
                                 (leg'[c].by = None => leg'[c].dialed)
    BY DEF LegStep
  <2>1. LegMove(c) /\ (leg[c].dialed => leg[c].by = None)
    BY LegMoves DEF IInv, DialedOnce
  <2> QED
    BY <2>1, GatewayAssumption DEF LegMove
<1> QED
  BY <1>1, Invariance, PTL DEF Spec, OneTargetLeg, LegStep

(* A clean drain means that every connection of the listener main serves has  *)
(* ended, on a gateway with one listener every session.  A connection of      *)
(* another listener may have been admitted after s.wg was seen at zero.       *)
THEOREM DrainIsComplete == Spec => []DrainAccountsForEverySession
<1>1. IInv => DrainAccountsForEverySession
  BY DEF IInv
<1> QED
  BY <1>1, Invariance, PTL
=============================================================================
