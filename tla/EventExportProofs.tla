--------------------------- MODULE EventExportProofs ---------------------------
(***************************************************************************)
(* The safety of the event exporter for any buffer and any number of        *)
(* events, whatever the transport does and whenever Close comes.            *)
(***************************************************************************)
EXTENDS EventExport, FiniteSetTheorems, TLAPS

(* What the two goroutines hold. *)
Hands == {runner.event, drainer.event} \ {NoEvent}

(* An event is in one place only. *)
Apart ==
    /\ IsInjective(buf)
    /\ ToSet(buf) \cap Hands = {}
    /\ ToSet(buf) \cap dropped = {}
    /\ Hands \cap dropped = {}
    /\ runner.event = drainer.event => runner.event = NoEvent

(* Nothing is lost: the places hold what was offered, and together as many. *)
Everything ==
    /\ 1..offered = ToSet(buf) \cup Hands \cup ToSet(written) \cup dropped
    /\ IsFiniteSet(Hands) /\ IsFiniteSet(dropped)
    /\ Len(buf) + Cardinality(Hands) + Len(written) + Cardinality(dropped) = offered

(* A goroutine holds an event exactly while it writes it; the drainer runs    *)
(* only after run has stopped selecting, and is the one to close.             *)
Turns ==
    /\ runner.pc = "writing" <=> runner.event # NoEvent
    /\ drainer.pc = "writing" <=> drainer.event # NoEvent
    /\ drainer.pc # "none" <=> runner.pc \in {"draining", "emptying", "done"}
    /\ drainer.pc # "none" => cancelled
    /\ closed => drainer.pc = "done"

(* The drainer's count covers what was buffered before the cancellation, and  *)
(* when it is used up nothing of that is left.                               *)
Countdown ==
    /\ before <= offered
    /\ ~cancelled => before = offered
    /\ drainer.pc \in {"looping", "writing"} =>
          \A i \in DOMAIN buf : buf[i] <= before => i <= drainer.left
    /\ drainer.pc \in {"flushing", "closing", "done"} =>
          \A i \in DOMAIN buf : buf[i] > before

IInv == TypeOK /\ Apart /\ Everything /\ Turns /\ Countdown

-----------------------------------------------------------------------------
(* What taking the head of a queue and appending to it do to its elements. *)
LEMMA TailFacts ==
    ASSUME NEW S, NEW s \in Seq(S), s # << >>
    PROVE  /\ Head(s) = s[1] /\ Head(s) \in S
           /\ Tail(s) \in Seq(S) /\ Len(s) \in Nat \ {0} /\ Len(Tail(s)) = Len(s) - 1
           /\ \A i \in 1..(Len(s) - 1) : Tail(s)[i] = s[i + 1]
  OBVIOUS

LEMMA TailSet ==
    ASSUME NEW S, NEW s \in Seq(S), s # << >>
    PROVE  ToSet(s) = ToSet(Tail(s)) \cup {Head(s)}
<1>1. \A i \in 1..Len(s) : i = 1 \/ i - 1 \in 1..(Len(s) - 1)
  BY TailFacts
<1>2. ASSUME NEW i \in 1..Len(s) PROVE s[i] \in ToSet(Tail(s)) \cup {Head(s)}
  <2>1. CASE i = 1
    BY <2>1, TailFacts
  <2>2. CASE i - 1 \in 1..(Len(s) - 1)
    <3>1. Tail(s)[i - 1] = s[i]
      BY <2>2, TailFacts
    <3>2. i - 1 \in DOMAIN Tail(s)
      BY <2>2, TailFacts
    <3> QED
      BY <3>1, <3>2 DEF ToSet
  <2> QED
    BY <1>1, <2>1, <2>2
<1>3. ASSUME NEW i \in 1..(Len(s) - 1) PROVE Tail(s)[i] \in ToSet(s)
  <2>1. Tail(s)[i] = s[i + 1] /\ i + 1 \in 1..Len(s)
    BY TailFacts
  <2> QED
    BY <2>1 DEF ToSet
<1>4. Head(s) \in ToSet(s)
  BY TailFacts DEF ToSet
<1> QED
  BY <1>2, <1>3, <1>4, TailFacts DEF ToSet

LEMMA TailInjective ==
    ASSUME NEW S, NEW s \in Seq(S), s # << >>, IsInjective(s)
    PROVE  /\ Head(s) \notin ToSet(Tail(s))
           /\ IsInjective(Tail(s))
<1>1. ASSUME NEW i \in DOMAIN Tail(s)
      PROVE  i \in Nat /\ i + 1 \in DOMAIN s /\ i + 1 # 1 /\ Tail(s)[i] = s[i + 1]
  BY TailFacts
<1>2. 1 \in DOMAIN s /\ Head(s) = s[1]
  BY TailFacts
<1>3. Head(s) \notin ToSet(Tail(s))
  BY <1>1, <1>2 DEF ToSet, IsInjective
<1>4. ASSUME NEW i \in DOMAIN Tail(s), NEW j \in DOMAIN Tail(s), Tail(s)[i] = Tail(s)[j]
      PROVE  i = j
  <2>1. s[i + 1] = s[j + 1] /\ i + 1 \in DOMAIN s /\ j + 1 \in DOMAIN s
    BY <1>1, <1>4
  <2>2. i + 1 = j + 1
    BY <2>1 DEF IsInjective
  <2> QED
    BY <1>1, <2>2
<1> QED
  BY <1>3, <1>4 DEF IsInjective

LEMMA AppendFacts ==
    ASSUME NEW S, NEW s \in Seq(S), NEW e \in S
    PROVE  /\ Append(s, e) \in Seq(S) /\ Len(Append(s, e)) = Len(s) + 1
           /\ DOMAIN s = 1..Len(s) /\ Len(s) \in Nat
           /\ DOMAIN Append(s, e) = 1..Len(s) \cup {Len(s) + 1}
           /\ \A i \in 1..Len(s) : Append(s, e)[i] = s[i]
           /\ Append(s, e)[Len(s) + 1] = e
<1>1. /\ Append(s, e) \in Seq(S) /\ Len(Append(s, e)) = Len(s) + 1
      /\ DOMAIN s = 1..Len(s) /\ Len(s) \in Nat
      /\ DOMAIN Append(s, e) = 1..(Len(s) + 1)
      /\ \A i \in 1..Len(s) : Append(s, e)[i] = s[i]
      /\ Append(s, e)[Len(s) + 1] = e
  OBVIOUS
<1>2. 1..(Len(s) + 1) = 1..Len(s) \cup {Len(s) + 1}
  BY <1>1
<1> QED
  BY <1>1, <1>2

LEMMA AppendSet ==
    ASSUME NEW S, NEW s \in Seq(S), NEW e \in S
    PROVE  ToSet(Append(s, e)) = ToSet(s) \cup {e}
  BY AppendFacts DEF ToSet

LEMMA FreshAppendInjective ==
    ASSUME NEW S, NEW s \in Seq(S), NEW e \in S, e \notin ToSet(s), IsInjective(s)
    PROVE  IsInjective(Append(s, e))
<1>1. ASSUME NEW t, NEW n, DOMAIN t = DOMAIN s \cup {n}, t[n] = e, \A k \in DOMAIN s : t[k] = s[k]
      PROVE  IsInjective(t)
  BY <1>1, Zenon DEF IsInjective, ToSet
<1>2. /\ DOMAIN Append(s, e) = DOMAIN s \cup {Len(s) + 1} /\ Append(s, e)[Len(s) + 1] = e
      /\ \A k \in DOMAIN s : Append(s, e)[k] = s[k]
  BY AppendFacts
<1> QED
  BY <1>1, <1>2, Zenon

-----------------------------------------------------------------------------
LEMMA InitEstablishes == Init => IInv
<1> SUFFICES ASSUME Init PROVE IInv
  OBVIOUS
<1>1. ToSet(<< >>) = {} /\ DOMAIN << >> = {} /\ Len(<< >>) = 0
  BY DEF ToSet
<1>2. Hands = {} /\ IsFiniteSet({}) /\ Cardinality({}) = 0
  BY FS_EmptySet DEF Init, Hands
<1>3. TypeOK
  <2>1. << >> \in Seq(Events)
    OBVIOUS
  <2>2. /\ runner \in [pc : {"select", "writing", "flushing", "draining", "emptying", "done"},
                       event : Events \cup {NoEvent}]
        /\ drainer \in [pc : {"none", "counting", "looping", "writing", "flushing", "closing", "done"},
                        event : Events \cup {NoEvent}, left : 0..BufSize]
    BY ExportAssumption DEF Init
  <2>3. Len(buf) <= BufSize
    BY <1>1, ExportAssumption DEF Init
  <2>4. offered \in 0..MaxEvents /\ before \in 0..MaxEvents
    BY ExportAssumption DEF Init
  <2> QED
    BY <2>1, <2>2, <2>3, <2>4 DEF Init, TypeOK
<1>4. Apart
  BY <1>1, <1>2 DEF Init, Apart, IsInjective
<1>5. Everything
  BY <1>1, <1>2 DEF Init, Everything
<1>6. Turns /\ Countdown
  BY <1>1 DEF Init, Turns, Countdown
<1> QED
  BY <1>3, <1>4, <1>5, <1>6 DEF IInv

LEMMA TypeStep ==
    ASSUME IInv, [Next]_vars
    PROVE  TypeOK'
<1> USE ExportAssumption DEF IInv, TypeOK
<1>1. CASE Offer
  <2>1. offered + 1 \in Events /\ offered' \in 0..MaxEvents /\ before' \in 0..MaxEvents
    BY <1>1 DEF Offer, Events
  <2>2. Append(buf, offered + 1) \in Seq(Events) /\ Len(Append(buf, offered + 1)) = Len(buf) + 1
    BY <2>1
  <2>3. buf' \in Seq(Events) /\ Len(buf') <= BufSize
    <3>1. CASE Len(buf) < BufSize
      <4>1. Len(buf) + 1 <= BufSize
        BY <3>1
      <4> QED
        BY <1>1, <2>2, <3>1, <4>1 DEF Offer
    <3>2. CASE ~(Len(buf) < BufSize)
      BY <1>1, <3>2 DEF Offer
    <3> QED
      BY <3>1, <3>2
  <2>4. dropped' \subseteq Events
    BY <1>1, <2>1 DEF Offer
  <2> QED
    BY <1>1, <2>1, <2>3, <2>4 DEF Offer
<1>2. CASE RunTakes
  BY <1>2, TailFacts DEF RunTakes
<1>3. CASE RunWrites
  <2>1. runner.event \in Events
    BY <1>3 DEF RunWrites, Turns
  <2>2. Append(written, runner.event) \in Seq(Events)
    BY <2>1
  <2> QED
    BY <1>3, <2>1, <2>2 DEF RunWrites, Delivered, Undelivered
<1>4. CASE RunFlushes \/ RunFlushed \/ RunJoins \/ RunGivesUp \/ RunEmptied
  BY <1>4 DEF RunFlushes, RunFlushed, RunJoins, RunGivesUp, RunEmptied
<1>5. CASE RunDrains
  BY <1>5 DEF RunDrains
<1>6. CASE DrainCounts
  <2>1. Len(buf) \in 0..BufSize
    OBVIOUS
  <2>2. [drainer EXCEPT !.pc = "looping", !.left = Len(buf)] \in
           [pc : {"none", "counting", "looping", "writing", "flushing", "closing", "done"},
            event : Events \cup {NoEvent}, left : 0..BufSize]
    BY <2>1
  <2> QED
    BY <1>6, <2>2 DEF DrainCounts
<1>7. CASE DrainTakes
  BY <1>7, TailFacts DEF DrainTakes
<1>8. CASE DrainWrites
  <2>1. drainer.event \in Events
    BY <1>8 DEF DrainWrites, Turns
  <2>2. Append(written, drainer.event) \in Seq(Events)
    BY <2>1
  <2> QED
    BY <1>8, <2>1, <2>2 DEF DrainWrites, Delivered, Undelivered
<1>9. CASE DrainFindsNone \/ DrainFlushes \/ DrainFlushed \/ DrainCloses
  BY <1>9 DEF DrainFindsNone, DrainFlushes, DrainFlushed, DrainCloses
<1>10. CASE RunEmpties
  BY <1>10, TailFacts DEF RunEmpties
<1>11. CASE Shutdown \/ ShutdownJoins \/ ShutdownGivesUp \/ UNCHANGED vars
  BY <1>11 DEF Shutdown, ShutdownJoins, ShutdownGivesUp, vars
<1> QED
  BY <1>1, <1>2, <1>3, <1>4, <1>5, <1>6, <1>7, <1>8, <1>9, <1>10, <1>11
     DEF Next, Scheduled, TransportReturns

LEMMA TurnsStep ==
    ASSUME IInv, [Next]_vars
    PROVE  Turns'
<1> USE ExportAssumption DEF IInv, TypeOK, Turns
<1>1. CASE Offer \/ RunEmpties \/ Shutdown \/ ShutdownJoins \/ ShutdownGivesUp \/ UNCHANGED vars
  BY <1>1 DEF Offer, RunEmpties, Shutdown, ShutdownJoins, ShutdownGivesUp, vars
<1>2. CASE RunTakes
  <2>1. Head(buf) \in Events /\ NoEvent \notin Events
    BY <1>2, TailFacts DEF RunTakes, Events
  <2> QED
    BY <1>2, <2>1 DEF RunTakes
<1>3. CASE RunWrites \/ RunFlushes \/ RunFlushed \/ RunJoins \/ RunGivesUp \/ RunEmptied
  BY <1>3 DEF RunWrites, RunFlushes, RunFlushed, RunJoins, RunGivesUp, RunEmptied
<1>4. CASE RunDrains
  BY <1>4 DEF RunDrains
<1>5. CASE DrainTakes
  <2>1. Head(buf) \in Events /\ NoEvent \notin Events
    BY <1>5, TailFacts DEF DrainTakes, Events
  <2> QED
    BY <1>5, <2>1 DEF DrainTakes
<1>6. CASE DrainCounts \/ DrainFindsNone \/ DrainFlushes \/ DrainFlushed \/ DrainCloses
  <2>1. /\ drainer.pc \notin {"none", "writing"} /\ drainer'.event = drainer.event
        /\ drainer'.pc \notin {"none", "writing"}
        /\ runner' = runner /\ cancelled' = cancelled
    BY <1>6 DEF DrainCounts, DrainFindsNone, DrainFlushes, DrainFlushed, DrainCloses
  <2>2. closed' => drainer'.pc = "done"
    BY <1>6 DEF DrainCounts, DrainFindsNone, DrainFlushes, DrainFlushed, DrainCloses
  <2> QED
    BY <2>1, <2>2
<1>7. CASE DrainWrites
  <2>1. /\ drainer.pc = "writing" /\ drainer'.event = NoEvent /\ drainer'.pc = "looping"
        /\ runner' = runner /\ cancelled' = cancelled /\ closed' = closed
    BY <1>7 DEF DrainWrites
  <2> QED
    BY <2>1
<1> QED
  BY <1>1, <1>2, <1>3, <1>4, <1>5, <1>6, <1>7 DEF Next, Scheduled, TransportReturns
-----------------------------------------------------------------------------
(* Offer: the next number is nobody's yet. *)
LEMMA OfferStep ==
    ASSUME IInv, Offer
    PROVE  Apart' /\ Everything' /\ Countdown'
<1> DEFINE e == offered + 1
<1>1. /\ offered \in Nat /\ e \in Events /\ e \in Nat /\ buf \in Seq(Events)
      /\ Len(buf) \in Nat /\ Len(written) \in Nat /\ BufSize \in Nat
  BY ExportAssumption DEF IInv, TypeOK, Offer, Events
<1>2. 1..offered = ToSet(buf) \cup Hands \cup ToSet(written) \cup dropped
  BY DEF IInv, Everything
<1>3. e \notin 1..offered /\ 1..e = 1..offered \cup {e}
  BY <1>1
<1>4. e \notin ToSet(buf) /\ e \notin Hands /\ e \notin dropped
  BY <1>2, <1>3
<1>5. Hands' = Hands /\ written' = written /\ offered' = e
      /\ runner' = runner /\ drainer' = drainer /\ cancelled' = cancelled
  BY DEF Offer, Hands
<1>6. /\ IsFiniteSet(Hands) /\ IsFiniteSet(dropped)
      /\ Cardinality(Hands) \in Nat /\ Cardinality(dropped) \in Nat
  BY FS_CardinalityType DEF IInv, Everything
<1>7. /\ before' <= offered' /\ (~cancelled' => before' = offered')
      /\ cancelled => before' = before
      /\ before \in Nat /\ before <= offered
  BY <1>1 DEF Offer, IInv, Countdown, TypeOK
<1>8. drainer.pc # "none" => cancelled
  BY DEF IInv, Turns
<1> HIDE DEF e
<1>9. CASE Len(buf) < BufSize
  <2>1. buf' = Append(buf, e) /\ dropped' = dropped
    BY <1>9 DEF Offer, e
  <2>2. /\ ToSet(buf') = ToSet(buf) \cup {e} /\ Len(buf') = Len(buf) + 1
        /\ DOMAIN buf = 1..Len(buf) /\ DOMAIN buf' = 1..Len(buf) \cup {Len(buf) + 1}
        /\ \A i \in 1..Len(buf) : buf'[i] = buf[i]
        /\ buf'[Len(buf) + 1] = e
    BY <1>1, <2>1, AppendSet, AppendFacts
  <2>3. IsInjective(buf')
    <3>1. IsInjective(buf)
      BY DEF IInv, Apart
    <3> QED
      BY <1>1, <1>4, <2>1, <3>1, FreshAppendInjective, Zenon
  <2>4. Apart'
    BY <1>4, <1>5, <2>1, <2>2, <2>3 DEF IInv, Apart
  <2>5. Everything'
    <3>1. 1..offered' = ToSet(buf') \cup Hands' \cup ToSet(written') \cup dropped'
      BY <1>2, <1>3, <1>5, <2>1, <2>2
    <3>2. Len(buf') + Cardinality(Hands') + Len(written') + Cardinality(dropped') = offered'
      BY <1>1, <1>5, <1>6, <2>1, <2>2 DEF IInv, Everything, e
    <3> QED
      BY <1>5, <1>6, <2>1, <3>1, <3>2 DEF Everything
  <2>6. Countdown'
    <3>1. ASSUME cancelled PROVE e > before'
      BY <1>1, <1>7, <3>1 DEF e
    <3>2. ASSUME drainer.pc \in {"looping", "writing"}, NEW i \in DOMAIN buf', buf'[i] <= before'
          PROVE  i <= drainer.left
      <4>1. cancelled
        BY <1>8, <3>2
      <4>2. i \in DOMAIN buf /\ buf[i] <= before
        BY <1>1, <1>7, <2>2, <3>1, <3>2, <4>1
      <4> QED
        BY <3>2, <4>2 DEF IInv, Countdown
    <3>3. ASSUME drainer.pc \in {"flushing", "closing", "done"}, NEW i \in DOMAIN buf'
          PROVE  buf'[i] > before'
      <4>1. cancelled
        BY <1>8, <3>3
      <4>2. i \in DOMAIN buf => buf[i] > before
        BY <3>3 DEF IInv, Countdown
      <4> QED
        BY <1>7, <2>2, <3>1, <4>1, <4>2
    <3> QED
      BY <1>5, <1>7, <3>2, <3>3 DEF Countdown
  <2> QED
    BY <2>4, <2>5, <2>6
<1>10. CASE ~(Len(buf) < BufSize)
  <2>1. dropped' = dropped \cup {e} /\ buf' = buf
    BY <1>10 DEF Offer, e
  <2>2. IsFiniteSet(dropped') /\ Cardinality(dropped') = Cardinality(dropped) + 1
    BY <1>4, <1>6, <2>1, FS_AddElement
  <2>3. Apart'
    BY <1>4, <1>5, <2>1 DEF IInv, Apart
  <2>4. Everything'
    <3>1. 1..offered' = ToSet(buf') \cup Hands' \cup ToSet(written') \cup dropped'
      BY <1>2, <1>3, <1>5, <2>1
    <3>2. Len(buf') + Cardinality(Hands') + Len(written') + Cardinality(dropped') = offered'
      BY <1>1, <1>5, <1>6, <2>1, <2>2 DEF IInv, Everything, e
    <3> QED
      BY <1>5, <1>6, <2>2, <3>1, <3>2 DEF Everything
  <2>5. Countdown'
    BY <1>5, <1>7, <1>8, <2>1 DEF IInv, Countdown
  <2> QED
    BY <2>3, <2>4, <2>5
<1> QED
  BY <1>9, <1>10
(* The head of the buffer moves to a hand that was empty, or is dropped. *)
LEMMA BufferHead ==
    ASSUME IInv, buf # << >>, buf' = Tail(buf), before' = before
    PROVE  /\ Head(buf) \in Events /\ Head(buf) # NoEvent
           /\ Head(buf) \notin Hands /\ Head(buf) \notin dropped
           /\ ToSet(buf) = ToSet(buf') \cup {Head(buf)} /\ Head(buf) \notin ToSet(buf')
           /\ IsInjective(buf')
           /\ Len(buf) \in Nat /\ Len(buf') \in Nat /\ Len(buf') + 1 = Len(buf)
           /\ \A i \in DOMAIN buf' : i \in Nat /\ i + 1 \in DOMAIN buf /\ buf'[i] = buf[i + 1]
<1>1. buf \in Seq(Events) /\ IsInjective(buf) /\ ToSet(buf) \cap Hands = {} /\ ToSet(buf) \cap dropped = {}
  BY DEF IInv, TypeOK, Apart
<1>2. /\ Head(buf) = buf[1] /\ Head(buf) \in Events
      /\ buf' \in Seq(Events) /\ Len(buf) \in Nat \ {0} /\ Len(buf') = Len(buf) - 1
      /\ \A i \in 1..(Len(buf) - 1) : buf'[i] = buf[i + 1]
  BY <1>1, TailFacts
<1>3. ToSet(buf) = ToSet(buf') \cup {Head(buf)}
  BY <1>1, TailSet
<1>4. Head(buf) \notin ToSet(buf') /\ IsInjective(buf')
  BY <1>1, TailInjective, Zenon
<1>5. Head(buf) # NoEvent
  BY <1>2, ExportAssumption DEF Events
<1>6. DOMAIN buf = 1..Len(buf) /\ DOMAIN buf' = 1..Len(buf')
  BY <1>1, <1>2
<1>7. \A i \in DOMAIN buf' : i \in Nat /\ i + 1 \in DOMAIN buf /\ buf'[i] = buf[i + 1]
  BY <1>2, <1>6
<1> QED
  BY <1>1, <1>2, <1>3, <1>4, <1>5, <1>7

(* A hand that was empty takes the head of the buffer. *)
LEMMA TakeStep ==
    ASSUME IInv, buf # << >>, buf' = Tail(buf), UNCHANGED <<offered, written, dropped, before>>,
           \/ runner.event = NoEvent /\ runner'.event = Head(buf) /\ drainer' = drainer
           \/ drainer.event = NoEvent /\ drainer'.event = Head(buf) /\ runner' = runner
    PROVE  Apart' /\ Everything'
<1> DEFINE e == Head(buf)
<1>1. /\ e # NoEvent /\ e \notin Hands /\ e \notin dropped /\ e \notin ToSet(buf')
      /\ ToSet(buf) = ToSet(buf') \cup {e} /\ IsInjective(buf')
      /\ Len(buf) \in Nat /\ Len(buf') \in Nat /\ Len(buf') + 1 = Len(buf)
  BY BufferHead
<1> HIDE DEF e
<1>2. Hands' = Hands \cup {e}
  BY <1>1 DEF Hands, e
<1>3. /\ IsFiniteSet(Hands') /\ Cardinality(Hands') = Cardinality(Hands) + 1
      /\ IsFiniteSet(Hands) /\ IsFiniteSet(dropped)
      /\ Cardinality(Hands) \in Nat /\ Cardinality(dropped) \in Nat
  BY <1>1, <1>2, FS_AddElement, FS_CardinalityType DEF IInv, Everything
<1>4. Apart'
  <2>1. runner'.event # drainer'.event
    BY <1>1 DEF Hands, e
  <2> QED
    BY <1>1, <1>2, <2>1 DEF IInv, Apart
<1>5. 1..offered' = ToSet(buf') \cup Hands' \cup ToSet(written') \cup dropped'
  BY <1>1, <1>2 DEF IInv, Everything
<1>6. Len(buf') + Cardinality(Hands') + Len(written') + Cardinality(dropped') = offered'
  BY <1>1, <1>3 DEF IInv, Everything, TypeOK
<1> QED
  BY <1>3, <1>4, <1>5, <1>6 DEF Everything

(* A hand gives its event to the transport or to the drop metric. *)
LEMMA WriteStep ==
    ASSUME IInv, NEW e \in Events, Delivered(e) \/ Undelivered(e), UNCHANGED <<offered, buf, before>>,
           \/ e = runner.event /\ runner'.event = NoEvent /\ drainer' = drainer
           \/ e = drainer.event /\ drainer'.event = NoEvent /\ runner' = runner
    PROVE  Apart' /\ Everything'
<1>1. e # NoEvent /\ e \in Hands /\ (runner.event = drainer.event => runner.event = NoEvent)
  BY ExportAssumption DEF Hands, Events, IInv, Apart
<1>2. Hands = Hands' \cup {e} /\ Hands' = Hands \ {e} /\ e \notin Hands'
  BY <1>1 DEF Hands
<1>3. /\ IsFiniteSet(Hands) /\ IsFiniteSet(dropped) /\ e \notin dropped /\ e \notin ToSet(buf)
      /\ Cardinality(Hands) \in Nat /\ Cardinality(dropped) \in Nat
  BY <1>1, FS_CardinalityType DEF IInv, Everything, Apart
<1>4. /\ IsFiniteSet(Hands') /\ Cardinality(Hands') = Cardinality(Hands) - 1
  <2>1. IsFiniteSet(Hands \ {e}) /\ Cardinality(Hands \ {e}) = Cardinality(Hands) - 1
    BY <1>1, <1>3, FS_RemoveElement
  <2> QED
    BY <1>2, <2>1
<1>5. runner'.event = drainer'.event => runner'.event = NoEvent
  OBVIOUS
<1>6. /\ Len(buf) \in Nat /\ Len(written) \in Nat /\ offered \in Nat /\ written \in Seq(Events)
      /\ Len(buf) + Cardinality(Hands) + Len(written) + Cardinality(dropped) = offered
      /\ 1..offered = ToSet(buf) \cup Hands \cup ToSet(written) \cup dropped
  BY DEF IInv, Everything, TypeOK
<1>7. CASE Delivered(e)
  <2>1. ToSet(written') = ToSet(written) \cup {e} /\ Len(written') = Len(written) + 1
    BY <1>6, <1>7, AppendSet, AppendFacts DEF Delivered
  <2>2. dropped' = dropped
    BY <1>7 DEF Delivered
  <2>3. Apart'
    BY <1>2, <1>5, <2>2 DEF IInv, Apart
  <2>4. 1..offered' = ToSet(buf') \cup Hands' \cup ToSet(written') \cup dropped'
    BY <1>2, <1>6, <2>1, <2>2
  <2>5. Len(buf') + Cardinality(Hands') + Len(written') + Cardinality(dropped') = offered'
    BY <1>3, <1>4, <1>6, <2>1, <2>2
  <2> QED
    BY <1>3, <1>4, <2>2, <2>3, <2>4, <2>5 DEF Everything
<1>8. CASE Undelivered(e)
  <2>1. dropped' = dropped \cup {e} /\ written' = written
    BY <1>8 DEF Undelivered
  <2>2. IsFiniteSet(dropped') /\ Cardinality(dropped') = Cardinality(dropped) + 1
    BY <1>3, <2>1, FS_AddElement
  <2>3. Apart'
    BY <1>2, <1>3, <1>5, <2>1 DEF IInv, Apart
  <2>4. 1..offered' = ToSet(buf') \cup Hands' \cup ToSet(written') \cup dropped'
    BY <1>2, <1>6, <2>1
  <2>5. Len(buf') + Cardinality(Hands') + Len(written') + Cardinality(dropped') = offered'
    BY <1>3, <1>4, <1>6, <2>1, <2>2
  <2> QED
    BY <1>4, <2>2, <2>3, <2>4, <2>5 DEF Everything
<1> QED
  BY <1>7, <1>8

LEMMA EmptyStep ==
    ASSUME IInv, RunEmpties
    PROVE  Apart' /\ Everything'
<1> DEFINE e == Head(buf)
<1>0. /\ buf # << >> /\ buf' = Tail(buf) /\ dropped' = dropped \cup {e} /\ Hands' = Hands
      /\ UNCHANGED <<offered, runner, drainer, written, before>>
  BY DEF RunEmpties, Hands
<1>1. /\ e # NoEvent /\ e \notin Hands /\ e \notin dropped /\ e \notin ToSet(buf')
      /\ ToSet(buf) = ToSet(buf') \cup {e} /\ IsInjective(buf')
      /\ Len(buf) \in Nat /\ Len(buf') \in Nat /\ Len(buf') + 1 = Len(buf)
  BY <1>0, BufferHead
<1> HIDE DEF e
<1>3. /\ IsFiniteSet(dropped') /\ Cardinality(dropped') = Cardinality(dropped) + 1
      /\ IsFiniteSet(Hands) /\ IsFiniteSet(dropped)
      /\ Cardinality(Hands) \in Nat /\ Cardinality(dropped) \in Nat
  BY <1>0, <1>1, FS_AddElement, FS_CardinalityType DEF IInv, Everything
<1>4. Apart'
  BY <1>0, <1>1 DEF IInv, Apart
<1>5. 1..offered' = ToSet(buf') \cup Hands' \cup ToSet(written') \cup dropped'
  BY <1>0, <1>1 DEF IInv, Everything
<1>6. Len(buf') + Cardinality(Hands') + Len(written') + Cardinality(dropped') = offered'
  BY <1>0, <1>1, <1>3 DEF IInv, Everything, TypeOK
<1> QED
  BY <1>0, <1>3, <1>4, <1>5, <1>6 DEF Everything

LEMMA QuietStep ==
    ASSUME IInv, UNCHANGED <<offered, buf, written, dropped>>,
           runner'.event = runner.event, drainer'.event = drainer.event
    PROVE  Apart' /\ Everything'
<1>1. Hands' = Hands
  BY DEF Hands
<1> QED
  BY <1>1 DEF IInv, Apart, Everything
(* Events offered before the cancellation leave the buffer one by one. *)
LEMMA CountdownStep ==
    ASSUME IInv, [Next]_vars, ~Offer
    PROVE  Countdown'
<1>0. /\ buf \in Seq(Events) /\ drainer.left \in Nat /\ before \in Nat /\ offered \in Nat
      /\ \A i \in DOMAIN buf : buf[i] \in Nat /\ i \in 1..Len(buf)
  <2>1. buf \in Seq(Events) /\ drainer.left \in Nat /\ before \in Nat /\ offered \in Nat
    BY ExportAssumption DEF IInv, TypeOK
  <2>2. \A i \in DOMAIN buf : i \in 1..Len(buf) /\ buf[i] \in Events
    BY <2>1
  <2>3. Events \subseteq Nat
    BY DEF Events
  <2> QED
    BY <2>1, <2>2, <2>3
<1>1. /\ before <= offered
      /\ ~cancelled => before = offered
      /\ drainer.pc \in {"looping", "writing"} =>
            \A i \in DOMAIN buf : buf[i] <= before => i <= drainer.left
      /\ drainer.pc \in {"flushing", "closing", "done"} =>
            \A i \in DOMAIN buf : buf[i] > before
  BY DEF IInv, Countdown
<1>2. CASE RunTakes
  <2>1. /\ buf # << >> /\ buf' = Tail(buf) /\ drainer' = drainer
        /\ UNCHANGED <<offered, cancelled, before>> /\ runner.pc = "select"
    BY <1>2 DEF RunTakes
  <2>2. drainer.pc = "none"
    BY <2>1 DEF IInv, Turns
  <2> QED
    BY <1>1, <2>1, <2>2 DEF Countdown
<1>3. CASE RunEmpties
  <2>1. /\ buf # << >> /\ buf' = Tail(buf) /\ drainer' = drainer
        /\ UNCHANGED <<offered, cancelled, before>>
    BY <1>3 DEF RunEmpties
  <2>2. \A i \in DOMAIN buf' : i \in Nat /\ i + 1 \in DOMAIN buf /\ buf'[i] = buf[i + 1]
    BY <2>1, BufferHead
  <2>3. ASSUME drainer.pc \in {"looping", "writing"}, NEW i \in DOMAIN buf', buf'[i] <= before
        PROVE  i <= drainer.left
    <3>1. i \in Nat /\ i + 1 <= drainer.left
      BY <1>1, <2>2, <2>3
    <3> QED
      BY <1>0, <3>1
  <2> QED
    BY <1>1, <2>1, <2>2, <2>3 DEF Countdown
<1>4. CASE DrainTakes
  <2>1. /\ buf # << >> /\ buf' = Tail(buf) /\ drainer.pc = "looping"
        /\ drainer'.pc = "writing" /\ drainer'.left = drainer.left - 1
        /\ UNCHANGED <<offered, cancelled, before>>
    BY <1>4 DEF DrainTakes
  <2>2. \A i \in DOMAIN buf' : i \in Nat /\ i + 1 \in DOMAIN buf /\ buf'[i] = buf[i + 1]
    BY <2>1, BufferHead
  <2>3. ASSUME NEW i \in DOMAIN buf', buf'[i] <= before
        PROVE  i <= drainer'.left
    <3>1. i \in Nat /\ i + 1 <= drainer.left
      BY <1>1, <2>1, <2>2, <2>3
    <3> QED
      BY <1>0, <2>1, <3>1
  <2> QED
    BY <1>1, <2>1, <2>3 DEF Countdown
<1>5. CASE DrainCounts
  <2>1. /\ drainer' = [drainer EXCEPT !.pc = "looping", !.left = Len(buf)]
        /\ UNCHANGED <<offered, buf, cancelled, before>>
    BY <1>5 DEF DrainCounts
  <2>2. drainer'.pc = "looping" /\ drainer'.left = Len(buf)
    BY <2>1 DEF IInv, TypeOK
  <2>3. \A i \in DOMAIN buf : i <= drainer'.left
    BY <1>0, <2>2
  <2> QED
    BY <1>1, <2>1, <2>2, <2>3 DEF Countdown
<1>6. CASE DrainWrites
  <2>1. /\ drainer.pc = "writing" /\ drainer'.pc = "looping" /\ drainer'.left = drainer.left
        /\ UNCHANGED <<offered, buf, cancelled, before>>
    BY <1>6 DEF DrainWrites, IInv, TypeOK
  <2> QED
    BY <1>1, <2>1 DEF Countdown
<1>7. CASE DrainFindsNone
  <2>1. /\ buf = << >> /\ drainer'.pc = "done"
        /\ UNCHANGED <<offered, buf, cancelled, before>>
    BY <1>7 DEF DrainFindsNone, IInv, TypeOK
  <2> QED
    BY <1>1, <2>1 DEF Countdown
<1>8. CASE DrainFlushes
  <2>1. /\ drainer.pc = "looping" /\ drainer.left = 0 /\ drainer'.pc = "flushing"
        /\ UNCHANGED <<offered, buf, cancelled, before>>
    BY <1>8 DEF DrainFlushes, IInv, TypeOK
  <2>2. \A i \in DOMAIN buf : buf[i] > before
    BY <1>0, <1>1, <2>1
  <2> QED
    BY <1>1, <2>1, <2>2 DEF Countdown
<1>9. CASE DrainFlushed \/ DrainCloses
  <2>1. /\ drainer.pc \in {"flushing", "closing"} /\ drainer'.pc \in {"closing", "done"}
        /\ UNCHANGED <<offered, buf, cancelled, before>>
    BY <1>9 DEF DrainFlushed, DrainCloses, IInv, TypeOK
  <2> QED
    BY <1>1, <2>1 DEF Countdown
<1>10. CASE RunDrains
  <2>1. /\ drainer'.pc = "counting"
        /\ UNCHANGED <<offered, buf, cancelled, before>>
    BY <1>10 DEF RunDrains, IInv, TypeOK
  <2> QED
    BY <1>1, <2>1 DEF Countdown
<1>11. CASE Shutdown
  BY <1>1, <1>11 DEF Shutdown, Countdown
<1>12. CASE UNCHANGED <<offered, buf, cancelled, drainer, before>>
  BY <1>1, <1>12 DEF Countdown
<1> QED
  BY <1>2, <1>3, <1>4, <1>5, <1>6, <1>7, <1>8, <1>9, <1>10, <1>11, <1>12
     DEF Next, Scheduled, TransportReturns, RunWrites, RunFlushes, RunFlushed, RunJoins,
         RunGivesUp, RunEmptied, ShutdownJoins, ShutdownGivesUp, vars

LEMMA DataStep ==
    ASSUME IInv, [Next]_vars, ~Offer
    PROVE  Apart' /\ Everything'
<1>0. /\ runner.event \in Events \cup {NoEvent} /\ drainer.event \in Events \cup {NoEvent}
      /\ runner.pc = "writing" <=> runner.event # NoEvent
      /\ drainer.pc = "writing" <=> drainer.event # NoEvent
  BY DEF IInv, TypeOK, Turns
<1>1. CASE RunTakes
  <2>1. /\ buf # << >> /\ buf' = Tail(buf) /\ UNCHANGED <<offered, written, dropped, before>>
        /\ runner.event = NoEvent /\ runner'.event = Head(buf) /\ drainer' = drainer
    BY <1>0, <1>1 DEF RunTakes
  <2> QED
    BY <2>1, TakeStep
<1>2. CASE DrainTakes
  <2>1. /\ buf # << >> /\ buf' = Tail(buf) /\ UNCHANGED <<offered, written, dropped, before>>
        /\ drainer.event = NoEvent /\ drainer'.event = Head(buf) /\ runner' = runner
    BY <1>0, <1>2 DEF DrainTakes
  <2> QED
    BY <2>1, TakeStep
<1>3. CASE RunWrites
  <2>1. /\ runner.event \in Events /\ UNCHANGED <<offered, buf, before>>
        /\ Delivered(runner.event) \/ Undelivered(runner.event)
        /\ runner'.event = NoEvent /\ drainer' = drainer
    BY <1>0, <1>3 DEF RunWrites
  <2> QED
    BY <2>1, WriteStep
<1>4. CASE DrainWrites
  <2>1. /\ drainer.event \in Events /\ UNCHANGED <<offered, buf, before>>
        /\ Delivered(drainer.event) \/ Undelivered(drainer.event)
        /\ runner' = runner
    BY <1>0, <1>4 DEF DrainWrites
  <2>2. drainer'.event = NoEvent
    BY <1>4 DEF DrainWrites, IInv, TypeOK
  <2> QED
    BY <2>1, <2>2, WriteStep
<1>5. CASE RunEmpties
  BY <1>5, EmptyStep
<1>6. CASE /\ UNCHANGED <<offered, buf, written, dropped>>
           /\ runner'.event = runner.event /\ drainer'.event = drainer.event
  BY <1>6, QuietStep
<1>7. ASSUME RunFlushes \/ RunFlushed \/ RunJoins \/ RunGivesUp \/ RunEmptied
      PROVE  /\ UNCHANGED <<offered, buf, written, dropped>>
             /\ runner'.event = runner.event /\ drainer'.event = drainer.event
  BY <1>7 DEF RunFlushes, RunFlushed, RunJoins, RunGivesUp, RunEmptied, IInv, TypeOK
<1>8. ASSUME DrainCounts \/ DrainFindsNone \/ DrainFlushes \/ DrainFlushed \/ DrainCloses
      PROVE  /\ UNCHANGED <<offered, buf, written, dropped>>
             /\ runner'.event = runner.event /\ drainer'.event = drainer.event
  BY <1>8 DEF DrainCounts, DrainFindsNone, DrainFlushes, DrainFlushed, DrainCloses, IInv, TypeOK
<1>9. ASSUME RunDrains
      PROVE  /\ UNCHANGED <<offered, buf, written, dropped>>
             /\ runner'.event = runner.event /\ drainer'.event = drainer.event
  BY <1>9 DEF RunDrains, IInv, TypeOK
<1>10. ASSUME Shutdown \/ ShutdownJoins \/ ShutdownGivesUp \/ UNCHANGED vars
       PROVE  /\ UNCHANGED <<offered, buf, written, dropped>>
              /\ runner'.event = runner.event /\ drainer'.event = drainer.event
  BY <1>10 DEF Shutdown, ShutdownJoins, ShutdownGivesUp, vars
<1> QED
  BY <1>1, <1>2, <1>3, <1>4, <1>5, <1>6, <1>7, <1>8, <1>9, <1>10
     DEF Next, Scheduled, TransportReturns

LEMMA StepPreserves == IInv /\ [Next]_vars => IInv'
<1> SUFFICES ASSUME IInv, [Next]_vars PROVE IInv'
  OBVIOUS
<1>1. TypeOK' /\ Turns'
  BY TypeStep, TurnsStep
<1>2. Apart' /\ Everything' /\ Countdown'
  BY OfferStep, DataStep, CountdownStep
<1> QED
  BY <1>1, <1>2 DEF IInv

-----------------------------------------------------------------------------
(* The inductive invariant holds in every reachable state. *)
THEOREM Invariance == Spec => []IInv
  BY InitEstablishes, StepPreserves, PTL DEF Spec

(* Every variable keeps its type, and the buffer never exceeds its capacity. *)
THEOREM TypeCorrect == Spec => []TypeOK
<1>1. IInv => TypeOK
  BY DEF IInv
<1> QED
  BY <1>1, Invariance, PTL

(* run and drainAndFlush lose and duplicate nothing, also when run has given   *)
(* the drainer up and both empty the buffer; and once they have ended, what    *)
(* was offered before Close was written or counted as dropped.                 *)
THEOREM NothingLost == Spec => []EveryEventAccounted
<1>1. IInv => EveryEventAccounted
  <2> SUFFICES ASSUME IInv PROVE EveryEventAccounted
    OBVIOUS
  <2>1. /\ 1..offered = ToSet(buf) \cup Hands \cup ToSet(written) \cup dropped
        /\ Len(buf) + Cardinality(Hands) + Len(written) + Cardinality(dropped) = offered
    BY DEF IInv, Everything
  <2>2. 1..offered = Held \cup ToSet(written) \cup dropped
    BY <2>1 DEF Held, Hands
  <2>3. Len(buf) + Cardinality({runner.event, drainer.event} \ {NoEvent})
          + Len(written) + Cardinality(dropped) = offered
    BY <2>1 DEF Hands
  <2>4. ASSUME runner.pc = "done", drainer.pc = "done", NEW e \in 1..before
        PROVE  e \in ToSet(written) \cup dropped
    <3>1. Hands = {}
      BY <2>4 DEF Hands, IInv, Turns
    <3>2. e \in 1..offered /\ before \in Nat /\ offered \in Nat
      BY ExportAssumption DEF IInv, Countdown, TypeOK
    <3>3. \A i \in DOMAIN buf : buf[i] > before
      BY <2>4 DEF IInv, Countdown
    <3>4. e \notin ToSet(buf)
      <4>1. ~(e > before)
        BY <3>2
      <4> QED
        BY <3>3, <4>1 DEF ToSet
    <3> QED
      BY <2>1, <3>1, <3>2, <3>4
  <2> QED
    BY <2>2, <2>3, <2>4 DEF EveryEventAccounted
<1> QED
  BY <1>1, Invariance, PTL

(* The transport, which is not safe for concurrent use, is used by one         *)
(* goroutine at a time and by none after its Close.                            *)
THEOREM TransportSafe == Spec => []TransportIsExclusive
<1>1. IInv => TransportIsExclusive
  BY DEF IInv, TypeOK, Turns, TransportIsExclusive, InTransport
<1> QED
  BY <1>1, Invariance, PTL
=============================================================================
