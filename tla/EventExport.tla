------------------------------ MODULE EventExport ------------------------------
(***************************************************************************)
(* One asynchronous exporter (internal/eventexport/exporter.go) behind the  *)
(* sinks that fan events out to it (fanout.go, sink.go): emitters that      *)
(* offer, the run goroutine, the goroutine it starts to drain, and the      *)
(* shutdown that waits for them, over a transport that may fail or hang.    *)
(*                                                                          *)
(* Events are numbered in the order they are offered.  A transport call is  *)
(* two steps, its start and its end: between them it may hang for ever.     *)
(***************************************************************************)
EXTENDS Naturals, Sequences, FiniteSets, SequencesExt

CONSTANTS BufSize,    \* capacity of the buffer
          MaxEvents,  \* bound on the events offered
          NoEvent

ASSUME ExportAssumption ==
    /\ BufSize \in Nat \ {0}
    /\ MaxEvents \in Nat
    /\ NoEvent \notin Nat

VARIABLES offered,   \* events offered so far
          buf,       \* asyncExporter.buf
          cancelled, \* is the context cancelled?
          runner,    \* run: [pc, event it processes]
          drainer,   \* the goroutine of drainAndFlush: [pc, event, events left]
          shutdown,  \* shutdown: "no", "waiting", "returned"
          written,   \* what the transport took, in order
          dropped,   \* the drop metric, by event
          closed,    \* Transport.Close ran
          before     \* history: events offered before the context was cancelled

vars == <<offered, buf, cancelled, runner, drainer, shutdown, written, dropped, closed, before>>

Events == 1..MaxEvents

Init ==
    /\ offered = 0
    /\ buf = << >>
    /\ cancelled = FALSE
    /\ runner = [pc |-> "select", event |-> NoEvent]
    /\ drainer = [pc |-> "none", event |-> NoEvent, left |-> 0]
    /\ shutdown = "no"
    /\ written = << >>
    /\ dropped = {}
    /\ closed = FALSE
    /\ before = 0

-----------------------------------------------------------------------------
(* Emit, on any wrapped sink and at any time: buffered, or counted as        *)
(* dropped, without waiting.                                                 *)
Offer ==
    /\ offered < MaxEvents
    /\ offered' = offered + 1
    /\ before' = IF cancelled THEN before ELSE offered + 1
    /\ IF Len(buf) < BufSize
       THEN buf' = Append(buf, offered + 1) /\ UNCHANGED dropped
       ELSE dropped' = dropped \cup {offered + 1} /\ UNCHANGED buf
    /\ UNCHANGED <<cancelled, runner, drainer, shutdown, written, closed>>

(* process: a format or a write error drops the event. *)
Delivered(e) == written' = Append(written, e) /\ UNCHANGED dropped
Undelivered(e) == dropped' = dropped \cup {e} /\ UNCHANGED written

-----------------------------------------------------------------------------
(* run: an event, ... *)
RunTakes ==
    /\ runner.pc = "select"
    /\ buf # << >>
    /\ runner' = [pc |-> "writing", event |-> Head(buf)]
    /\ buf' = Tail(buf)
    /\ UNCHANGED <<offered, cancelled, drainer, shutdown, written, dropped, closed, before>>

RunWrites ==
    /\ runner.pc = "writing"
    /\ Delivered(runner.event) \/ Undelivered(runner.event)
    /\ runner' = [pc |-> "select", event |-> NoEvent]
    /\ UNCHANGED <<offered, buf, cancelled, drainer, shutdown, closed, before>>

(* ... the ticker, ... *)
RunFlushes ==
    /\ runner.pc = "select"
    /\ runner' = [runner EXCEPT !.pc = "flushing"]
    /\ UNCHANGED <<offered, buf, cancelled, drainer, shutdown, written, dropped, closed, before>>

RunFlushed ==
    /\ runner.pc = "flushing"
    /\ runner' = [runner EXCEPT !.pc = "select"]
    /\ UNCHANGED <<offered, buf, cancelled, drainer, shutdown, written, dropped, closed, before>>

(* ... or the cancelled context, on which it starts the drainer and waits.   *)
RunDrains ==
    /\ runner.pc = "select"
    /\ cancelled
    /\ runner' = [runner EXCEPT !.pc = "draining"]
    /\ drainer' = [drainer EXCEPT !.pc = "counting"]
    /\ UNCHANGED <<offered, buf, cancelled, shutdown, written, dropped, closed, before>>

-----------------------------------------------------------------------------
(* The drainer processes as many events as it finds buffered at its start... *)
DrainCounts ==
    /\ drainer.pc = "counting"
    /\ drainer' = [drainer EXCEPT !.pc = "looping", !.left = Len(buf)]
    /\ UNCHANGED <<offered, buf, cancelled, runner, shutdown, written, dropped, closed, before>>

DrainTakes ==
    /\ drainer.pc = "looping"
    /\ drainer.left > 0
    /\ buf # << >>
    /\ drainer' = [pc |-> "writing", event |-> Head(buf), left |-> drainer.left - 1]
    /\ buf' = Tail(buf)
    /\ UNCHANGED <<offered, cancelled, runner, shutdown, written, dropped, closed, before>>

DrainWrites ==
    /\ drainer.pc = "writing"
    /\ Delivered(drainer.event) \/ Undelivered(drainer.event)
    /\ drainer' = [drainer EXCEPT !.pc = "looping", !.event = NoEvent]
    /\ UNCHANGED <<offered, buf, cancelled, runner, shutdown, closed, before>>

(* ... returns early if the buffer was emptied under it ... *)
DrainFindsNone ==
    /\ drainer.pc = "looping"
    /\ drainer.left > 0
    /\ buf = << >>
    /\ drainer' = [drainer EXCEPT !.pc = "done"]
    /\ UNCHANGED <<offered, buf, cancelled, runner, shutdown, written, dropped, closed, before>>

(* ... and otherwise flushes and closes the transport. *)
DrainFlushes ==
    /\ drainer.pc = "looping"
    /\ drainer.left = 0
    /\ drainer' = [drainer EXCEPT !.pc = "flushing"]
    /\ UNCHANGED <<offered, buf, cancelled, runner, shutdown, written, dropped, closed, before>>

DrainFlushed ==
    /\ drainer.pc = "flushing"
    /\ drainer' = [drainer EXCEPT !.pc = "closing"]
    /\ UNCHANGED <<offered, buf, cancelled, runner, shutdown, written, dropped, closed, before>>

DrainCloses ==
    /\ drainer.pc = "closing"
    /\ drainer' = [drainer EXCEPT !.pc = "done"]
    /\ closed' = TRUE
    /\ UNCHANGED <<offered, buf, cancelled, runner, shutdown, written, dropped, before>>

-----------------------------------------------------------------------------
(* run ends when the drainer has, ... *)
RunJoins ==
    /\ runner.pc = "draining"
    /\ drainer.pc = "done"
    /\ runner' = [runner EXCEPT !.pc = "done"]
    /\ UNCHANGED <<offered, buf, cancelled, drainer, shutdown, written, dropped, closed, before>>

(* mutant: run closes the transport of the drainer it gives up. *)
RunGivesUpClosing ==
    /\ runner.pc = "draining"
    /\ runner' = [runner EXCEPT !.pc = "emptying"]
    /\ closed' = TRUE
    /\ UNCHANGED <<offered, buf, cancelled, drainer, shutdown, written, dropped, before>>

(* ... or gives it up after drainTimeout and drops what is buffered. *)
RunGivesUp ==
    /\ runner.pc = "draining"
    /\ runner' = [runner EXCEPT !.pc = "emptying"]
    /\ UNCHANGED <<offered, buf, cancelled, drainer, shutdown, written, dropped, closed, before>>

(* mutant: what is thrown away is not counted. *)
RunEmptiesUncounted ==
    /\ runner.pc = "emptying"
    /\ buf # << >>
    /\ buf' = Tail(buf)
    /\ UNCHANGED <<dropped, offered, cancelled, runner, drainer, shutdown, written, closed, before>>

RunEmpties ==
    /\ runner.pc = "emptying"
    /\ buf # << >>
    /\ dropped' = dropped \cup {Head(buf)}
    /\ buf' = Tail(buf)
    /\ UNCHANGED <<offered, cancelled, runner, drainer, shutdown, written, closed, before>>

RunEmptied ==
    /\ runner.pc = "emptying"
    /\ buf = << >>
    /\ runner' = [runner EXCEPT !.pc = "done"]
    /\ UNCHANGED <<offered, buf, cancelled, drainer, shutdown, written, dropped, closed, before>>

-----------------------------------------------------------------------------
(* Close cancels the context and waits in shutdown, ... *)
Shutdown ==
    /\ shutdown = "no"
    /\ shutdown' = "waiting"
    /\ cancelled' = TRUE
    /\ UNCHANGED <<offered, buf, runner, drainer, written, dropped, closed, before>>

ShutdownJoins ==
    /\ shutdown = "waiting"
    /\ runner.pc = "done"
    /\ shutdown' = "returned"
    /\ UNCHANGED <<offered, buf, cancelled, runner, drainer, written, dropped, closed, before>>

(* mutant: shutdown waits for run without a bound. *)
ShutdownWaits == ShutdownJoins

(* ... but no longer than drainTimeout and a second. *)
ShutdownGivesUp ==
    /\ shutdown = "waiting"
    /\ shutdown' = "returned"
    /\ UNCHANGED <<offered, buf, cancelled, runner, drainer, written, dropped, closed, before>>

(* External: a transport call returns.  None of these has to happen. *)
TransportReturns == RunWrites \/ RunFlushed \/ DrainWrites \/ DrainFlushed \/ DrainCloses

(* The steps of the goroutines between transport calls, and their timers. *)
Scheduled ==
    \/ RunTakes \/ RunDrains \/ RunJoins \/ RunGivesUp \/ RunEmpties \/ RunEmptied
    \/ DrainCounts \/ DrainTakes \/ DrainFindsNone \/ DrainFlushes

Next ==
    \/ Offer
    \/ Scheduled
    \/ RunFlushes
    \/ TransportReturns
    \/ Shutdown \/ ShutdownJoins \/ ShutdownGivesUp

(* Goroutines that can run do and timers fire; transport calls may hang. *)
Fairness ==
    /\ WF_vars(RunTakes \/ RunDrains)
    /\ WF_vars(RunJoins \/ RunGivesUp \/ RunEmpties \/ RunEmptied)
    /\ WF_vars(DrainCounts \/ DrainTakes \/ DrainFindsNone \/ DrainFlushes)
    /\ WF_vars(ShutdownJoins \/ ShutdownGivesUp)

Spec == Init /\ [][Next]_vars
FairSpec == Spec /\ Fairness

-----------------------------------------------------------------------------
(* Properties. *)

(* Every variable has its type, and the buffer its capacity. *)
TypeOK ==
    /\ offered \in 0..MaxEvents
    /\ buf \in Seq(Events) /\ Len(buf) <= BufSize
    /\ cancelled \in BOOLEAN
    /\ runner \in [pc : {"select", "writing", "flushing", "draining", "emptying", "done"},
                   event : Events \cup {NoEvent}]
    /\ drainer \in [pc : {"none", "counting", "looping", "writing", "flushing", "closing", "done"},
                    event : Events \cup {NoEvent}, left : 0..BufSize]
    /\ shutdown \in {"no", "waiting", "returned"}
    /\ written \in Seq(Events)
    /\ dropped \subseteq Events
    /\ closed \in BOOLEAN
    /\ before \in 0..MaxEvents

Held == ToSet(buf) \cup ({runner.event, drainer.event} \ {NoEvent})

(* Every event that was offered is buffered, in one goroutine's hands,       *)
(* written or counted as dropped, and only one of these: the two goroutines  *)
(* that empty the buffer neither lose nor duplicate an event.  Once both     *)
(* have ended nothing that was offered before Close is left in the buffer.   *)
EveryEventAccounted ==
    /\ 1..offered = Held \cup ToSet(written) \cup dropped
    /\ Len(buf) + Cardinality({runner.event, drainer.event} \ {NoEvent})
          + Len(written) + Cardinality(dropped) = offered
    /\ runner.pc = "done" /\ drainer.pc = "done" =>
          1..before \subseteq ToSet(written) \cup dropped

InTransport(pc) == pc \in {"writing", "flushing", "closing"}

(* No two goroutines are in the transport at the same time, and none enters  *)
(* it after Close, not even when run gives the drainer up.                   *)
TransportIsExclusive ==
    /\ ~(InTransport(runner.pc) /\ InTransport(drainer.pc))
    /\ closed => ~InTransport(runner.pc) /\ ~InTransport(drainer.pc)

(* shutdown returns, however long the transport hangs. *)
ShutdownReturns == shutdown = "waiting" ~> shutdown = "returned"
=============================================================================
