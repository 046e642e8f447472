---------------------------- MODULE SessionRegistry ----------------------------
(***************************************************************************)
(* The registry of live sessions (internal/sessions/registry.go), for one   *)
(* of its sessions, and the supervisors that watch it over the control API  *)
(* (streamSession in internal/api/approvals.go).                            *)
(***************************************************************************)
EXTENDS Naturals, Sequences

CONSTANTS Supervisors,
          SubCap       \* the buffer of a subscription, 64 in the code

ASSUME RegistryAssumption == SubCap \in Nat \ {0}

VARIABLES registered,  \* the session has an entry
          channels,    \* the entry's count of channels
          sup,         \* each supervisor's step and the buffer of its subscription
          ended        \* session_end has been published

registry == <<registered, channels, sup, ended>>

(* Without the control API there is no registry, and nobody to watch. *)
RegistryInit(api) ==
    /\ registered = api /\ channels = 0
    /\ sup = [s \in Supervisors |-> [pc |-> "idle", queue |-> << >>]]
    /\ ended = FALSE

Full(s) == Len(sup[s].queue) >= SubCap
Streaming == {s \in Supervisors : sup[s].pc = "streaming"}

(* Publish: a subscriber whose buffer is full does not get the event. *)
Published(event) ==
    [s \in Supervisors |->
        IF s \in Streaming /\ ~ Full(s) THEN [sup[s] EXCEPT !.queue = Append(@, event)]
        ELSE sup[s]]

(* AddChannels and Publish, as the goroutine of a channel calls them. *)
ChannelOpened ==
    /\ channels' = IF registered THEN channels + 1 ELSE channels
    /\ sup' = Published("channel_open")
    /\ UNCHANGED <<registered, ended>>

ChannelClosed ==
    /\ channels' = IF registered /\ channels > 0 THEN channels - 1 ELSE channels
    /\ sup' = Published("channel_close")
    /\ UNCHANGED <<registered, ended>>

(* mutant: the entry goes, and nobody is told. *)
PublishEndSilently ==
    /\ ended' = TRUE
    /\ UNCHANGED <<registered, channels, sup>>

(* deregister publishes session_end, then removes the entry. *)
PublishEnd ==
    /\ ended' = TRUE
    /\ sup' = Published("session_end")
    /\ UNCHANGED <<registered, channels>>

RemoveEntry ==
    /\ registered' = FALSE /\ channels' = 0
    /\ UNCHANGED <<sup, ended>>

(* streamSession: Get, then Subscribe, each under its own mutex. *)
Get(s) ==
    /\ sup[s].pc = "idle" /\ registered
    /\ sup' = [sup EXCEPT ![s].pc = "found"]
    /\ UNCHANGED <<registered, channels, ended>>

Subscribe(s) ==
    /\ sup[s].pc = "found"
    /\ sup' = [sup EXCEPT ![s] = [pc |-> "streaming", queue |-> << >>]]
    /\ UNCHANGED <<registered, channels, ended>>

(* An event is sent on; the stream ends with session_end. *)
Deliver(s) ==
    /\ s \in Streaming /\ sup[s].queue # << >>
    /\ sup' = [sup EXCEPT ![s] =
           [pc |-> IF Head(@.queue) = "session_end" THEN "closed" ELSE "streaming",
            queue |-> Tail(@.queue)]]
    /\ UNCHANGED <<registered, channels, ended>>

(* The supervisor goes away: its subscription is cancelled. *)
Detach(s) ==
    /\ s \in Streaming
    /\ sup' = [sup EXCEPT ![s] = [pc |-> "closed", queue |-> << >>]]
    /\ UNCHANGED <<registered, channels, ended>>
=============================================================================
