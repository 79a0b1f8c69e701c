----------------------------- MODULE EventRelay -----------------------------
(***************************************************************************)
(* The event stream of one session actor: the EventChannel the runner      *)
(* emits into (internal/runtime/emitter.go), the relay goroutine that      *)
(* copies events to its subscribers, the EventSubscription of each client  *)
(* (internal/runtime/session_manager.go) and the SSE handler that reads it *)
(* (HandleStream of internal/server/api.go).                               *)
(*                                                                         *)
(* Events are numbered in the order they are emitted.  Complete, the last  *)
(* one, is session_complete; Error tells a client that it fell behind.     *)
(* A definition that stands right before another one and differs from it   *)
(* in one respect is a mistake the properties are tested against.          *)
(***************************************************************************)
EXTENDS Naturals, Sequences, SequencesExt, FiniteSets

CONSTANTS Subs,    \* SSE handlers, each with its subscription
          Complete,  \* the event session_complete; TLC's bound on events
          Buf,     \* capacity of the EventChannel
          SubBuf,  \* capacity of a subscription
          NoSub

ASSUME EventsAssumption == Complete \in Nat \ {0}
ASSUME BufAssumption == Buf \in Nat \ {0} /\ SubBuf \in Nat \ {0}
ASSUME NoSubAssumption == NoSub \notin Subs

VARIABLES
  run,      \* the runner: "running", then "finalized", then events.Close: "closed"
  emitted,  \* number of the last event emitted
  input,    \* the buffer of the EventChannel
  sent,     \* history: the events the relay took, in order
  relay,    \* the relay goroutine and r.closed
  sub,      \* the subscriptions with their handlers
  crashed   \* the process died of a panic

vars == <<run, emitted, input, sent, relay, sub, crashed>>

Error == 0
Events == 1 .. Complete
Signals == {Error, Complete}

-----------------------------------------------------------------------------
(* The relay: "receive": in the range over r.input; "sending": broadcast   *)
(* goes over its copy of the subscribers; "overflow": trySend failed for   *)
(* cur; "cut": markOverflow is about to close cur; "closing": closeAll     *)
(* goes over its copy.                                                     *)
Relay == [pc : {"receive", "sending", "overflow", "cut", "closing", "done"},
          event : Events \cup {Error}, targets : SUBSET Subs,
          cur : Subs \cup {NoSub}, closed : BOOLEAN]

(* The subscription: registered in r.subscribers; its channel; the state   *)
(* of closeOnce ("closing": the channel is closed, onClose has not run);   *)
(* errorEvent if overflowed.  The handler, what it wrote to its client,    *)
(* how long sent was when it joined, and whether the client went away.     *)
Sub == [pc : {"idle", "checked", "streaming", "leaving", "left"},
        reg : BOOLEAN, queue : Seq(Events \cup {Error}),
        once : {"open", "closing", "closed"},
        overflowed : BOOLEAN, signal : Signals,
        got : Seq(Events \cup {Error}), from : Nat,
        joined : BOOLEAN, quit : BOOLEAN]

Init ==
  /\ run = "running"
  /\ emitted = 0
  /\ input = <<>>
  /\ sent = <<>>
  /\ relay = [pc |-> "receive", event |-> Error, targets |-> {}, cur |-> NoSub,
              closed |-> FALSE]
  /\ sub = [s \in Subs |-> [pc |-> "idle", reg |-> FALSE, queue |-> <<>>, once |-> "open",
                            overflowed |-> FALSE, signal |-> Error,
                            got |-> <<>>, from |-> 0,
                            joined |-> FALSE, quit |-> FALSE]]
  /\ crashed = FALSE

Registered == {s \in Subs : sub[s].reg}
Full(s) == Len(sub[s].queue) = SubBuf

-----------------------------------------------------------------------------
(* EventChannel.Emit: never blocks; the event is dropped when the buffer   *)
(* is full.  The runner ends with session_complete, unless it ends early.  *)
Emit(n) ==
  /\ run = "running"
  /\ emitted < n
  /\ n = emitted + 1 \/ n = Complete
  /\ emitted' = n
  /\ input' = IF Len(input) < Buf THEN Append(input, n) ELSE input
  /\ UNCHANGED <<run, sent, relay, sub, crashed>>

RunEnds ==
  /\ \/ run = "running" /\ run' = "finalized"
     \/ run = "finalized" /\ run' = "closed"
  /\ UNCHANGED <<emitted, input, sent, relay, sub, crashed>>

-----------------------------------------------------------------------------
(* The relay takes an event and copies the subscribers under r.mu.         *)
Broadcast ==
  /\ relay.pc = "receive"
  /\ input # <<>>
  /\ input' = Tail(input)
  /\ sent' = Append(sent, Head(input))
  /\ relay' = [relay EXCEPT !.pc = "sending", !.event = Head(input),
                            !.targets = Registered]
  /\ UNCHANGED <<run, emitted, sub, crashed>>

BroadcastEnds ==
  /\ relay.pc = "sending"
  /\ relay.targets = {}
  /\ relay' = [relay EXCEPT !.pc = "receive"]
  /\ UNCHANGED <<run, emitted, input, sent, sub, crashed>>

TrySendDrops(s) ==
  /\ relay.pc = "sending"
  /\ s \in relay.targets
  /\ IF sub[s].once = "open" /\ ~Full(s)
     THEN sub' = [sub EXCEPT ![s].queue = Append(@, relay.event)]
     ELSE sub' = sub
  /\ relay' = [relay EXCEPT !.targets = @ \ {s}]
  /\ UNCHANGED <<run, emitted, input, sent, crashed>>

TrySendBlocks(s) ==
  /\ relay.pc = "sending"
  /\ s \in relay.targets
  /\ sub[s].once = "open" => ~Full(s)
  /\ sub' = [sub EXCEPT ![s].queue = IF sub[s].once = "open" THEN Append(@, relay.event) ELSE @]
  /\ relay' = [relay EXCEPT !.targets = @ \ {s}]
  /\ UNCHANGED <<run, emitted, input, sent, crashed>>

(* trySend fails when the channel is closed or full.                       *)
TrySend(s) ==
  /\ relay.pc = "sending"
  /\ s \in relay.targets
  /\ IF sub[s].once = "open" /\ ~Full(s)
     THEN /\ sub' = [sub EXCEPT ![s].queue = Append(@, relay.event)]
          /\ relay' = [relay EXCEPT !.targets = @ \ {s}]
     ELSE /\ relay' = [relay EXCEPT !.targets = @ \ {s}, !.pc = "overflow", !.cur = s]
          /\ sub' = sub
  /\ UNCHANGED <<run, emitted, input, sent, crashed>>

OverflowSignalForEvent(event) == IF event = Complete THEN Complete ELSE Error

ReplaceIfRoom(queue, signal) == IF Len(queue) < SubBuf THEN Append(queue, signal) ELSE queue

(* One event makes room and the signal takes its place.                    *)
Replace(queue, signal) ==
  Append(IF queue = <<>> THEN queue ELSE Tail(queue), signal)

(* markOverflow under s.mu.  Sending on a channel that has been closed     *)
(* panics, in the select too.  A subscription that has overflowed was      *)
(* closed and left r.subscribers, so its early return is never taken.      *)
MarkOverflow ==
  /\ relay.pc = "overflow"
  /\ LET s == relay.cur
         signal == OverflowSignalForEvent(relay.event)
     IN  IF sub[s].once = "open"
         THEN /\ sub' = [sub EXCEPT ![s].overflowed = TRUE, ![s].signal = signal,
                                    ![s].queue = Replace(@, signal)]
              /\ relay' = [relay EXCEPT !.pc = "cut"]
              /\ crashed' = crashed
         ELSE /\ crashed' = TRUE
              /\ UNCHANGED <<sub, relay>>
  /\ UNCHANGED <<run, emitted, input, sent>>

(* EventSubscription.Close by the relay.  closeOnce makes it wait for a    *)
(* handler that is inside Close.                                           *)
RelayCloses(s) ==
  /\ sub[s].once # "closing"
  /\ sub' = [sub EXCEPT ![s].once = "closed", ![s].reg = FALSE]

CutOff ==
  /\ relay.pc = "cut"
  /\ RelayCloses(relay.cur)
  /\ relay' = [relay EXCEPT !.pc = "sending", !.cur = NoSub]
  /\ UNCHANGED <<run, emitted, input, sent, crashed>>

CloseAllWithoutFlag ==
  /\ relay.pc = "receive"
  /\ run = "closed"
  /\ input = <<>>
  /\ relay' = [relay EXCEPT !.pc = "closing", !.targets = Registered]
  /\ sub' = [s \in Subs |-> [sub[s] EXCEPT !.reg = FALSE]]
  /\ UNCHANGED <<run, emitted, input, sent, crashed>>

(* The input is closed and empty: the deferred closeAll, first under r.mu. *)
CloseAll ==
  /\ relay.pc = "receive"
  /\ run = "closed"
  /\ input = <<>>
  /\ relay' = [relay EXCEPT !.pc = "closing", !.closed = TRUE, !.targets = Registered]
  /\ sub' = [s \in Subs |-> [sub[s] EXCEPT !.reg = FALSE]]
  /\ UNCHANGED <<run, emitted, input, sent, crashed>>

CloseNext(s) ==
  /\ relay.pc = "closing"
  /\ s \in relay.targets
  /\ RelayCloses(s)
  /\ relay' = [relay EXCEPT !.targets = @ \ {s}]
  /\ UNCHANGED <<run, emitted, input, sent, crashed>>

RelayEnds ==
  /\ relay.pc = "closing"
  /\ relay.targets = {}
  /\ relay' = [relay EXCEPT !.pc = "done"]
  /\ UNCHANGED <<run, emitted, input, sent, sub, crashed>>

-----------------------------------------------------------------------------
(* HandleStream finds the actor; Subscribe reads a.finalized.  A client    *)
(* that comes too late gets a stream that is closed already.               *)
Opens(s) ==
  /\ sub[s].pc = "idle"
  /\ IF run = "running"
     THEN sub' = [sub EXCEPT ![s].pc = "checked"]
     ELSE sub' = [sub EXCEPT ![s].pc = "left", ![s].once = "closed"]
  /\ UNCHANGED <<run, emitted, input, sent, relay, crashed>>

(* relay.subscribe under r.mu.                                             *)
Subscribe(s) ==
  /\ sub[s].pc = "checked"
  /\ IF relay.closed
     THEN sub' = [sub EXCEPT ![s].pc = "left", ![s].once = "closed"]
     ELSE sub' = [sub EXCEPT ![s].pc = "streaming", ![s].reg = TRUE,
                             ![s].joined = TRUE, ![s].from = Len(sent)]
  /\ UNCHANGED <<run, emitted, input, sent, relay, crashed>>

(* The handler writes the next event to its client ...                     *)
Reads(s) ==
  /\ sub[s].pc = "streaming"
  /\ sub[s].queue # <<>>
  /\ sub' = [sub EXCEPT ![s].queue = Tail(@), ![s].got = Append(@, Head(sub[s].queue))]
  /\ UNCHANGED <<run, emitted, input, sent, relay, crashed>>

StreamEndsUnread(s) ==
  /\ sub[s].pc = "streaming"
  /\ sub[s].once = "closed"
  /\ sub' = [sub EXCEPT ![s].pc = "left"]
  /\ UNCHANGED <<run, emitted, input, sent, relay, crashed>>

(* ... until its channel is closed and empty; then it writes the overflow  *)
(* event, if there is one.  Its deferred Close finds the subscription      *)
(* closed, or waits for the relay that is closing it.                      *)
StreamEnds(s) ==
  /\ sub[s].pc = "streaming"
  /\ sub[s].queue = <<>>
  /\ sub[s].once = "closed"
  /\ sub' = [sub EXCEPT ![s].pc = "left",
                        ![s].got = IF sub[s].overflowed THEN Append(@, sub[s].signal) ELSE @]
  /\ UNCHANGED <<run, emitted, input, sent, relay, crashed>>

(* The client disconnects: the deferred Close closes the channel and then  *)
(* takes r.mu to leave r.subscribers.                                      *)
Disconnects(s) ==
  /\ sub[s].pc = "streaming"
  /\ sub' = [sub EXCEPT ![s].quit = TRUE,
                        ![s].pc = IF sub[s].once = "open" THEN "leaving" ELSE "left",
                        ![s].once = IF @ = "open" THEN "closing" ELSE @]
  /\ UNCHANGED <<run, emitted, input, sent, relay, crashed>>

Unsubscribes(s) ==
  /\ sub[s].pc = "leaving"
  /\ sub' = [sub EXCEPT ![s].pc = "left", ![s].once = "closed", ![s].reg = FALSE]
  /\ UNCHANGED <<run, emitted, input, sent, relay, crashed>>

-----------------------------------------------------------------------------
RelayStep ==
  \/ Broadcast \/ BroadcastEnds \/ MarkOverflow \/ CutOff \/ CloseAll \/ RelayEnds
  \/ \E s \in Subs : TrySend(s) \/ CloseNext(s)

HandlerStep(s) ==
  Opens(s) \/ Subscribe(s) \/ Reads(s) \/ StreamEnds(s) \/ Unsubscribes(s)

Next ==
  /\ ~crashed
  /\ \/ RunEnds
     \/ \E n \in Events : Emit(n)
     \/ RelayStep
     \/ \E s \in Subs : HandlerStep(s) \/ Disconnects(s)

Spec == Init /\ [][Next]_vars

(* Fairness: the run ends (see SessionManager), the relay is scheduled,    *)
(* and a handler that is inside Close finishes it.  Clients need not read. *)
FairSpec ==
  /\ Spec
  /\ WF_vars(~crashed /\ RunEnds)
  /\ WF_vars(~crashed /\ RelayStep)
  /\ \A s \in Subs : WF_vars(~crashed /\ Unsubscribes(s))

-----------------------------------------------------------------------------
(* Types; no buffer holds more than its capacity.                          *)
TypeOK ==
  /\ run \in {"running", "finalized", "closed"}
  /\ emitted \in 0 .. Complete
  /\ input \in Seq(Events) /\ Len(input) <= Buf
  /\ sent \in Seq(Events)
  /\ relay \in Relay
  /\ sub \in [Subs -> Sub]
  /\ \A s \in Subs : Len(sub[s].queue) <= SubBuf
  /\ crashed \in BOOLEAN

(* What the subscription has been given, read or not.                      *)
Given(s) == sub[s].got \o sub[s].queue
Due(s) == SubSeq(sent, sub[s].from + 1, Len(sent))
InFlight(s) ==
  \/ relay.pc \in {"sending", "overflow", "cut"} /\ s \in relay.targets
  \/ relay.pc = "overflow" /\ s = relay.cur

(* The client lacks exactly one event, and not the last one.               *)
LacksOne(s) == \E i \in 1 .. Len(Due(s)) - 1 : Given(s) = RemoveAt(Due(s), i)

(* Where events get lost.  A subscription that has not overflowed has      *)
(* every event the relay took since it subscribed, in order, but for the   *)
(* one that is being sent right now.  One that another event overflowed    *)
(* has the event that says so as its last.  One that session_complete      *)
(* overflowed is not told, although docs/validation-matrix.md:556 says that*)
(* overflow emits an error event: markOverflow takes the oldest unread     *)
(* event out to make room (there may be none left), and nothing else is    *)
(* missing.  (session_manager.go:604-660)                                  *)
OnlyOverflowLoses ==
  \A s \in Subs : sub[s].pc = "streaming" =>
    \/ /\ ~sub[s].overflowed
       /\ Given(s) = Due(s) \/ (InFlight(s) /\ Given(s) = Front(Due(s)))
    \/ /\ sub[s].overflowed /\ sub[s].signal = Error
       /\ Given(s) # <<>> /\ Last(Given(s)) = Error
    \/ /\ sub[s].overflowed /\ sub[s].signal = Complete
       /\ Given(s) = Due(s) \/ LacksOne(s)

(* A stream that the server ends says why: a client that joined before     *)
(* session_complete was relayed, and that stayed, has session_complete, or *)
(* the event that says that it fell behind, as the last thing it was sent. *)
StreamEndIsExplained ==
  \A s \in Subs :
    sub[s].pc = "left" /\ sub[s].joined /\ ~sub[s].quit /\ Contains(Due(s), Complete) =>
      sub[s].got # <<>> /\ Last(sub[s].got) \in Signals

(* When the relay is gone nobody waits for it: a handler that joined in    *)
(* time was closed, and one that joined too late was turned away.          *)
NobodyLeftBehind ==
  relay.pc = "done" => \A s \in Subs : sub[s].pc = "streaming" => sub[s].once # "open"

(* No client can hold up the stream, whether it reads or not: after the    *)
(* run has closed its events the relay comes to its end.                   *)
RelayAlwaysEnds == run = "closed" ~> relay.pc = "done" \/ crashed

(* docs/validation-matrix.md on streams: "Session continues after client   *)
(* disconnects".  A client that disconnects brings nothing down.           *)
DisconnectIsHarmless == ~crashed
=============================================================================
