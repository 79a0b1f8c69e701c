------------------------- MODULE EventRelay_proofs -------------------------
(***************************************************************************)
(* Proofs about EventRelay for any number of clients, events and for all   *)
(* capacities: a stream loses events by overflow alone and how many, its   *)
(* end is explained to everybody who stayed, and the relay leaves nobody   *)
(* behind.                                                                 *)
(***************************************************************************)
EXTENDS EventRelay, SequenceTheorems, TLAPS

-----------------------------------------------------------------------------
(* The inductive invariant.                                                *)
Busy == {"sending", "overflow", "cut"}
Closing == {"closing", "done"}

(* Events are taken in the order of their numbers, each at most once.      *)
InNumberOrder ==
  /\ \A i, j \in 1 .. Len(sent) : i < j => sent[i] < sent[j]
  /\ \A i, j \in 1 .. Len(input) : i < j => input[i] < input[j]
  /\ \A i \in 1 .. Len(sent), j \in 1 .. Len(input) : sent[i] < input[j]
  /\ \A i \in 1 .. Len(sent) : sent[i] <= emitted
  /\ \A i \in 1 .. Len(input) : input[i] <= emitted

(* What the relay is at, and the subscription it is cutting off.           *)
RelayAt ==
  /\ relay.closed <=> relay.pc \in Closing
  /\ relay.pc = "done" => relay.targets = {}
  /\ relay.pc \in {"overflow", "cut"} => relay.cur \in Subs \ relay.targets
  /\ relay.pc = "cut" => sub[relay.cur].overflowed
  /\ relay.pc \in Busy => sent # <<>> /\ relay.event = sent[Len(sent)]

(* Before it subscribes a handler has nothing, and the relay does not know *)
(* it; only a client that goes away closes its own subscription.           *)
ToBeClosed(s) == relay.pc = "closing" /\ s \in relay.targets

Joining(s) ==
  /\ sub[s].pc \in {"idle", "checked"} =>
       /\ sub[s].once = "open" /\ ~sub[s].reg /\ ~sub[s].overflowed /\ ~sub[s].joined
       /\ sub[s].queue = <<>> /\ sub[s].got = <<>>
       /\ ~InFlight(s) /\ ~ToBeClosed(s)
  /\ sub[s].pc = "leaving" => sub[s].quit
  /\ sub[s].pc = "streaming" => sub[s].once # "closing"

(* The relay knows every subscription that is open, and it alone closes a  *)
(* subscription that is read.                                              *)
Known(s) ==
  /\ relay.closed => ~sub[s].reg
  /\ sub[s].pc = "streaming" /\ sub[s].once = "open" =>
       sub[s].reg \/ ToBeClosed(s)
  /\ sub[s].pc = "streaming" /\ ~sub[s].overflowed /\ ~relay.closed =>
       sub[s].once = "open" /\ sub[s].reg

(* A client that has not been cut off has all but the event under way.     *)
Relayed(s) == IF InFlight(s) THEN Len(sent) - 1 ELSE Len(sent)
UpToDate(s) ==
  sub[s].pc = "streaming" /\ ~sub[s].overflowed =>
    /\ sub[s].from <= Relayed(s)
    /\ Given(s) = SubSeq(sent, sub[s].from + 1, Relayed(s))

(* One that stayed knows why its stream ended, or had everything before    *)
(* the relay stopped without the last event.                               *)
Explained(s) ==
  sub[s].pc = "left" /\ sub[s].joined /\ ~sub[s].quit =>
    \/ sub[s].got # <<>> /\ Last(sub[s].got) \in Signals
    \/ relay.closed /\ ~Contains(Due(s), Complete)

Client(s) == Joining(s) /\ Known(s) /\ UpToDate(s) /\ Explained(s)

IInv == TypeOK /\ InNumberOrder /\ RelayAt /\ \A s \in Subs : Client(s)

-----------------------------------------------------------------------------
(* Sequences.                                                              *)
LEMMA ReadKeepsAll ==
  ASSUME NEW S, NEW g \in Seq(S), NEW q \in Seq(S), q # <<>>
  PROVE  Append(g, Head(q)) \o Tail(q) = g \o q
<1>h. Head(q) \in S /\ Tail(q) \in Seq(S) /\ Len(Tail(q)) = Len(q) - 1
      /\ \A i \in 1 .. Len(Tail(q)) : Tail(q)[i] = q[i + 1]
  BY HeadTailProperties
<1>n. Len(q) \in Nat \ {0} /\ Len(g) \in Nat /\ Head(q) = q[1]
  BY EmptySeq, LenProperties
<1> DEFINE a == Append(g, Head(q))
<1>a. a \in Seq(S) /\ Len(a) = Len(g) + 1 /\ a[Len(g) + 1] = Head(q)
      /\ \A i \in 1 .. Len(g) : a[i] = g[i]
  BY <1>h, AppendProperties
<1> HIDE DEF a
<1>l. a \o Tail(q) \in Seq(S) /\ Len(a \o Tail(q)) = Len(a) + Len(Tail(q))
      /\ \A i \in 1 .. Len(a) + Len(Tail(q)) : (a \o Tail(q))[i] =
           IF i <= Len(a) THEN a[i] ELSE Tail(q)[i - Len(a)]
  BY <1>a, <1>h, ConcatProperties
<1>r. g \o q \in Seq(S) /\ Len(g \o q) = Len(g) + Len(q)
      /\ \A i \in 1 .. Len(g) + Len(q) : (g \o q)[i] =
           IF i <= Len(g) THEN g[i] ELSE q[i - Len(g)]
  BY ConcatProperties
<1>e. Len(a \o Tail(q)) = Len(g \o q)
  BY <1>a, <1>h, <1>n, <1>l, <1>r
<1>i. ASSUME NEW i \in 1 .. Len(a \o Tail(q)) PROVE (a \o Tail(q))[i] = (g \o q)[i]
  <2>1. i \in 1 .. Len(a) + Len(Tail(q)) /\ i \in 1 .. Len(g) + Len(q)
    BY <1>a, <1>h, <1>n, <1>l, <1>e, <1>r
  <2>2. CASE i <= Len(g) BY <2>1, <2>2, <1>a, <1>l, <1>r, <1>n
  <2>3. CASE i = Len(g) + 1 BY <2>1, <2>3, <1>a, <1>l, <1>r, <1>n
  <2>4. CASE i > Len(g) + 1
    <3>1. i - Len(a) \in 1 .. Len(Tail(q)) /\ i - Len(a) + 1 = i - Len(g) /\ ~(i <= Len(a)) /\ ~(i <= Len(g))
      BY <2>1, <2>4, <1>a, <1>h, <1>n
    <3> QED BY <3>1, <2>1, <1>h, <1>l, <1>r
  <2> QED BY <2>1, <2>2, <2>3, <2>4, <1>n
<1>s. a \o Tail(q) = g \o q
  BY <1>l, <1>r, <1>e, <1>i, SeqEqual
<1> QED BY <1>s DEF a

LEMMA SendAddsOne ==
  ASSUME NEW S, NEW g \in Seq(S), NEW q \in Seq(S), NEW e \in S
  PROVE  g \o Append(q, e) = Append(g \o q, e)
<1>1. Append(q, e) = q \o <<e>> /\ <<e>> \in Seq(S)
  BY AppendIsConcat
<1>2. g \o q \in Seq(S) /\ Append(g \o q, e) = (g \o q) \o <<e>>
  BY ConcatProperties, AppendIsConcat
<1> QED BY <1>1, <1>2, ConcatAssociative

LEMMA OneMore ==
  ASSUME NEW S, NEW q \in Seq(S), NEW f \in Nat, NEW n \in Nat, f <= n, n + 1 <= Len(q)
  PROVE  SubSeq(q, f + 1, n + 1) = Append(SubSeq(q, f + 1, n), q[n + 1])
<1>n. Len(q) \in Nat
  BY LenProperties
<1>1. f + 1 \in 1 .. Len(q) /\ n + 1 \in f + 1 .. Len(q) /\ (n + 1) - 1 = n /\ n + 1 \in 1 .. Len(q)
  BY <1>n
<1>2. SubSeq(q, f + 1, n + 1) = SubSeq(q, f + 1, n) \o <<q[n + 1]>>
  BY <1>1, SubSeqRecursiveSecond
<1>3. q[n + 1] \in S /\ \A i \in f + 1 .. n : q[i] \in S
  BY <1>1, <1>n, ElementOfSeq
<1>4. SubSeq(q, f + 1, n) \in Seq(S)
  BY <1>3, SubSeqProperties, f + 1 \in Int, n \in Int
<1> QED BY <1>2, <1>3, <1>4, AppendIsConcat

LEMMA SameBefore ==
  ASSUME NEW S, NEW q \in Seq(S), NEW e \in S, NEW f \in Nat
  PROVE  SubSeq(Append(q, e), f + 1, Len(q)) = SubSeq(q, f + 1, Len(q))
<1>n. Len(q) \in Nat /\ f + 1 \in Int
  BY LenProperties
<1>a. Append(q, e) \in Seq(S) /\ Len(Append(q, e)) = Len(q) + 1
      /\ \A i \in 1 .. Len(q) : Append(q, e)[i] = q[i]
  BY AppendProperties
<1>1. \A i \in f + 1 .. Len(q) : i \in 1 .. Len(q) /\ q[i] \in S
  BY <1>n, ElementOfSeq
<1>2. \A i \in f + 1 .. Len(q) : Append(q, e)[i] = q[i] /\ Append(q, e)[i] \in S
  BY <1>1, <1>a
<1> DEFINE l == SubSeq(Append(q, e), f + 1, Len(q))
           r == SubSeq(q, f + 1, Len(q))
<1>l. l \in Seq(S) /\ Len(l) = (IF f + 1 <= Len(q) THEN Len(q) - (f + 1) + 1 ELSE 0)
      /\ \A i \in 1 .. Len(q) - (f + 1) + 1 : l[i] = Append(q, e)[f + 1 + i - 1]
  BY <1>2, <1>n, SubSeqProperties
<1>r. r \in Seq(S) /\ Len(r) = (IF f + 1 <= Len(q) THEN Len(q) - (f + 1) + 1 ELSE 0)
      /\ \A i \in 1 .. Len(q) - (f + 1) + 1 : r[i] = q[f + 1 + i - 1]
  BY <1>1, <1>n, SubSeqProperties
<1> HIDE DEF l, r
<1>i. ASSUME NEW i \in 1 .. Len(l) PROVE l[i] = r[i]
  <2>1. i \in 1 .. Len(q) - (f + 1) + 1 /\ f + 1 + i - 1 \in f + 1 .. Len(q)
    BY <1>l, <1>n
  <2> QED BY <2>1, <1>l, <1>r, <1>2
<1>s. l = r
  BY <1>l, <1>r, <1>i, SeqEqual
<1> QED BY <1>s DEF l, r

LEMMA FrontOfSubSeq ==
  ASSUME NEW S, NEW q \in Seq(S), NEW f \in Nat, f < Len(q)
  PROVE  Front(SubSeq(q, f + 1, Len(q))) = SubSeq(q, f + 1, Len(q) - 1)
<1>n. Len(q) \in Nat
  BY LenProperties
<1>1. PICK n \in Nat : Len(q) = n + 1
  BY <1>n
<1>3. q[n + 1] \in S /\ \A i \in f + 1 .. n : q[i] \in S
  BY <1>1, <1>n, ElementOfSeq
<1> DEFINE r == SubSeq(q, f + 1, n)
<1>4. r \in Seq(S)
  BY <1>3, SubSeqProperties, f + 1 \in Int, n \in Int
<1>5. SubSeq(q, f + 1, n + 1) = Append(r, q[n + 1])
  BY <1>1, OneMore
<1> HIDE DEF r
<1>a. Append(r, q[n + 1]) \in Seq(S) /\ Len(Append(r, q[n + 1])) = Len(r) + 1
  BY <1>3, <1>4, AppendProperties
<1>l. Len(r) \in Nat
  BY <1>4, LenProperties
<1>6. SubSeq(Append(r, q[n + 1]), 0 + 1, Len(r)) = SubSeq(r, 0 + 1, Len(r))
  BY <1>3, <1>4, SameBefore
<1>7. Front(Append(r, q[n + 1])) = SubSeq(r, 1, Len(r))
  BY <1>6, <1>a, <1>l DEF Front
<1>8. Front(Append(r, q[n + 1])) = r
  BY <1>7, <1>4, SubSeqFull
<1>9. Len(q) - 1 = n
  BY <1>1
<1> QED BY <1>8, <1>9, <1>5, <1>1 DEF r

-----------------------------------------------------------------------------
(* Types.                                                                  *)
LEMMA Bounds ==
  /\ Complete \in Nat \ {0} /\ Buf \in Nat \ {0} /\ SubBuf \in Nat \ {0}
  /\ Events \subseteq Nat \ {0} /\ Complete \in Events
  /\ Error \in Signals /\ Complete \in Signals /\ Signals \subseteq Events \cup {Error}
BY EventsAssumption, BufAssumption DEF Events, Error, Signals

LEMMA PutEvent ==
  ASSUME NEW S, NEW q \in Seq(S), NEW e \in S
  PROVE  Append(q, e) \in Seq(S) /\ Len(Append(q, e)) = Len(q) + 1
BY AppendProperties

LEMMA TakeEvent ==
  ASSUME NEW S, NEW q \in Seq(S), q # <<>>
  PROVE  /\ Head(q) \in S /\ Tail(q) \in Seq(S)
         /\ Len(q) \in Nat \ {0} /\ Len(Tail(q)) = Len(q) - 1
BY HeadTailProperties, EmptySeq

LEMMA ReplaceFits ==
  ASSUME NEW S, NEW q \in Seq(S), NEW e \in S, NEW n \in Nat \ {0}, Len(q) <= n
  PROVE  Replace(q, e) \in Seq(S) /\ Len(Replace(q, e)) <= n
<1>1. CASE q = <<>>
  <2>1. Replace(q, e) = Append(q, e) /\ Len(q) = 0
    BY <1>1, EmptySeq DEF Replace
  <2> QED BY <2>1, PutEvent
<1>2. CASE q # <<>>
  <2>1. Replace(q, e) = Append(Tail(q), e)
    BY <1>2 DEF Replace
  <2>2. Tail(q) \in Seq(S) /\ Len(q) \in Nat \ {0} /\ Len(Tail(q)) = Len(q) - 1
    BY <1>2, TakeEvent
  <2> QED BY <2>1, <2>2, PutEvent
<1> QED BY <1>1, <1>2

(* A step changes the subscription of one client ...                       *)
LEMMA SubChanges ==
  ASSUME sub \in [Subs -> Sub], \A u \in Subs : Len(sub[u].queue) <= SubBuf,
         NEW s \in Subs, NEW v \in Sub, Len(v.queue) <= SubBuf, sub' = [sub EXCEPT ![s] = v]
  PROVE  /\ sub' \in [Subs -> Sub]
         /\ \A u \in Subs : Len(sub'[u].queue) <= SubBuf
         /\ sub'[s] = v
         /\ \A u \in Subs \ {s} : sub'[u] = sub[u]
<1>1. /\ sub' \in [Subs -> Sub] /\ sub'[s] = v
      /\ \A u \in Subs \ {s} : sub'[u] = sub[u]
  BY Zenon
<1> QED BY <1>1

LEMMA SubType ==
  ASSUME TypeOK, NEW s \in Subs
  PROVE  /\ sub[s] \in Sub
         /\ sub[s].pc \in {"idle", "checked", "streaming", "leaving", "left"}
         /\ sub[s].reg \in BOOLEAN /\ sub[s].joined \in BOOLEAN
         /\ sub[s].once \in {"open", "closing", "closed"}
         /\ sub[s].overflowed \in BOOLEAN /\ sub[s].signal \in Signals
         /\ sub[s].queue \in Seq(Events \cup {Error}) /\ sub[s].got \in Seq(Events \cup {Error})
         /\ sub[s].from \in Nat /\ Len(sub[s].queue) <= SubBuf
<1>1. sub[s] \in Sub /\ Len(sub[s].queue) <= SubBuf
  BY DEF TypeOK
<1> QED BY <1>1 DEF Sub

LEMMA RelayType ==
  ASSUME TypeOK
  PROVE  /\ relay \in Relay /\ relay.targets \subseteq Subs
         /\ relay.pc \in {"receive", "sending", "overflow", "cut", "closing", "done"}
         /\ relay.event \in Events \cup {Error} /\ relay.closed \in BOOLEAN
         /\ relay.cur \in Subs \cup {NoSub}
BY DEF TypeOK, Relay

LEMMA TypeRunner ==
  ASSUME TypeOK, RunEnds \/ \E n \in Events : Emit(n)
  PROVE  TypeOK'
<1>1. CASE RunEnds
  BY <1>1 DEF TypeOK, RunEnds
<1>2. ASSUME NEW n \in Events, Emit(n) PROVE TypeOK'
  <2>1. /\ emitted' = n /\ input' = (IF Len(input) < Buf THEN Append(input, n) ELSE input)
        /\ UNCHANGED <<run, sent, relay, sub, crashed>>
    BY <1>2 DEF Emit
  <2>2. input \in Seq(Events) /\ Len(input) <= Buf /\ Len(input) \in Nat
    BY LenProperties DEF TypeOK
  <2>3. Append(input, n) \in Seq(Events) /\ Len(Append(input, n)) = Len(input) + 1
    BY <2>2, PutEvent
  <2>4. input' \in Seq(Events) /\ Len(input') <= Buf
    <3>1. CASE Len(input) < Buf
      <4>1. input' = Append(input, n) BY <3>1, <2>1
      <4> QED BY <4>1, <3>1, <2>2, <2>3, Bounds
    <3>2. CASE ~(Len(input) < Buf)
      <4>1. input' = input BY <3>2, <2>1
      <4> QED BY <4>1, <2>2
    <3> QED BY <3>1, <3>2
  <2>5. emitted' \in 0 .. Complete
    BY <2>1, Bounds DEF Events
  <2> QED BY <2>1, <2>4, <2>5 DEF TypeOK
<1> QED BY <1>1, <1>2

LEMMA TypeRelay ==
  ASSUME TypeOK, RelayAt, RelayStep
  PROVE  TypeOK'
<1> USE SubType, RelayType, Bounds
<1>1. CASE Broadcast
  <2>1. /\ input # <<>> /\ input' = Tail(input) /\ sent' = Append(sent, Head(input))
        /\ relay' = [relay EXCEPT !.pc = "sending", !.event = Head(input), !.targets = Registered]
        /\ UNCHANGED <<run, emitted, sub, crashed>>
    BY <1>1 DEF Broadcast
  <2>2. input \in Seq(Events) /\ Len(input) <= Buf /\ sent \in Seq(Events)
    BY DEF TypeOK
  <2>3. Head(input) \in Events /\ Tail(input) \in Seq(Events) /\ Len(Tail(input)) <= Buf
    BY <2>1, <2>2, TakeEvent
  <2>4. sent' \in Seq(Events)
    BY <2>1, <2>2, <2>3, PutEvent
  <2>5. relay' \in Relay
    BY <2>1, <2>3 DEF Relay, Registered
  <2> QED BY <2>1, <2>3, <2>4, <2>5 DEF TypeOK
<1>2. CASE BroadcastEnds \/ RelayEnds
  <2>1. relay' \in Relay
    BY <1>2 DEF BroadcastEnds, RelayEnds, Relay
  <2> QED BY <1>2, <2>1 DEF TypeOK, BroadcastEnds, RelayEnds
<1>3. ASSUME NEW s \in Subs, TrySend(s) PROVE TypeOK'
  <2>1. UNCHANGED <<run, emitted, input, sent, crashed>>
    BY <1>3 DEF TrySend
  <2>2. CASE sub[s].once = "open" /\ ~Full(s)
    <3> DEFINE q == Append(sub[s].queue, relay.event)
               v == [sub[s] EXCEPT !.queue = q]
    <3>1. sub' = [sub EXCEPT ![s].queue = q] /\ relay' = [relay EXCEPT !.targets = @ \ {s}]
      BY <1>3, <2>2 DEF TrySend
    <3>2. q \in Seq(Events \cup {Error}) /\ Len(q) = Len(sub[s].queue) + 1
      BY PutEvent
    <3>3. Len(sub[s].queue) # SubBuf /\ Len(sub[s].queue) <= SubBuf /\ Len(sub[s].queue) \in Nat
      BY <2>2, LenProperties DEF Full
    <3>4. Len(q) <= SubBuf
      BY <3>2, <3>3
    <3> HIDE DEF q
    <3>5. v \in Sub /\ v.queue = q
      BY <3>2, ZenonT(40) DEF Sub
    <3>6. sub' = [sub EXCEPT ![s] = v] /\ sub \in [Subs -> Sub]
      BY <3>1 DEF TypeOK
    <3> HIDE DEF v
    <3>7. sub' \in [Subs -> Sub] /\ \A u \in Subs : Len(sub'[u].queue) <= SubBuf
      BY <3>4, <3>5, <3>6, SubChanges
    <3>8. relay' \in Relay
      BY <3>1 DEF Relay
    <3> QED BY <2>1, <3>7, <3>8 DEF TypeOK
  <2>3. CASE ~(sub[s].once = "open" /\ ~Full(s))
    <3>1. sub' = sub /\ relay' = [relay EXCEPT !.targets = @ \ {s}, !.pc = "overflow", !.cur = s]
      BY <1>3, <2>3 DEF TrySend
    <3>2. relay' \in Relay
      BY <3>1 DEF Relay
    <3> QED BY <2>1, <3>1, <3>2 DEF TypeOK
  <2> QED BY <2>2, <2>3
<1>4. CASE MarkOverflow
  <2> DEFINE s == relay.cur
             sig == OverflowSignalForEvent(relay.event)
             q == Replace(sub[s].queue, sig)
             v == [sub[s] EXCEPT !.overflowed = TRUE, !.signal = sig, !.queue = q]
  <2>1. UNCHANGED <<run, emitted, input, sent>> /\ s \in Subs /\ sig \in Signals
    BY <1>4 DEF MarkOverflow, RelayAt, OverflowSignalForEvent
  <2>2. CASE sub[s].once = "open"
    <3>1. /\ sub' = [sub EXCEPT ![s].overflowed = TRUE, ![s].signal = sig, ![s].queue = q]
          /\ relay' = [relay EXCEPT !.pc = "cut"] /\ crashed' = crashed
      BY <1>4, <2>2 DEF MarkOverflow, Replace
    <3> HIDE DEF s, sig
    <3>2. sig \in Events \cup {Error}
      BY <2>1
    <3>3. sub[s].queue \in Seq(Events \cup {Error}) /\ Len(sub[s].queue) <= SubBuf
      BY <2>1
    <3>4. q \in Seq(Events \cup {Error}) /\ Len(q) <= SubBuf
      BY <3>2, <3>3, ReplaceFits
    <3> HIDE DEF q
    <3>5. v \in Sub /\ v.queue = q
      BY <2>1, <3>4, ZenonT(40) DEF Sub
    <3>6. sub' = [sub EXCEPT ![s] = v] /\ sub \in [Subs -> Sub]
      BY <3>1 DEF TypeOK
    <3> HIDE DEF v
    <3>7. sub' \in [Subs -> Sub] /\ \A u \in Subs : Len(sub'[u].queue) <= SubBuf
      BY <2>1, <3>4, <3>5, <3>6, SubChanges DEF TypeOK
    <3>8. relay' \in Relay
      BY <3>1 DEF Relay
    <3> QED BY <2>1, <3>1, <3>7, <3>8 DEF TypeOK
  <2>3. CASE sub[s].once # "open"
    <3>1. crashed' = TRUE /\ UNCHANGED <<sub, relay>>
      BY <1>4, <2>3 DEF MarkOverflow
    <3> QED BY <2>1, <3>1 DEF TypeOK
  <2> QED BY <2>2, <2>3
<1>c. ASSUME NEW s \in Subs, RelayCloses(s)
      PROVE  sub' \in [Subs -> Sub] /\ \A u \in Subs : Len(sub'[u].queue) <= SubBuf
  <2> DEFINE v == [sub[s] EXCEPT !.once = "closed", !.reg = FALSE]
  <2>1. sub' = [sub EXCEPT ![s] = v] /\ sub \in [Subs -> Sub]
    BY <1>c DEF TypeOK, RelayCloses
  <2>2. v \in Sub /\ v.queue = sub[s].queue
    BY ZenonT(40) DEF Sub
  <2> HIDE DEF v
  <2> QED BY <2>1, <2>2, SubChanges DEF TypeOK
<1>5. CASE CutOff
  <2>1. relay.cur \in Subs
    BY <1>5 DEF CutOff, RelayAt
  <2>2. sub' \in [Subs -> Sub] /\ \A u \in Subs : Len(sub'[u].queue) <= SubBuf
    BY <1>5, <2>1, <1>c DEF CutOff
  <2>3. relay' \in Relay
    BY <1>5 DEF CutOff, Relay
  <2> QED BY <1>5, <2>2, <2>3 DEF CutOff, TypeOK
<1>6. CASE CloseAll
  <2>1. sub' = [s \in Subs |-> [sub[s] EXCEPT !.reg = FALSE]]
    BY <1>6 DEF CloseAll
  <2>2. \A s \in Subs : [sub[s] EXCEPT !.reg = FALSE] \in Sub
    BY ZenonT(40) DEF Sub
  <2>3. \A s \in Subs : sub'[s].queue = sub[s].queue
    BY <2>1 DEF Sub
  <2>4. sub' \in [Subs -> Sub]
    BY <2>1, <2>2
  <2>5. relay' \in Relay
    BY <1>6 DEF CloseAll, Relay, Registered
  <2> QED BY <1>6, <2>3, <2>4, <2>5 DEF CloseAll, TypeOK
<1>7. ASSUME NEW s \in Subs, CloseNext(s) PROVE TypeOK'
  <2>1. sub' \in [Subs -> Sub] /\ \A u \in Subs : Len(sub'[u].queue) <= SubBuf
    BY <1>7, <1>c DEF CloseNext
  <2>2. relay' \in Relay
    BY <1>7 DEF CloseNext, Relay
  <2> QED BY <1>7, <2>1, <2>2 DEF CloseNext, TypeOK
<1> QED BY <1>1, <1>2, <1>3, <1>4, <1>5, <1>6, <1>7 DEF RelayStep

LEMMA TypeHandler ==
  ASSUME TypeOK, NEW s \in Subs, HandlerStep(s) \/ Disconnects(s)
  PROVE  /\ TypeOK' /\ UNCHANGED <<run, emitted, input, sent, relay, crashed>>
         /\ \A u \in Subs \ {s} : sub'[u] = sub[u]
<1> USE SubType, Bounds
<1>0. UNCHANGED <<run, emitted, input, sent, relay, crashed>>
  BY DEF HandlerStep, Opens, Subscribe, Reads, StreamEnds, Unsubscribes, Disconnects
<1>1. ASSUME NEW v \in Sub, Len(v.queue) <= SubBuf, sub' = [sub EXCEPT ![s] = v]
      PROVE  TypeOK' /\ \A u \in Subs \ {s} : sub'[u] = sub[u]
  <2>1. /\ sub' \in [Subs -> Sub] /\ \A u \in Subs : Len(sub'[u].queue) <= SubBuf
        /\ \A u \in Subs \ {s} : sub'[u] = sub[u]
    BY <1>1, SubChanges DEF TypeOK
  <2> QED BY <1>0, <2>1 DEF TypeOK
<1>2. CASE Opens(s)
  <2> DEFINE v == [sub[s] EXCEPT !.pc = "checked"]
             w == [sub[s] EXCEPT !.pc = "left", !.once = "closed"]
  <2>1. v \in Sub /\ v.queue = sub[s].queue /\ w \in Sub /\ w.queue = sub[s].queue
    BY DEF Sub
  <2>2. sub' = [sub EXCEPT ![s] = v] \/ sub' = [sub EXCEPT ![s] = w]
    BY <1>2 DEF Opens, TypeOK
  <2> QED BY <1>0, <1>1, <2>1, <2>2
<1>3. CASE Subscribe(s)
  <2>0. Len(sent) \in Nat
    BY LenProperties DEF TypeOK
  <2> DEFINE v == [sub[s] EXCEPT !.pc = "streaming", !.reg = TRUE, !.joined = TRUE, !.from = Len(sent)]
             w == [sub[s] EXCEPT !.pc = "left", !.once = "closed"]
  <2>1. v \in Sub /\ v.queue = sub[s].queue /\ w \in Sub /\ w.queue = sub[s].queue
    BY <2>0 DEF Sub
  <2>2. sub' = [sub EXCEPT ![s] = v] \/ sub' = [sub EXCEPT ![s] = w]
    BY <1>3 DEF Subscribe, TypeOK
  <2> QED BY <1>0, <1>1, <2>1, <2>2
<1>4. CASE Reads(s)
  <2> DEFINE q == Tail(sub[s].queue)
             g == Append(sub[s].got, Head(sub[s].queue))
             v == [sub[s] EXCEPT !.queue = q, !.got = g]
  <2>1. sub' = [sub EXCEPT ![s] = v] /\ sub[s].queue # <<>>
    BY <1>4 DEF Reads, TypeOK
  <2>2. /\ q \in Seq(Events \cup {Error}) /\ Head(sub[s].queue) \in Events \cup {Error}
        /\ Len(q) <= SubBuf
    BY <2>1, TakeEvent
  <2>3. g \in Seq(Events \cup {Error})
    BY <2>2, PutEvent
  <2> HIDE DEF q, g
  <2>4. v \in Sub /\ v.queue = q
    BY <2>2, <2>3 DEF Sub
  <2> HIDE DEF v
  <2> QED BY <1>1, <2>1, <2>2, <2>4, <1>0
<1>5. CASE StreamEnds(s)
  <2> DEFINE g == IF sub[s].overflowed THEN Append(sub[s].got, sub[s].signal) ELSE sub[s].got
             v == [sub[s] EXCEPT !.pc = "left", !.got = g]
  <2>1. sub' = [sub EXCEPT ![s] = v]
    BY <1>5 DEF StreamEnds, TypeOK
  <2>2. sub[s].signal \in Events \cup {Error}
    OBVIOUS
  <2>3. g \in Seq(Events \cup {Error})
    BY <2>2, PutEvent
  <2> HIDE DEF g
  <2>4. v \in Sub /\ v.queue = sub[s].queue
    BY <2>3 DEF Sub
  <2> HIDE DEF v
  <2> QED BY <1>1, <2>1, <2>4, <1>0
<1>6. CASE Unsubscribes(s)
  <2> DEFINE v == [sub[s] EXCEPT !.pc = "left", !.once = "closed", !.reg = FALSE]
  <2>1. sub' = [sub EXCEPT ![s] = v] /\ v \in Sub /\ v.queue = sub[s].queue
    BY <1>6, ZenonT(40) DEF Unsubscribes, TypeOK, Sub
  <2> QED BY <1>1, <2>1, <1>0
<1>7. CASE Disconnects(s)
  <2> DEFINE p == IF sub[s].once = "open" THEN "leaving" ELSE "left"
             o == IF sub[s].once = "open" THEN "closing" ELSE sub[s].once
             v == [sub[s] EXCEPT !.quit = TRUE, !.pc = p, !.once = o]
  <2>1. sub' = [sub EXCEPT ![s] = v]
    BY <1>7 DEF Disconnects, TypeOK
  <2>2. p \in {"leaving", "left"} /\ o \in {"open", "closing", "closed"}
    OBVIOUS
  <2> HIDE DEF p, o
  <2>3. v \in Sub /\ v.queue = sub[s].queue
    BY <2>2 DEF Sub
  <2> HIDE DEF v
  <2> QED BY <1>1, <2>1, <2>3, <1>0
<1> QED BY <1>0, <1>2, <1>3, <1>4, <1>5, <1>6, <1>7 DEF HandlerStep

-----------------------------------------------------------------------------
(* The order of the events.                                                *)
LEMMA OrderStep ==
  ASSUME TypeOK, InNumberOrder, Next
  PROVE  InNumberOrder'
<1>t. /\ input \in Seq(Events) /\ sent \in Seq(Events)
      /\ Len(input) \in Nat /\ Len(sent) \in Nat /\ emitted \in Nat
      /\ \A i \in 1 .. Len(sent) : sent[i] \in Nat
      /\ \A i \in 1 .. Len(input) : input[i] \in Nat
  <2>1. input \in Seq(Events) /\ sent \in Seq(Events) /\ emitted \in 0 .. Complete
    BY DEF TypeOK
  <2>2. /\ \A i \in 1 .. Len(sent) : sent[i] \in Events
        /\ \A i \in 1 .. Len(input) : input[i] \in Events
    BY <2>1, ElementOfSeq
  <2>3. Len(input) \in Nat /\ Len(sent) \in Nat
    BY <2>1, LenProperties
  <2>4. Events \subseteq Nat /\ 0 .. Complete \subseteq Nat
    BY Bounds
  <2> QED BY <2>1, <2>2, <2>3, <2>4
<1>1. ASSUME NEW n \in Events, Emit(n) PROVE InNumberOrder'
  <2>1. /\ emitted' = n /\ input' = (IF Len(input) < Buf THEN Append(input, n) ELSE input)
        /\ sent' = sent /\ emitted < n /\ n \in Nat
    BY <1>1, Bounds DEF Emit
  <2>2. \A i \in 1 .. Len(sent) : sent[i] < n
    BY <1>t, <2>1 DEF InNumberOrder
  <2>3. \A i \in 1 .. Len(input) : input[i] < n
    BY <1>t, <2>1 DEF InNumberOrder
  <2>4. CASE Len(input) < Buf
    <3>1. /\ input' = Append(input, n) /\ Len(input') = Len(input) + 1
          /\ \A i \in 1 .. Len(input) : input'[i] = input[i]
          /\ input'[Len(input) + 1] = n
      BY <2>1, <2>4, <1>t, AppendProperties
    <3>2. \A i \in 1 .. Len(input') : i \in 1 .. Len(input) \/ i = Len(input) + 1
      BY <3>1, <1>t
    <3>3. \A i, j \in 1 .. Len(input') : i < j => input'[i] < input'[j]
      BY <3>1, <3>2, <1>t, <2>3 DEF InNumberOrder
    <3>4. \A i \in 1 .. Len(sent), j \in 1 .. Len(input') : sent[i] < input'[j]
      BY <3>1, <3>2, <2>2 DEF InNumberOrder
    <3>5. \A i \in 1 .. Len(input') : input'[i] <= n
      BY <3>1, <3>2, <2>3, <2>1, <1>t
    <3>6. \A i \in 1 .. Len(sent) : sent[i] <= n
      BY <2>2, <2>1, <1>t
    <3> QED BY <3>3, <3>4, <3>5, <3>6, <2>1 DEF InNumberOrder
  <2>5. CASE ~(Len(input) < Buf)
    <3>1. input' = input
      BY <2>1, <2>5
    <3>2. /\ \A i \in 1 .. Len(sent) : sent[i] <= n
          /\ \A i \in 1 .. Len(input) : input[i] <= n
      BY <2>2, <2>3, <2>1, <1>t
    <3> QED BY <3>1, <3>2, <2>1 DEF InNumberOrder
  <2> QED BY <2>4, <2>5
<1>2. CASE Broadcast
  <2>1. /\ input # <<>> /\ input' = Tail(input) /\ sent' = Append(sent, Head(input))
        /\ emitted' = emitted
    BY <1>2 DEF Broadcast
  <2>2. /\ Head(input) \in Events /\ Len(input) \in Nat \ {0} /\ Len(input') = Len(input) - 1
        /\ \A i \in 1 .. Len(input') : input'[i] = input[i + 1]
        /\ Head(input) = input[1]
    BY <2>1, <1>t, HeadTailProperties, EmptySeq
  <2>3. /\ Len(sent') = Len(sent) + 1
        /\ \A i \in 1 .. Len(sent) : sent'[i] = sent[i]
        /\ sent'[Len(sent) + 1] = input[1]
    BY <2>1, <2>2, <1>t, AppendProperties
  <2>4. \A i \in 1 .. Len(sent') : i \in 1 .. Len(sent) \/ i = Len(sent) + 1
    BY <2>3, <1>t
  <2>5. 1 \in 1 .. Len(input) /\ \A i \in 1 .. Len(input') : i + 1 \in 1 .. Len(input) /\ 1 < i + 1
    BY <2>2
  <2>6. \A i, j \in 1 .. Len(sent') : i < j => sent'[i] < sent'[j]
    BY <2>3, <2>4, <2>5, <1>t, SMTT(20) DEF InNumberOrder
  <2>7. \A i, j \in 1 .. Len(input') : i < j => input'[i] < input'[j]
    <3> TAKE i, j \in 1 .. Len(input')
    <3>1. i < j => i + 1 < j + 1
      BY <2>2
    <3> QED BY <3>1, <2>2, <2>5 DEF InNumberOrder
  <2>8. \A i \in 1 .. Len(sent'), j \in 1 .. Len(input') : sent'[i] < input'[j]
    BY <2>2, <2>3, <2>4, <2>5, SMTT(20) DEF InNumberOrder
  <2>9. \A i \in 1 .. Len(sent') : sent'[i] <= emitted
    BY <2>3, <2>4, <2>5 DEF InNumberOrder
  <2>10. \A i \in 1 .. Len(input') : input'[i] <= emitted
    BY <2>2, <2>5 DEF InNumberOrder
  <2> QED BY <2>1, <2>6, <2>7, <2>8, <2>9, <2>10 DEF InNumberOrder
<1>3. CASE UNCHANGED <<emitted, input, sent>>
  BY <1>3 DEF InNumberOrder
<1> QED
  BY <1>1, <1>2, <1>3
  DEF Next, RunEnds, RelayStep, BroadcastEnds, MarkOverflow, CutOff, CloseAll, RelayEnds, TrySend,
      CloseNext, HandlerStep, Opens, Subscribe, Reads, StreamEnds, Unsubscribes, Disconnects

(* The last event is the last one that is ever relayed.                    *)
LEMMA CompleteIsLast ==
  ASSUME TypeOK, InNumberOrder, NEW s \in Subs, Contains(Due(s), Complete)
  PROVE  Due(s) # <<>> /\ Last(Due(s)) = Complete
<1>t. sent \in Seq(Events) /\ Len(sent) \in Nat /\ \A i \in 1 .. Len(sent) : sent[i] \in Events
  BY LenProperties, ElementOfSeq DEF TypeOK
<1>f. sub[s].from \in Nat /\ sub[s].from + 1 \in Nat
  BY SubType
<1> DEFINE f == sub[s].from
<1> HIDE DEF f
<1>1. /\ Due(s) \in Seq(Events)
      /\ Len(Due(s)) = IF f + 1 <= Len(sent) THEN Len(sent) - (f + 1) + 1 ELSE 0
      /\ \A i \in 1 .. Len(sent) - (f + 1) + 1 : Due(s)[i] = sent[f + 1 + i - 1]
  <2>1. \A i \in f + 1 .. Len(sent) : sent[i] \in Events
    BY <1>t, <1>f DEF f
  <2>2. f + 1 \in Int /\ Len(sent) \in Int
    BY <1>t, <1>f DEF f
  <2>3. Due(s) = SubSeq(sent, f + 1, Len(sent))
    BY DEF Due, f
  <2> QED BY <2>1, <2>2, <2>3, SubSeqProperties
<1>2. f \in Nat
  BY <1>f DEF f
<1>3. PICK i \in 1 .. Len(Due(s)) : Due(s)[i] = Complete
  BY DEF Contains
<1>4. /\ f + 1 <= Len(sent) /\ Len(Due(s)) = Len(sent) - f /\ Len(Due(s)) # 0
      /\ f + i \in 1 .. Len(sent) /\ f + 1 + i - 1 = f + i
      /\ i \in 1 .. Len(sent) - (f + 1) + 1
      /\ Len(Due(s)) \in 1 .. Len(sent) - (f + 1) + 1 /\ f + 1 + Len(Due(s)) - 1 = Len(sent)
      /\ Len(sent) \in 1 .. Len(sent)
  <2> DEFINE n == Len(sent)
             d == Len(Due(s))
  <2>1. n \in Nat /\ f \in Nat /\ i \in 1 .. d /\ d = IF f + 1 <= n THEN n - (f + 1) + 1 ELSE 0
    BY <1>1, <1>2, <1>3, <1>t
  <2> HIDE DEF n, d
  <2>2. f + 1 <= n /\ d = n - f
    BY <2>1
  <2>3. /\ d # 0 /\ f + i \in 1 .. n /\ f + 1 + i - 1 = f + i
        /\ i \in 1 .. n - (f + 1) + 1
        /\ d \in 1 .. n - (f + 1) + 1 /\ f + 1 + d - 1 = n
        /\ n \in 1 .. n
    BY <2>1, <2>2
  <2> QED BY <2>2, <2>3 DEF n, d
<1>5. sent[f + i] = Complete /\ Due(s)[Len(Due(s))] = sent[Len(sent)]
  BY <1>1, <1>3, <1>4
<1>6. f + i = Len(sent)
  <2>1. sent[Len(sent)] <= Complete /\ Complete \in Nat /\ sent[Len(sent)] \in Nat
    BY <1>t, <1>4, Bounds DEF Events
  <2>2. f + i < Len(sent) => sent[f + i] < sent[Len(sent)]
    BY <1>4 DEF InNumberOrder
  <2>3. ~(f + i < Len(sent))
    BY <2>1, <2>2, <1>5
  <2> QED BY <2>3, <1>4, <1>2, <1>t
<1>7. Due(s) # <<>>
  BY <1>4, EmptySeq
<1> QED BY <1>5, <1>6, <1>7 DEF Last

-----------------------------------------------------------------------------
(* The relay.                                                              *)
LEMMA RelayAtStep ==
  ASSUME TypeOK, RelayAt, Next
  PROVE  RelayAt'
<1> USE RelayType
<1>1. ASSUME UNCHANGED <<sent, relay>>, \A u \in Subs : sub[u].overflowed => sub'[u].overflowed
      PROVE  RelayAt'
  BY <1>1 DEF RelayAt
<1>2. ASSUME NEW s \in Subs, HandlerStep(s) \/ Disconnects(s) PROVE RelayAt'
  <2>1. UNCHANGED <<sent, relay>> /\ \A u \in Subs \ {s} : sub'[u] = sub[u]
    BY <1>2, TypeHandler
  <2>2. sub[s].overflowed => sub'[s].overflowed
    <3>1. sub \in [Subs -> Sub] /\ sub[s] \in Sub
      BY DEF TypeOK
    <3> HIDE DEF Sub
    <3>2. sub' \in [Subs -> Sub] /\ sub'[s].overflowed = sub[s].overflowed
      <4>1. TypeOK'
        BY <1>2, TypeHandler
      <4>2. sub'[s].overflowed = sub[s].overflowed
        BY <1>2, <3>1 DEF HandlerStep, Opens, Subscribe, Reads, StreamEnds, Unsubscribes, Disconnects, Sub
      <4> QED BY <4>1, <4>2 DEF TypeOK
    <3> QED BY <3>2
  <2> QED BY <1>1, <2>1, <2>2
<1>3. CASE RunEnds \/ \E n \in Events : Emit(n)
  BY <1>3, <1>1 DEF RunEnds, Emit
<1>4. CASE Broadcast
  <2>1. /\ relay' = [relay EXCEPT !.pc = "sending", !.event = Head(input), !.targets = Registered]
        /\ sent' = Append(sent, Head(input)) /\ input # <<>> /\ relay.pc = "receive"
    BY <1>4 DEF Broadcast
  <2>2. sent \in Seq(Events) /\ Head(input) \in Events /\ Len(sent) \in Nat
    BY <2>1, TakeEvent, LenProperties DEF TypeOK
  <2>3. sent' # <<>> /\ sent'[Len(sent')] = Head(input)
    BY <2>1, <2>2, AppendProperties
  <2>4. /\ relay'.pc = "sending" /\ relay'.event = Head(input) /\ relay'.closed = relay.closed
    BY <2>1 DEF Relay
  <2> QED BY <2>1, <2>3, <2>4 DEF RelayAt, Busy, Closing
<1>5. CASE BroadcastEnds \/ RelayEnds
  <2>1. /\ sent' = sent /\ sub' = sub /\ relay.targets = {} /\ relay'.targets = relay.targets
        /\ relay'.closed = relay.closed
        /\ \/ relay.pc = "sending" /\ relay'.pc = "receive"
           \/ relay.pc = "closing" /\ relay'.pc = "done"
    BY <1>5 DEF BroadcastEnds, RelayEnds, Relay
  <2> QED BY <2>1 DEF RelayAt, Busy, Closing
<1>6. ASSUME NEW s \in Subs, TrySend(s) PROVE RelayAt'
  <2>1. /\ sent' = sent /\ relay.pc = "sending" /\ relay'.targets = relay.targets \ {s}
        /\ relay'.closed = relay.closed /\ relay'.event = relay.event
        /\ relay'.pc = "sending" \/ (relay'.pc = "overflow" /\ relay'.cur = s)
    BY <1>6 DEF TrySend, Relay
  <2> QED BY <2>1 DEF RelayAt, Busy, Closing
<1>7. CASE MarkOverflow
  <2>1. CASE sub[relay.cur].once = "open"
    <3>1. /\ sent' = sent /\ relay.pc = "overflow" /\ relay' = [relay EXCEPT !.pc = "cut"]
          /\ sub' = [sub EXCEPT ![relay.cur].overflowed = TRUE,
                       ![relay.cur].signal = OverflowSignalForEvent(relay.event),
                       ![relay.cur].queue = Replace(@, OverflowSignalForEvent(relay.event))]
      BY <1>7, <2>1 DEF MarkOverflow
    <3>2. /\ relay'.pc = "cut" /\ relay'.closed = relay.closed /\ relay'.event = relay.event
          /\ relay'.cur = relay.cur /\ relay'.targets = relay.targets
      BY <3>1 DEF Relay
    <3>3. relay.cur \in Subs /\ sub[relay.cur] \in Sub /\ sub \in [Subs -> Sub]
      BY <3>1 DEF RelayAt, TypeOK
    <3>4. sub'[relay.cur].overflowed
      BY <3>1, <3>3 DEF Sub
    <3> QED BY <3>1, <3>2, <3>4 DEF RelayAt, Busy, Closing
  <2>2. CASE sub[relay.cur].once # "open"
    BY <1>7, <2>2 DEF MarkOverflow, RelayAt
  <2> QED BY <2>1, <2>2
<1>8. CASE CutOff
  <2>1. /\ sent' = sent /\ relay.pc = "cut" /\ relay'.pc = "sending" /\ relay'.closed = relay.closed
        /\ relay'.event = relay.event
    BY <1>8 DEF CutOff, Relay
  <2> QED BY <2>1 DEF RelayAt, Busy, Closing
<1>9. CASE CloseAll
  <2>1. relay'.pc = "closing" /\ relay'.closed /\ sent' = sent
    BY <1>9 DEF CloseAll, Relay
  <2> QED BY <2>1 DEF RelayAt, Busy, Closing
<1>10. ASSUME NEW s \in Subs, CloseNext(s) PROVE RelayAt'
  <2>1. relay'.pc = "closing" /\ relay.pc = "closing" /\ relay'.closed = relay.closed /\ sent' = sent
    BY <1>10 DEF CloseNext, Relay
  <2> QED BY <2>1 DEF RelayAt, Busy, Closing
<1> QED BY <1>2, <1>3, <1>4, <1>5, <1>6, <1>7, <1>8, <1>9, <1>10 DEF Next, RelayStep

-----------------------------------------------------------------------------
(* The clients.                                                            *)

(* A step keeps what holds of a client whose subscription it leaves alone, *)
(* if it does not change how the relay stands to it.                       *)
LEMMA ClientFrame ==
  ASSUME NEW u \in Subs, Client(u), sub'[u] = sub[u], sent' = sent,
         relay'.closed = relay.closed, InFlight(u)' = InFlight(u),
         ToBeClosed(u)' = ToBeClosed(u)
  PROVE  Client(u)'
<1>1. /\ Given(u)' = Given(u) /\ Due(u)' = Due(u) /\ Relayed(u)' = Relayed(u)
  BY DEF Given, Due, Relayed
<1>2. Joining(u)'
  BY DEF Client, Joining
<1>3. Known(u)'
  BY DEF Client, Known
<1>4. UpToDate(u)'
  BY <1>1 DEF Client, UpToDate
<1>5. Explained(u)'
  BY <1>1 DEF Client, Explained
<1> QED BY <1>2, <1>3, <1>4, <1>5 DEF Client

LEMMA BroadcastKeepsClients ==
  ASSUME IInv, Broadcast, NEW u \in Subs
  PROVE  Client(u)'
<1> USE SubType, RelayType
<1>1. /\ relay' = [relay EXCEPT !.pc = "sending", !.event = Head(input), !.targets = Registered]
      /\ sent' = Append(sent, Head(input)) /\ input # <<>> /\ relay.pc = "receive" /\ sub' = sub
  BY DEF Broadcast
<1>2. /\ relay'.pc = "sending" /\ relay'.closed = relay.closed /\ relay'.targets = Registered
      /\ ~relay.closed
  BY <1>1 DEF Relay, IInv, RelayAt, Closing, TypeOK
<1>3. /\ ~InFlight(u) /\ (InFlight(u)' <=> sub[u].reg)
      /\ ~ToBeClosed(u) /\ ~ToBeClosed(u)'
  BY <1>1, <1>2 DEF InFlight, Registered, ToBeClosed
<1>4. TypeOK /\ Client(u)
  BY DEF IInv
<1>5. Joining(u)'
  BY <1>1, <1>3, <1>4 DEF Client, Joining
<1>6. Known(u)'
  BY <1>1, <1>2, <1>3, <1>4 DEF Client, Known
<1>7. UpToDate(u)'
  <2> SUFFICES ASSUME sub[u].pc = "streaming", ~sub[u].overflowed
               PROVE  sub[u].from <= Relayed(u)' /\ Given(u)' = SubSeq(sent', sub[u].from + 1, Relayed(u)')
    BY <1>1 DEF UpToDate
  <2>1. sub[u].reg
    BY <1>2, <1>4 DEF Client, Known
  <2>2. sent \in Seq(Events) /\ Head(input) \in Events /\ Len(sent) \in Nat
    BY <1>1, <1>4, TakeEvent, LenProperties DEF TypeOK
  <2>3. Len(sent') = Len(sent) + 1
    BY <1>1, <2>2, AppendProperties
  <2>4. Relayed(u)' = Len(sent) /\ Relayed(u) = Len(sent)
    BY <2>1, <2>2, <2>3, <1>3 DEF Relayed
  <2>5. sub[u].from <= Len(sent) /\ Given(u) = SubSeq(sent, sub[u].from + 1, Len(sent))
    BY <2>4, <1>4 DEF Client, UpToDate
  <2>6. SubSeq(sent', sub[u].from + 1, Len(sent)) = SubSeq(sent, sub[u].from + 1, Len(sent))
    BY <1>1, <1>4, <2>2, SameBefore
  <2>7. Given(u)' = Given(u)
    BY <1>1 DEF Given
  <2> QED BY <2>4, <2>5, <2>6, <2>7
<1>8. Explained(u)'
  BY <1>1, <1>2, <1>4 DEF Client, Explained
<1> QED BY <1>5, <1>6, <1>7, <1>8 DEF Client

LEMMA TrySendKeepsClients ==
  ASSUME IInv, NEW s \in Subs, TrySend(s), NEW u \in Subs
  PROVE  Client(u)'
<1>0. TypeOK /\ RelayAt /\ (\A c \in Subs : Client(c)) /\ relay.pc = "sending" /\ s \in relay.targets
      /\ sent' = sent /\ sub \in [Subs -> Sub]
  BY DEF IInv, TrySend, TypeOK
<1>t. /\ sub[s] \in Sub /\ sub[s].from \in Nat
      /\ sub[s].queue \in Seq(Events \cup {Error}) /\ sub[s].got \in Seq(Events \cup {Error})
      /\ relay.event \in Events \cup {Error} /\ relay \in Relay /\ relay.targets \subseteq Subs
  BY <1>0, SubType, RelayType
<1>1. CASE sub[s].once = "open" /\ ~Full(s)
  <2> DEFINE q == Append(sub[s].queue, relay.event)
  <2>1. sub' = [sub EXCEPT ![s].queue = q] /\ relay' = [relay EXCEPT !.targets = @ \ {s}]
    BY <1>1 DEF TrySend
  <2>2. relay'.pc = "sending" /\ relay'.closed = relay.closed /\ relay'.targets = relay.targets \ {s}
    BY <2>1, <1>0, <1>t DEF Relay
  <2>3. CASE u # s
    <3>1. sub'[u] = sub[u] /\ InFlight(u)' = InFlight(u) /\ ToBeClosed(u)' = ToBeClosed(u)
      BY <2>1, <2>2, <2>3, <1>0 DEF InFlight, ToBeClosed
    <3> QED BY <3>1, <2>2, <1>0, ClientFrame
  <2>4. CASE u = s
    <3> HIDE DEF q
    <3>1. /\ sub'[s].queue = q /\ sub'[s].pc = sub[s].pc /\ sub'[s].reg = sub[s].reg
          /\ sub'[s].once = sub[s].once /\ sub'[s].overflowed = sub[s].overflowed
          /\ sub'[s].got = sub[s].got /\ sub'[s].from = sub[s].from
          /\ sub'[s].joined = sub[s].joined /\ sub'[s].quit = sub[s].quit
      BY <2>1, <1>0, <1>t DEF Sub
    <3>2. InFlight(s) /\ ~InFlight(s)' /\ ~ToBeClosed(s)' /\ Client(s)
      BY <2>2, <1>0 DEF InFlight, ToBeClosed
    <3>3. Joining(s)'
      BY <3>1, <3>2 DEF Client, Joining
    <3>4. Known(s)'
      BY <3>1, <3>2, <2>2, <1>0 DEF Client, Known, ToBeClosed
    <3>5. UpToDate(s)'
      <4> SUFFICES ASSUME sub[s].pc = "streaming", ~sub[s].overflowed
                   PROVE  /\ sub[s].from <= Relayed(s)'
                          /\ Given(s)' = SubSeq(sent, sub[s].from + 1, Relayed(s)')
        BY <3>1, <1>0 DEF UpToDate
      <4>1. Relayed(s)' = Len(sent) /\ Relayed(s) = Len(sent) - 1
        BY <3>2, <1>0 DEF Relayed
      <4>2. sent \in Seq(Events) /\ sent # <<>> /\ relay.event = sent[Len(sent)]
        BY <1>0 DEF TypeOK, RelayAt, Busy
      <4>3. PICK n \in Nat : Len(sent) = n + 1
        <5>1. Len(sent) \in Nat \ {0}
          BY <4>2, EmptySeq
        <5>2. Len(sent) - 1 \in Nat /\ Len(sent) = (Len(sent) - 1) + 1
          BY <5>1
        <5> QED BY <5>2
      <4>n. Len(sent) - 1 = n
        BY <4>3
      <4>4. sub[s].from <= n /\ Given(s) = SubSeq(sent, sub[s].from + 1, n)
        BY <4>1, <4>n, <3>2 DEF Client, UpToDate
      <4>5. SubSeq(sent, sub[s].from + 1, n + 1) = Append(SubSeq(sent, sub[s].from + 1, n), sent[n + 1])
        <5>1. n + 1 <= Len(sent)
          BY <4>3
        <5> QED BY <5>1, <4>2, <4>4, <1>t, OneMore
      <4>6. Given(s)' = sub[s].got \o q
        BY <3>1 DEF Given
      <4>7. sub[s].got \o q = Append(Given(s), relay.event)
        <5>1. PICK g \in Seq(Events \cup {Error}), r \in Seq(Events \cup {Error}),
                   e \in Events \cup {Error} :
                g = sub[s].got /\ r = sub[s].queue /\ e = relay.event
          BY <1>t
        <5>2. g \o Append(r, e) = Append(g \o r, e)
          BY SendAddsOne
        <5> QED BY <5>1, <5>2 DEF q, Given
      <4>8. Given(s)' = SubSeq(sent, sub[s].from + 1, Len(sent))
        BY <4>2, <4>3, <4>4, <4>5, <4>6, <4>7
      <4>9. sub[s].from <= Len(sent)
        BY <4>3, <4>4, <1>t
      <4> QED BY <4>1, <4>8, <4>9
    <3>6. Explained(s)'
      <4>1. Due(s)' = Due(s) /\ relay'.closed = relay.closed
        BY <3>1, <1>0, <2>2 DEF Due
      <4> QED BY <4>1, <3>1, <3>2 DEF Client, Explained
    <3> QED BY <2>4, <3>3, <3>4, <3>5, <3>6 DEF Client
  <2> QED BY <2>3, <2>4
<1>2. CASE ~(sub[s].once = "open" /\ ~Full(s))
  <2>1. sub' = sub /\ relay' = [relay EXCEPT !.targets = @ \ {s}, !.pc = "overflow", !.cur = s]
    BY <1>2 DEF TrySend
  <2>2. /\ relay'.pc = "overflow" /\ relay'.closed = relay.closed
        /\ relay'.targets = relay.targets \ {s} /\ relay'.cur = s
    BY <2>1, <1>0, <1>t DEF Relay
  <2>3. InFlight(u)' = InFlight(u) /\ ToBeClosed(u)' = ToBeClosed(u)
    BY <2>2, <1>0 DEF InFlight, ToBeClosed
  <2> QED BY <2>1, <2>2, <2>3, <1>0, ClientFrame
<1> QED BY <1>1, <1>2

LEMMA OverflowKeepsClients ==
  ASSUME IInv, MarkOverflow, NEW u \in Subs
  PROVE  Client(u)'
<1> USE SubType, RelayType
<1>c. PICK s \in Subs : s = relay.cur
  BY DEF IInv, MarkOverflow, RelayAt
<1> DEFINE sig == OverflowSignalForEvent(relay.event)
<1>0. /\ TypeOK /\ RelayAt /\ Client(u) /\ relay.pc = "overflow" /\ s \in Subs \ relay.targets
      /\ sent' = sent /\ sub \in [Subs -> Sub] /\ Client(s)
  BY <1>c DEF IInv, MarkOverflow, RelayAt, TypeOK
<1>1. CASE sub[s].once = "open"
  <2>1. /\ sub' = [sub EXCEPT ![s].overflowed = TRUE, ![s].signal = sig,
                              ![s].queue = Replace(@, sig)]
        /\ relay' = [relay EXCEPT !.pc = "cut"]
    BY <1>1, <1>c DEF MarkOverflow
  <2>2. /\ relay'.pc = "cut" /\ relay'.closed = relay.closed /\ relay'.targets = relay.targets
        /\ relay'.cur = relay.cur
    BY <2>1, <1>0 DEF Relay
  <2>3. CASE u # s
    <3>1. sub'[u] = sub[u] /\ InFlight(u)' = InFlight(u) /\ ToBeClosed(u)' = ToBeClosed(u)
      BY <2>1, <2>2, <2>3, <1>0, <1>c DEF InFlight, ToBeClosed
    <3> QED BY <3>1, <2>2, <1>0, ClientFrame
  <2>4. CASE u = s
    <3> HIDE DEF sig
    <3>0. sub[s] \in Sub
      BY <1>0
    <3>1. /\ sub'[s].pc = sub[s].pc /\ sub'[s].reg = sub[s].reg
          /\ sub'[s].once = sub[s].once /\ sub'[s].overflowed
          /\ sub'[s].got = sub[s].got /\ sub'[s].from = sub[s].from
          /\ sub'[s].joined = sub[s].joined /\ sub'[s].quit = sub[s].quit
      BY <2>1, <1>0, <3>0 DEF Sub
    <3>2. InFlight(s) /\ ~relay.closed
      BY <1>0, <1>c DEF InFlight, RelayAt, Closing
    <3>3. sub[s].pc \notin {"idle", "checked"}
      BY <3>2, <1>0 DEF Client, Joining
    <3>4. Joining(s)'
      BY <3>1, <3>3, <1>0 DEF Client, Joining
    <3>5. Known(s)'
      BY <3>1, <3>2, <2>2, <1>0 DEF Client, Known, ToBeClosed
    <3>6. UpToDate(s)'
      BY <3>1 DEF UpToDate
    <3>7. Explained(s)'
      BY <3>1, <3>2, <1>0 DEF Client, Explained
    <3> QED BY <2>4, <3>4, <3>5, <3>6, <3>7 DEF Client
  <2> QED BY <2>3, <2>4
<1>2. CASE sub[s].once # "open"
  <2>1. UNCHANGED <<sub, relay>>
    BY <1>2, <1>c DEF MarkOverflow
  <2>2. InFlight(u)' = InFlight(u) /\ ToBeClosed(u)' = ToBeClosed(u)
    BY <2>1 DEF InFlight, ToBeClosed
  <2> QED BY <2>1, <2>2, <1>0, ClientFrame
<1> QED BY <1>1, <1>2

LEMMA ClosingKeepsClients ==
  ASSUME IInv, CutOff \/ \E c \in Subs : CloseNext(c), NEW u \in Subs
  PROVE  Client(u)'
<1>0. /\ TypeOK /\ RelayAt /\ (\A c \in Subs : Client(c)) /\ sent' = sent /\ sub \in [Subs -> Sub]
      /\ relay \in Relay
  BY DEF IInv, CutOff, CloseNext, TypeOK
<1>1. PICK s \in Subs : /\ RelayCloses(s)
                        /\ \/ CutOff /\ s = relay.cur
                           \/ CloseNext(s)
  BY DEF CutOff, CloseNext, IInv, RelayAt
<1>2. /\ relay'.closed = relay.closed
      /\ \/ /\ CutOff /\ s = relay.cur /\ relay.pc = "cut" /\ relay'.pc = "sending"
            /\ relay'.targets = relay.targets /\ sub[s].overflowed /\ ~relay.closed
         \/ /\ CloseNext(s) /\ relay.pc = "closing" /\ relay'.pc = "closing" /\ s \in relay.targets
            /\ relay'.targets = relay.targets \ {s} /\ relay.closed
  BY <1>0, <1>1 DEF CutOff, CloseNext, Relay, RelayAt, Closing
<1>3. sub' = [sub EXCEPT ![s].once = "closed", ![s].reg = FALSE]
  BY <1>1 DEF RelayCloses
<1>4. InFlight(u)' = InFlight(u)
  BY <1>2 DEF InFlight
<1>5. CASE u # s
  <2>1. sub'[u] = sub[u]
    BY <1>3, <1>5, <1>0
  <2>2. ToBeClosed(u)' = ToBeClosed(u)
    BY <1>2, <1>5 DEF ToBeClosed
  <2> QED BY <2>1, <2>2, <1>0, <1>2, <1>4, ClientFrame
<1>6. CASE u = s
  <2>0. sub[s] \in Sub /\ Client(s)
    BY <1>0, SubType
  <2>1. /\ sub'[s].pc = sub[s].pc /\ ~sub'[s].reg /\ sub'[s].once = "closed"
        /\ sub'[s].overflowed = sub[s].overflowed /\ sub'[s].queue = sub[s].queue
        /\ sub'[s].got = sub[s].got /\ sub'[s].from = sub[s].from
        /\ sub'[s].joined = sub[s].joined /\ sub'[s].quit = sub[s].quit
    BY <1>3, <1>0, <2>0 DEF Sub
  <2>2. sub[s].pc \notin {"idle", "checked"}
    BY <2>0, <1>2 DEF Client, Joining, ToBeClosed
  <2>3. Joining(s)'
    BY <2>0, <2>1, <2>2 DEF Client, Joining
  <2>4. Known(s)'
    BY <2>0, <2>1, <1>2 DEF Client, Known
  <2>5. UpToDate(s)'
    <3>1. Relayed(s)' = Relayed(s) /\ Given(s)' = Given(s)
      BY <1>4, <1>6, <1>0, <2>1 DEF Relayed, Given
    <3> QED BY <3>1, <2>0, <2>1, <1>0 DEF Client, UpToDate
  <2>6. Explained(s)'
    <3>1. Due(s)' = Due(s)
      BY <1>0, <2>1 DEF Due
    <3> QED BY <3>1, <2>0, <2>1, <1>2 DEF Client, Explained
  <2> QED BY <1>6, <2>3, <2>4, <2>5, <2>6 DEF Client
<1> QED BY <1>5, <1>6

LEMMA CloseAllKeepsClients ==
  ASSUME IInv, CloseAll, NEW u \in Subs
  PROVE  Client(u)'
<1>0. TypeOK /\ RelayAt /\ Client(u) /\ relay \in Relay /\ sub[u] \in Sub
  BY SubType DEF IInv, TypeOK
<1>1. /\ relay.pc = "receive" /\ sent' = sent /\ ~relay.closed
      /\ relay'.pc = "closing" /\ relay'.closed /\ relay'.targets = Registered
      /\ sub' = [s \in Subs |-> [sub[s] EXCEPT !.reg = FALSE]]
  BY <1>0 DEF CloseAll, Relay, RelayAt, Closing
<1>2. /\ sub'[u].pc = sub[u].pc /\ ~sub'[u].reg /\ sub'[u].once = sub[u].once
      /\ sub'[u].overflowed = sub[u].overflowed /\ sub'[u].queue = sub[u].queue
      /\ sub'[u].got = sub[u].got /\ sub'[u].from = sub[u].from
      /\ sub'[u].joined = sub[u].joined /\ sub'[u].quit = sub[u].quit
  BY <1>0, <1>1 DEF Sub
<1>3. ~InFlight(u) /\ ~InFlight(u)' /\ ~ToBeClosed(u) /\ (ToBeClosed(u)' <=> sub[u].reg)
  BY <1>1 DEF InFlight, ToBeClosed, Registered
<1>4. Joining(u)'
  BY <1>0, <1>2, <1>3 DEF Client, Joining
<1>5. Known(u)'
  BY <1>0, <1>1, <1>2, <1>3 DEF Client, Known
<1>6. UpToDate(u)'
  <2>1. Relayed(u)' = Relayed(u) /\ Given(u)' = Given(u)
    BY <1>1, <1>2, <1>3 DEF Relayed, Given
  <2> QED BY <2>1, <1>0, <1>1, <1>2 DEF Client, UpToDate
<1>7. Explained(u)'
  BY <1>0, <1>1, <1>2 DEF Client, Explained
<1> QED BY <1>4, <1>5, <1>6, <1>7 DEF Client

LEMMA RelayKeepsClients ==
  ASSUME IInv, RelayStep, NEW u \in Subs
  PROVE  Client(u)'
<1>0. TypeOK /\ RelayAt /\ Client(u) /\ relay \in Relay
  BY DEF IInv, TypeOK
<1>1. CASE BroadcastEnds \/ RelayEnds
  <2>1. /\ sub' = sub /\ sent' = sent /\ relay'.closed = relay.closed
        /\ relay.targets = {} /\ relay'.targets = {}
        /\ \/ relay.pc = "sending" /\ relay'.pc = "receive"
           \/ relay.pc = "closing" /\ relay'.pc = "done"
    BY <1>0, <1>1 DEF BroadcastEnds, RelayEnds, Relay
  <2>2. InFlight(u)' = InFlight(u) /\ ToBeClosed(u)' = ToBeClosed(u)
    BY <2>1 DEF InFlight, ToBeClosed
  <2> QED BY <2>1, <2>2, <1>0, ClientFrame
<1> QED BY <1>1, BroadcastKeepsClients, TrySendKeepsClients, OverflowKeepsClients,
           ClosingKeepsClients, CloseAllKeepsClients DEF RelayStep

LEMMA RunnerKeepsClients ==
  ASSUME IInv, RunEnds \/ \E n \in Events : Emit(n), NEW u \in Subs
  PROVE  Client(u)'
<1>1. UNCHANGED <<sent, relay, sub>>
  BY DEF RunEnds, Emit
<1>2. InFlight(u)' = InFlight(u) /\ ToBeClosed(u)' = ToBeClosed(u)
  BY <1>1 DEF InFlight, ToBeClosed
<1> QED BY <1>1, <1>2, ClientFrame DEF IInv

LEMMA HandlerKeepsClients ==
  ASSUME IInv, NEW s \in Subs, HandlerStep(s) \/ Disconnects(s), NEW u \in Subs
  PROVE  Client(u)'
<1>0. /\ TypeOK /\ InNumberOrder /\ RelayAt /\ (\A c \in Subs : Client(c)) /\ sub \in [Subs -> Sub]
      /\ sub[s] \in Sub
  BY SubType DEF IInv, TypeOK
<1>1. /\ UNCHANGED <<run, emitted, input, sent, relay, crashed>>
      /\ \A c \in Subs \ {s} : sub'[c] = sub[c]
  BY <1>0, TypeHandler
<1>2. ASSUME NEW c \in Subs
      PROVE  InFlight(c)' = InFlight(c) /\ ToBeClosed(c)' = ToBeClosed(c)
  BY <1>1 DEF InFlight, ToBeClosed
<1>3. CASE u # s
  BY <1>0, <1>1, <1>2, <1>3, ClientFrame
<1>4. Client(s)
  BY <1>0
<1>5. ASSUME Opens(s) PROVE Client(s)'
  <2>1. /\ sub[s].pc = "idle"
        /\ \/ sub' = [sub EXCEPT ![s].pc = "checked"]
           \/ sub' = [sub EXCEPT ![s].pc = "left", ![s].once = "closed"]
    BY <1>5 DEF Opens
  <2>2. /\ sub'[s].reg = sub[s].reg /\ sub'[s].overflowed = sub[s].overflowed
        /\ sub'[s].queue = sub[s].queue /\ sub'[s].got = sub[s].got
        /\ sub'[s].joined = sub[s].joined
        /\ \/ sub'[s].pc = "checked" /\ sub'[s].once = sub[s].once
           \/ sub'[s].pc = "left"
    BY <2>1, <1>0 DEF Sub
  <2>3. Joining(s)'
    BY <2>1, <2>2, <1>2, <1>4 DEF Client, Joining
  <2>4. Known(s)' /\ UpToDate(s)' /\ Explained(s)'
    BY <2>1, <2>2, <1>1, <1>4 DEF Client, Known, UpToDate, Explained, Joining
  <2> QED BY <2>3, <2>4 DEF Client
<1>6. ASSUME Subscribe(s) PROVE Client(s)'
  <2>0. Len(sent) \in Nat
    BY <1>0, LenProperties DEF TypeOK
  <2>1. CASE relay.closed
    <3>1. sub' = [sub EXCEPT ![s].pc = "left", ![s].once = "closed"] /\ sub[s].pc = "checked"
      BY <1>6, <2>1 DEF Subscribe
    <3>2. sub'[s].reg = sub[s].reg /\ sub'[s].joined = sub[s].joined /\ sub'[s].pc = "left"
      BY <3>1, <1>0 DEF Sub
    <3>3. Joining(s)'
      BY <3>2 DEF Joining
    <3>4. Known(s)' /\ UpToDate(s)' /\ Explained(s)'
      BY <3>1, <3>2, <1>1, <1>4 DEF Client, Known, UpToDate, Explained, Joining
    <3> QED BY <3>3, <3>4 DEF Client
  <2>2. CASE ~relay.closed
    <3>1. /\ sub' = [sub EXCEPT ![s].pc = "streaming", ![s].reg = TRUE,
                                ![s].joined = TRUE, ![s].from = Len(sent)]
          /\ sub[s].pc = "checked"
      BY <1>6, <2>2 DEF Subscribe
    <3>2. /\ sub'[s].reg /\ sub'[s].pc = "streaming" /\ sub'[s].from = Len(sent)
          /\ sub'[s].once = sub[s].once /\ sub'[s].queue = sub[s].queue /\ sub'[s].got = sub[s].got
      BY <3>1, <1>0 DEF Sub
    <3>3. sub[s].once = "open" /\ sub[s].queue = <<>> /\ sub[s].got = <<>> /\ ~InFlight(s)
      BY <3>1, <1>4 DEF Client, Joining
    <3>4. Joining(s)' /\ Known(s)' /\ Explained(s)'
      BY <3>2, <3>3, <2>2, <1>1 DEF Joining, Known, Explained
    <3>5. UpToDate(s)'
      <4>1. Relayed(s)' = Len(sent)
        BY <3>3, <1>1, <1>2 DEF Relayed
      <4>2. SubSeq(sent, Len(sent) + 1, Len(sent)) = <<>>
        BY <2>0, SubSeqEmpty
      <4>3. Given(s)' = <<>>
        <5>1. <<>> \in Seq(Events) /\ <<>> \o <<>> = <<>>
          BY ConcatEmptySeq, EmptySeq
        <5>2. Given(s)' = <<>> \o <<>>
          BY <3>2, <3>3 DEF Given
        <5> QED BY <5>1, <5>2
      <4> QED BY <4>1, <4>2, <4>3, <3>2, <2>0, <1>1 DEF UpToDate
    <3> QED BY <3>4, <3>5 DEF Client
  <2> QED BY <2>1, <2>2
<1>7. ASSUME Reads(s) PROVE Client(s)'
  <2> DEFINE q == Tail(sub[s].queue)
             g == Append(sub[s].got, Head(sub[s].queue))
  <2>1. sub[s].pc = "streaming" /\ sub[s].queue # <<>> /\ sub' = [sub EXCEPT ![s].queue = q, ![s].got = g]
    BY <1>7 DEF Reads
  <2> HIDE DEF q, g
  <2>2. /\ sub'[s].pc = "streaming" /\ sub'[s].reg = sub[s].reg /\ sub'[s].once = sub[s].once
        /\ sub'[s].overflowed = sub[s].overflowed /\ sub'[s].from = sub[s].from
        /\ sub'[s].queue = q /\ sub'[s].got = g
    BY <2>1, <1>0 DEF Sub
  <2>3. Joining(s)' /\ Known(s)' /\ Explained(s)'
    BY <2>1, <2>2, <1>1, <1>2, <1>4 DEF Client, Joining, Known, Explained
  <2>4. UpToDate(s)'
    <3>1. sub[s].queue \in Seq(Events \cup {Error}) /\ sub[s].got \in Seq(Events \cup {Error})
      BY <1>0, SubType
    <3>2. Append(sub[s].got, Head(sub[s].queue)) \o Tail(sub[s].queue) = sub[s].got \o sub[s].queue
      BY <2>1, <3>1, ReadKeepsAll
    <3>3. Given(s)' = Given(s)
      BY <3>2, <2>2 DEF Given, q, g
    <3>4. Relayed(s)' = Relayed(s)
      BY <1>1, <1>2 DEF Relayed
    <3> QED BY <3>3, <3>4, <2>1, <2>2, <1>1, <1>4 DEF Client, UpToDate
  <2> QED BY <2>3, <2>4 DEF Client
<1>8. ASSUME StreamEnds(s) PROVE Client(s)'
  <2> DEFINE g == IF sub[s].overflowed THEN Append(sub[s].got, sub[s].signal) ELSE sub[s].got
  <2>1. /\ sub[s].pc = "streaming" /\ sub[s].queue = <<>> /\ sub[s].once = "closed"
        /\ sub' = [sub EXCEPT ![s].pc = "left", ![s].got = g]
    BY <1>8 DEF StreamEnds
  <2> HIDE DEF g
  <2>2. /\ sub'[s].pc = "left" /\ sub'[s].reg = sub[s].reg /\ sub'[s].got = g
        /\ sub'[s].from = sub[s].from
    BY <2>1, <1>0 DEF Sub
  <2>3. Joining(s)' /\ Known(s)' /\ UpToDate(s)'
    BY <2>1, <2>2, <1>1, <1>4 DEF Client, Joining, Known, UpToDate
  <2>t. /\ sub[s].got \in Seq(Events \cup {Error}) /\ sub[s].signal \in Signals
        /\ Signals \subseteq Events \cup {Error} /\ Len(sub[s].got) \in Nat
    BY <1>0, SubType, Bounds, LenProperties
  <2>4. Explained(s)'
    <3>1. CASE sub[s].overflowed
      <4>1. g = Append(sub[s].got, sub[s].signal)
        BY <3>1 DEF g
      <4>2. g # <<>> /\ Len(g) = Len(sub[s].got) + 1 /\ g[Len(sub[s].got) + 1] = sub[s].signal
        BY <4>1, <2>t, AppendProperties
      <4>3. Last(g) \in Signals
        BY <4>2, <2>t DEF Last
      <4> QED BY <4>2, <4>3, <2>2 DEF Explained
    <3>2. CASE ~sub[s].overflowed
      <4>1. relay.closed
        BY <3>2, <2>1, <1>4 DEF Client, Known
      <4>2. ~InFlight(s)
        BY <4>1, <1>0 DEF InFlight, RelayAt, Closing
      <4>3. Given(s) = Due(s)
        BY <4>2, <3>2, <2>1, <1>4 DEF Client, UpToDate, Relayed, Due
      <4>4. Given(s) = sub[s].got
        BY <2>1, <2>t, ConcatEmptySeq DEF Given
      <4>5. Contains(Due(s), Complete) => sub[s].got # <<>> /\ Last(sub[s].got) = Complete
        BY <4>3, <4>4, <1>0, CompleteIsLast
      <4>6. g = sub[s].got /\ Due(s)' = Due(s)
        BY <3>2, <2>2, <1>1 DEF g, Due
      <4> QED BY <4>1, <4>5, <4>6, <2>2, <1>1, Bounds DEF Explained
    <3> QED BY <3>1, <3>2
  <2> QED BY <2>3, <2>4 DEF Client
<1>9. ASSUME Unsubscribes(s) PROVE Client(s)'
  <2>1. sub[s].pc = "leaving" /\ sub' = [sub EXCEPT ![s].pc = "left", ![s].once = "closed", ![s].reg = FALSE]
    BY <1>9 DEF Unsubscribes
  <2>2. sub'[s].pc = "left" /\ ~sub'[s].reg /\ sub'[s].quit = sub[s].quit
    BY <2>1, <1>0 DEF Sub
  <2>3. Joining(s)' /\ Known(s)' /\ UpToDate(s)' /\ Explained(s)'
    BY <2>1, <2>2, <1>4 DEF Client, Joining, Known, UpToDate, Explained
  <2> QED BY <2>3 DEF Client
<1>10. ASSUME Disconnects(s) PROVE Client(s)'
  <2> DEFINE p == IF sub[s].once = "open" THEN "leaving" ELSE "left"
             o == IF sub[s].once = "open" THEN "closing" ELSE sub[s].once
  <2>1. sub[s].pc = "streaming" /\ sub' = [sub EXCEPT ![s].quit = TRUE, ![s].pc = p, ![s].once = o]
    BY <1>10, <1>0 DEF Disconnects
  <2>2. p \in {"leaving", "left"}
    OBVIOUS
  <2> HIDE DEF p, o
  <2>3. sub'[s].pc = p /\ sub'[s].reg = sub[s].reg /\ sub'[s].quit
    BY <2>1, <1>0 DEF Sub
  <2>4. Joining(s)' /\ Known(s)' /\ UpToDate(s)' /\ Explained(s)'
    BY <2>1, <2>2, <2>3, <1>1, <1>4 DEF Client, Joining, Known, UpToDate, Explained
  <2> QED BY <2>4 DEF Client
<1> QED BY <1>3, <1>5, <1>6, <1>7, <1>8, <1>9, <1>10 DEF HandlerStep

-----------------------------------------------------------------------------
(* The invariant.                                                          *)
LEMMA Initially == Init => IInv
<1> SUFFICES ASSUME Init PROVE IInv
  OBVIOUS
<1> DEFINE new == [pc |-> "idle", reg |-> FALSE, queue |-> <<>>, once |-> "open",
                   overflowed |-> FALSE, signal |-> Error, got |-> <<>>, from |-> 0,
                   joined |-> FALSE, quit |-> FALSE]
<1>1. <<>> \in Seq(Events) /\ <<>> \in Seq(Events \cup {Error}) /\ Len(<<>>) = 0
  BY EmptySeq
<1>2. new \in Sub /\ Len(new.queue) <= SubBuf
  BY <1>1, Bounds DEF Sub
<1>3. sub = [s \in Subs |-> new] /\ sent = <<>> /\ input = <<>> /\ emitted = 0
  BY DEF Init
<1>4. relay \in Relay /\ relay.pc = "receive" /\ ~relay.closed /\ relay.targets = {}
  BY DEF Init, Relay
<1>5. TypeOK
  <2>1. sub \in [Subs -> Sub] /\ \A s \in Subs : Len(sub[s].queue) <= SubBuf
    BY <1>2, <1>3
  <2>2. Len(input) <= Buf /\ emitted \in 0 .. Complete
    BY <1>1, <1>3, Bounds
  <2> QED BY <1>1, <1>3, <1>4, <2>1, <2>2 DEF Init, TypeOK
<1>6. InNumberOrder
  BY <1>1, <1>3 DEF InNumberOrder
<1>7. RelayAt
  BY <1>4 DEF RelayAt, Busy, Closing
<1>8. ASSUME NEW s \in Subs PROVE Client(s)
  <2>1. /\ sub[s].pc = "idle" /\ sub[s].once = "open" /\ ~sub[s].reg /\ ~sub[s].overflowed
        /\ ~sub[s].joined /\ sub[s].queue = <<>> /\ sub[s].got = <<>>
    BY <1>3
  <2> QED BY <2>1, <1>4 DEF Client, Joining, Known, UpToDate, Explained, InFlight, ToBeClosed
<1> QED BY <1>5, <1>6, <1>7, <1>8 DEF IInv

LEMMA Step == IInv /\ [Next]_vars => IInv'
<1> SUFFICES ASSUME IInv, [Next]_vars PROVE IInv'
  OBVIOUS
<1>0. TypeOK /\ InNumberOrder /\ RelayAt
  BY DEF IInv
<1>1. CASE Next
  <2>1. InNumberOrder' /\ RelayAt'
    BY <1>0, <1>1, OrderStep, RelayAtStep
  <2>2. TypeOK' /\ \A u \in Subs : Client(u)'
    <3>1. CASE RunEnds \/ \E n \in Events : Emit(n)
      BY <3>1, <1>0, TypeRunner, RunnerKeepsClients
    <3>2. CASE RelayStep
      BY <3>2, <1>0, TypeRelay, RelayKeepsClients
    <3>3. CASE \E s \in Subs : HandlerStep(s) \/ Disconnects(s)
      BY <3>3, <1>0, TypeHandler, HandlerKeepsClients
    <3> QED BY <1>1, <3>1, <3>2, <3>3 DEF Next
  <2> QED BY <2>1, <2>2 DEF IInv
<1>2. CASE UNCHANGED vars
  <2>1. UNCHANGED <<run, emitted, input, sent, relay, sub, crashed>>
    BY <1>2 DEF vars
  <2>2. TypeOK' /\ InNumberOrder' /\ RelayAt'
    BY <1>0, <2>1 DEF TypeOK, InNumberOrder, RelayAt
  <2>3. ASSUME NEW u \in Subs PROVE Client(u)'
    <3>1. InFlight(u)' = InFlight(u) /\ ToBeClosed(u)' = ToBeClosed(u)
      BY <2>1 DEF InFlight, ToBeClosed
    <3> QED BY <2>1, <3>1, ClientFrame DEF IInv
  <2> QED BY <2>2, <2>3 DEF IInv
<1> QED BY <1>1, <1>2

LEMMA Invariance == Spec => []IInv
BY Initially, Step, PTL DEF Spec

-----------------------------------------------------------------------------
(* The clients that overflowed.  Once it is marked the relay sends nothing *)
(* to a subscription any more: it is being cut off or is closed.  It has   *)
(* been told, or session_complete, after which nothing is relayed, took    *)
(* the place of its oldest unread event.                                   *)
CompleteRelayed == sent # <<>> /\ sent[Len(sent)] = Complete

Signalled(s) ==
  \/ sub[s].signal = Error /\ Given(s) # <<>> /\ Last(Given(s)) = Error
  \/ sub[s].signal = Complete /\ CompleteRelayed /\ (Given(s) = Due(s) \/ LacksOne(s))

Overflown(s) ==
  sub[s].pc = "streaming" /\ sub[s].overflowed =>
    /\ sub[s].once = "closed" \/ (relay.pc = "cut" /\ s = relay.cur)
    /\ Signalled(s)

OInv == IInv /\ \A s \in Subs : Overflown(s)

LEMMA ReplaceLosesOne ==
  ASSUME NEW S, NEW g \in Seq(S), NEW q \in Seq(S), NEW e \in S, q # <<>>
  PROVE  /\ Len(g) + 1 \in 1 .. Len(Append(g \o q, e)) - 1
         /\ g \o Append(Tail(q), e) = RemoveAt(Append(g \o q, e), Len(g) + 1)
<1>1. PICK n \in Nat, m \in Nat : n = Len(g) /\ Len(q) = m + 1
  <2>1. Len(q) \in Nat \ {0} /\ Len(g) \in Nat
    BY EmptySeq, LenProperties
  <2>2. Len(q) - 1 \in Nat /\ Len(q) = (Len(q) - 1) + 1
    BY <2>1
  <2> QED BY <2>1, <2>2
<1> DEFINE t == Append(g \o q, e)
           c == g \o q
           a == Append(Tail(q), e)
           x == SubSeq(t, 1, n)
           y == SubSeq(t, n + 2, n + m + 2)
<1>c. /\ c \in Seq(S) /\ Len(c) = n + m + 1
      /\ \A i \in 1 .. n + m + 1 : c[i] = IF i <= n THEN g[i] ELSE q[i - n]
  <2>1. c \in Seq(S) /\ Len(c) = Len(g) + Len(q)
        /\ \A i \in 1 .. Len(g) + Len(q) : c[i] = IF i <= Len(g) THEN g[i] ELSE q[i - Len(g)]
    BY ConcatProperties
  <2>2. Len(g) + Len(q) = n + m + 1
    BY <1>1
  <2> QED BY <2>1, <2>2, <1>1
<1>t. /\ t \in Seq(S) /\ Len(t) = n + m + 2 /\ t[n + m + 2] = e
      /\ \A i \in 1 .. n + m + 1 : t[i] = c[i]
  <2>1. PICK d \in Seq(S) : d = c
    BY <1>c
  <2>2. Append(d, e) \in Seq(S) /\ Len(Append(d, e)) = Len(d) + 1
        /\ Append(d, e)[Len(d) + 1] = e /\ \A i \in 1 .. Len(d) : Append(d, e)[i] = d[i]
    BY AppendProperties
  <2>3. t = Append(d, e) /\ Len(d) = n + m + 1 /\ (n + m + 1) + 1 = n + m + 2
    BY <2>1, <1>c, <1>1
  <2> HIDE DEF t, c
  <2> QED BY <2>1, <2>2, <2>3
<1>a. /\ a \in Seq(S) /\ Len(a) = m + 1 /\ a[m + 1] = e
      /\ \A i \in 1 .. m : a[i] = q[i + 1]
  <2>1. /\ Tail(q) \in Seq(S) /\ Len(Tail(q)) = m
        /\ \A i \in 1 .. m : Tail(q)[i] = q[i + 1]
    BY <1>1, HeadTailProperties
  <2>2. /\ a \in Seq(S) /\ Len(a) = Len(Tail(q)) + 1 /\ a[Len(Tail(q)) + 1] = e
        /\ \A i \in 1 .. Len(Tail(q)) : a[i] = Tail(q)[i]
    BY <2>1, AppendProperties
  <2> QED BY <2>1, <2>2
<1> HIDE DEF t, c, a
<1>e. \A i \in 1 .. n + m + 2 : t[i] \in S
  BY <1>t, ElementOfSeq
<1>x. /\ x \in Seq(S) /\ Len(x) = n /\ \A i \in 1 .. n : x[i] = t[i]
  <2>1. \A i \in 1 .. n : t[i] \in S
    BY <1>e
  <2>2. 1 \in Int /\ n \in Int
    BY <1>1
  <2>3. /\ x \in Seq(S) /\ Len(x) = IF 1 <= n THEN n - 1 + 1 ELSE 0
        /\ \A i \in 1 .. n - 1 + 1 : x[i] = t[1 + i - 1]
    BY <2>1, <2>2, SubSeqProperties
  <2>4. n - 1 + 1 = n /\ \A i \in 1 .. n : 1 + i - 1 = i
    BY <1>1
  <2> QED BY <2>3, <2>4, <1>1
<1>y. /\ y \in Seq(S) /\ Len(y) = m + 1 /\ \A i \in 1 .. m + 1 : y[i] = t[n + 1 + i]
  <2>1. \A i \in n + 2 .. n + m + 2 : t[i] \in S
    BY <1>e, <1>1
  <2>2. n + 2 \in Int /\ n + m + 2 \in Int
    BY <1>1
  <2>3. /\ y \in Seq(S)
        /\ Len(y) = IF n + 2 <= n + m + 2 THEN (n + m + 2) - (n + 2) + 1 ELSE 0
        /\ \A i \in 1 .. (n + m + 2) - (n + 2) + 1 : y[i] = t[n + 2 + i - 1]
    BY <2>1, <2>2, SubSeqProperties
  <2>4. (n + m + 2) - (n + 2) + 1 = m + 1 /\ n + 2 <= n + m + 2
    BY <1>1
  <2>5. ASSUME NEW i \in 1 .. m + 1 PROVE n + 2 + i - 1 = n + 1 + i
    BY <1>1
  <2> QED BY <2>3, <2>4, <2>5
<1> HIDE DEF x, y
<1>l. /\ g \o a \in Seq(S) /\ Len(g \o a) = n + m + 1
      /\ \A i \in 1 .. n + m + 1 : (g \o a)[i] = IF i <= n THEN g[i] ELSE a[i - n]
  <2>1. /\ g \o a \in Seq(S) /\ Len(g \o a) = Len(g) + Len(a)
        /\ \A i \in 1 .. Len(g) + Len(a) : (g \o a)[i] = IF i <= Len(g) THEN g[i] ELSE a[i - Len(g)]
    BY <1>a, ConcatProperties
  <2>2. Len(g) + Len(a) = n + m + 1
    BY <1>1, <1>a
  <2> QED BY <2>1, <2>2, <1>1
<1>r. /\ x \o y \in Seq(S) /\ Len(x \o y) = n + m + 1
      /\ \A i \in 1 .. n + m + 1 : (x \o y)[i] = IF i <= n THEN x[i] ELSE y[i - n]
  <2>1. /\ x \o y \in Seq(S) /\ Len(x \o y) = Len(x) + Len(y)
        /\ \A i \in 1 .. Len(x) + Len(y) : (x \o y)[i] = IF i <= Len(x) THEN x[i] ELSE y[i - Len(x)]
    BY <1>x, <1>y, ConcatProperties
  <2>2. Len(x) + Len(y) = n + m + 1
    BY <1>1, <1>x, <1>y
  <2> QED BY <2>1, <2>2, <1>x
<1>i. ASSUME NEW i \in 1 .. n + m + 1 PROVE (g \o a)[i] = (x \o y)[i]
  <2>1. CASE i <= n
    <3>1. i \in 1 .. n /\ (g \o a)[i] = g[i] /\ (x \o y)[i] = x[i]
      BY <2>1, <1>l, <1>r
    <3> QED BY <3>1, <2>1, <1>x, <1>t, <1>c, <1>1
  <2>2. CASE n < i /\ i <= n + m
    <3>1. i - n \in 1 .. m /\ i - n \in 1 .. m + 1 /\ ~(i <= n) /\ i + 1 \in 1 .. n + m + 1
          /\ ~(i + 1 <= n) /\ (i + 1) - n = (i - n) + 1 /\ n + 1 + (i - n) = i + 1
      BY <2>2, <1>1
    <3>2. (g \o a)[i] = a[i - n] /\ (x \o y)[i] = y[i - n]
      BY <3>1, <1>l, <1>r
    <3>3. a[i - n] = q[(i - n) + 1] /\ y[i - n] = t[i + 1] /\ t[i + 1] = c[i + 1]
      BY <3>1, <1>a, <1>y, <1>t
    <3>4. c[i + 1] = q[(i + 1) - n]
      BY <3>1, <1>c
    <3> QED BY <3>1, <3>2, <3>3, <3>4
  <2>3. CASE i = n + m + 1
    <3>1. i - n = m + 1 /\ i - n \in 1 .. m + 1 /\ ~(i <= n) /\ n + 1 + (i - n) = n + m + 2
      BY <2>3, <1>1
    <3>2. (g \o a)[i] = a[m + 1] /\ (x \o y)[i] = y[i - n] /\ y[i - n] = t[n + m + 2]
      BY <3>1, <1>l, <1>r, <1>y
    <3> QED BY <3>2, <1>a, <1>t
  <2>4. i <= n \/ (n < i /\ i <= n + m) \/ i = n + m + 1
    BY <1>1
  <2> QED BY <2>1, <2>2, <2>3, <2>4
<1>s. g \o a = x \o y
  BY <1>i, <1>l, <1>r, SeqEqual
<1>m. RemoveAt(t, n + 1) = x \o y
  <2>1. (n + 1) - 1 = n /\ (n + 1) + 1 = n + 2
    BY <1>1
  <2> QED BY <2>1, <1>t DEF RemoveAt, x, y
<1>n. n + 1 \in 1 .. Len(t) - 1
  BY <1>t, <1>1
<1> QED BY <1>s, <1>m, <1>n, <1>1 DEF t, c, a

(* A step that leaves the subscription and what was relayed alone keeps    *)
(* what holds of a client that overflowed, unless it was being cut off.    *)
LEMMA OverflownFrame ==
  ASSUME NEW u \in Subs, Overflown(u), sent' = sent,
         sub'[u].pc = sub[u].pc, sub'[u].overflowed = sub[u].overflowed,
         sub'[u].signal = sub[u].signal, sub'[u].from = sub[u].from,
         Given(u)' = Given(u),
         \/ sub[u].once = "closed" /\ sub'[u].once = "closed"
         \/ sub'[u].once = "closed"
         \/ sub'[u].once = sub[u].once /\ relay' = relay
         \/ sub'[u].once = sub[u].once /\ ~(relay.pc = "cut" /\ u = relay.cur)
  PROVE  Overflown(u)'
<1>1. Due(u)' = Due(u) /\ CompleteRelayed' = CompleteRelayed
  BY DEF Due, CompleteRelayed
<1>2. LacksOne(u)' = LacksOne(u)
  BY <1>1 DEF LacksOne
<1>3. Signalled(u)' = Signalled(u)
  BY <1>1, <1>2 DEF Signalled
<1> QED BY <1>3 DEF Overflown

LEMMA BroadcastKeepsOverflown ==
  ASSUME OInv, Broadcast, NEW u \in Subs
  PROVE  Overflown(u)'
<1>1. /\ TypeOK /\ InNumberOrder /\ Overflown(u) /\ sub' = sub
      /\ relay.pc = "receive" /\ input # <<>>
  BY DEF OInv, IInv, Broadcast
<1>2. ~CompleteRelayed
  <2> SUFFICES ASSUME sent # <<>>, sent[Len(sent)] = Complete PROVE FALSE
    BY DEF CompleteRelayed
  <2>1. /\ sent \in Seq(Events) /\ input \in Seq(Events)
        /\ Len(sent) \in Nat \ {0} /\ Len(input) \in Nat \ {0}
    BY <1>1, EmptySeq, LenProperties DEF TypeOK
  <2>2. input[1] \in Events /\ sent[Len(sent)] < input[1]
    BY <1>1, <2>1, ElementOfSeq DEF InNumberOrder
  <2> QED BY <2>2, Bounds DEF Events
<1>3. CASE sub[u].pc = "streaming" /\ sub[u].overflowed
  <2>1. sub[u].once = "closed" /\ sub[u].signal = Error /\ Given(u) # <<>> /\ Last(Given(u)) = Error
    BY <1>1, <1>2, <1>3 DEF Overflown, Signalled
  <2>2. Given(u)' = Given(u)
    BY <1>1 DEF Given
  <2> QED BY <1>1, <2>1, <2>2 DEF Overflown, Signalled
<1>4. CASE ~(sub[u].pc = "streaming" /\ sub[u].overflowed)
  BY <1>1, <1>4 DEF Overflown
<1> QED BY <1>3, <1>4

LEMMA MarkKeepsOverflown ==
  ASSUME OInv, MarkOverflow, NEW u \in Subs
  PROVE  Overflown(u)'
<1> USE SubType, RelayType
<1>0. /\ TypeOK /\ RelayAt /\ Overflown(u) /\ Client(u) /\ relay.pc = "overflow"
      /\ sent' = sent /\ sub \in [Subs -> Sub] /\ relay.cur \in Subs \ relay.targets
  BY DEF OInv, IInv, MarkOverflow, RelayAt, TypeOK
<1>1. CASE sub[relay.cur].once # "open"
  <2>1. UNCHANGED <<sub, relay>>
    BY <1>1 DEF MarkOverflow
  <2>2. Given(u)' = Given(u)
    BY <2>1 DEF Given
  <2> QED BY <2>1, <2>2, <1>0, OverflownFrame
<1>2. CASE sub[relay.cur].once = "open" /\ u # relay.cur
  <2>1. sub'[u] = sub[u]
    BY <1>2, <1>0 DEF MarkOverflow
  <2>2. Given(u)' = Given(u)
    BY <2>1 DEF Given
  <2> QED BY <2>1, <2>2, <1>0, <1>2, OverflownFrame
<1>3. CASE sub[u].once = "open" /\ u = relay.cur
  <2> DEFINE sig == OverflowSignalForEvent(relay.event)
             q == sub[u].queue
             g == sub[u].got
  <2>1. /\ sub' = [sub EXCEPT ![u].overflowed = TRUE, ![u].signal = sig,
                              ![u].queue = Replace(@, sig)]
        /\ relay' = [relay EXCEPT !.pc = "cut"]
    BY <1>3 DEF MarkOverflow
  <2>2. relay'.pc = "cut" /\ relay'.cur = u
    BY <2>1, <1>0, <1>3 DEF Relay
  <2>s. sig = (IF relay.event = Complete THEN Complete ELSE Error)
    BY DEF OverflowSignalForEvent
  <2> HIDE DEF sig
  <2>3. /\ sub'[u].pc = sub[u].pc /\ sub'[u].signal = sig /\ sub'[u].from = sub[u].from
        /\ sub'[u].queue = Replace(q, sig) /\ sub'[u].got = g
    BY <2>1, <1>0 DEF Sub
  <2> SUFFICES ASSUME sub[u].pc = "streaming" PROVE Signalled(u)'
    BY <2>2, <2>3 DEF Overflown
  <2>4. q \in Seq(Events \cup {Error}) /\ g \in Seq(Events \cup {Error}) /\ sig \in Events \cup {Error}
    BY <1>0, <2>s, Bounds
  <2>5. Given(u)' = g \o Replace(q, sig) /\ Given(u) = g \o q
    BY <2>3 DEF Given
  <2> HIDE DEF q, g
  <2>6. CASE sig = Error
    <3>1. PICK r \in Seq(Events \cup {Error}) : Replace(q, sig) = Append(r, sig)
      <4>1. CASE q = <<>>
        BY <4>1, <2>4 DEF Replace
      <4>2. CASE q # <<>>
        BY <4>2, <2>4, TakeEvent DEF Replace
      <4> QED BY <4>1, <4>2
    <3>2. Given(u)' = Append(g \o r, sig) /\ g \o r \in Seq(Events \cup {Error})
      BY <2>4, <2>5, <3>1, SendAddsOne, ConcatProperties
    <3>3. /\ Given(u)' # <<>> /\ Len(Given(u)') = Len(g \o r) + 1
          /\ Given(u)'[Len(g \o r) + 1] = sig
      BY <3>2, <2>4, AppendProperties
    <3>4. Last(Given(u)') = sig
      BY <3>3 DEF Last
    <3> QED BY <3>3, <3>4, <2>3, <2>6 DEF Signalled
  <2>7. CASE sig = Complete
    <3>1. relay.event = Complete /\ sent # <<>> /\ sent[Len(sent)] = Complete
      BY <2>7, <2>s, <1>0, Bounds DEF RelayAt, Busy, Error
    <3>2. CompleteRelayed'
      BY <3>1, <1>0 DEF CompleteRelayed
    <3>3. ~sub[u].overflowed
      BY <1>0, <1>3 DEF Overflown
    <3>4. sent \in Seq(Events)
      BY <1>0 DEF TypeOK
    <3>5. PICK n \in Nat : Len(sent) = n + 1
      <4>1. Len(sent) \in Nat \ {0}
        BY <3>1, <3>4, EmptySeq, LenProperties
      <4>2. Len(sent) - 1 \in Nat /\ Len(sent) = (Len(sent) - 1) + 1
        BY <4>1
      <4> QED BY <4>2
    <3>6. sub[u].from \in Nat /\ sub[u].from <= n /\ Given(u) = SubSeq(sent, sub[u].from + 1, n)
      <4>1. Relayed(u) = n
        BY <3>5, <1>0, <1>3 DEF Relayed, InFlight
      <4>2. sub[u].from \in Nat
        BY <1>0
      <4> QED BY <4>1, <4>2, <1>0, <3>3 DEF Client, UpToDate
    <3>7. Due(u)' = Append(g \o q, Complete)
      <4>1. SubSeq(sent, sub[u].from + 1, n + 1) = Append(SubSeq(sent, sub[u].from + 1, n), sent[n + 1])
        <5>1. n + 1 <= Len(sent)
          BY <3>5
        <5> QED BY <5>1, <3>4, <3>6, OneMore
      <4>2. Due(u)' = SubSeq(sent, sub[u].from + 1, n + 1)
        BY <2>3, <1>0, <3>5 DEF Due
      <4> QED BY <4>1, <4>2, <3>1, <3>5, <3>6, <2>5
    <3>8. CASE q = <<>>
      <4>1. Replace(q, sig) = Append(q, sig)
        BY <3>8 DEF Replace
      <4>2. Given(u)' = Append(g \o q, sig)
        BY <4>1, <2>4, <2>5, SendAddsOne
      <4> QED BY <4>2, <3>7, <2>7, <3>2, <2>3 DEF Signalled
    <3>9. CASE q # <<>>
      <4>1. Given(u)' = g \o Append(Tail(q), Complete)
        BY <3>9, <2>5, <2>7 DEF Replace
      <4>2. /\ Len(g) + 1 \in 1 .. Len(Due(u)') - 1
            /\ Given(u)' = RemoveAt(Due(u)', Len(g) + 1)
        BY <4>1, <3>7, <3>9, <2>4, <2>7, ReplaceLosesOne
      <4>3. LacksOne(u)'
        BY <4>2 DEF LacksOne
      <4> QED BY <4>3, <3>2, <2>3, <2>7 DEF Signalled
    <3> QED BY <3>8, <3>9
  <2> QED BY <2>6, <2>7, <2>s
<1> QED BY <1>1, <1>2, <1>3

LEMMA RelayKeepsOverflown ==
  ASSUME OInv, RelayStep, NEW u \in Subs
  PROVE  Overflown(u)'
<1>0. TypeOK /\ Overflown(u) /\ sub \in [Subs -> Sub] /\ sub[u] \in Sub
  BY SubType DEF OInv, IInv, TypeOK
<1>1. CASE BroadcastEnds \/ RelayEnds
  <2>1. sub' = sub /\ sent' = sent /\ relay.pc \in {"sending", "closing"}
    BY <1>1 DEF BroadcastEnds, RelayEnds
  <2>2. Given(u)' = Given(u)
    BY <2>1 DEF Given
  <2> QED BY <2>1, <2>2, <1>0, OverflownFrame
<1>2. ASSUME NEW s \in Subs, TrySend(s) PROVE Overflown(u)'
  <2>1. /\ sent' = sent /\ relay.pc = "sending"
        /\ sub' = sub \/ (sub[s].once = "open" /\ sub' = [sub EXCEPT ![s].queue = Append(@, relay.event)])
    BY <1>2 DEF TrySend
  <2>2. CASE sub'[u] = sub[u]
    <3>1. Given(u)' = Given(u)
      BY <2>2 DEF Given
    <3> QED BY <2>1, <2>2, <3>1, <1>0, OverflownFrame
  <2>3. CASE sub'[u] # sub[u]
    <3>1. u = s /\ sub[u].once = "open"
      BY <2>1, <2>3, <1>0
    <3>2. ~(sub[u].pc = "streaming" /\ sub[u].overflowed)
      BY <3>1, <2>1, <1>0 DEF Overflown
    <3>3. sub'[u].pc = sub[u].pc /\ sub'[u].overflowed = sub[u].overflowed
      BY <2>1, <3>1, <1>0 DEF Sub
    <3> QED BY <3>2, <3>3 DEF Overflown
  <2> QED BY <2>2, <2>3
<1>3. CASE CutOff \/ \E c \in Subs : CloseNext(c)
  <2>1. PICK s \in Subs : /\ RelayCloses(s) /\ sent' = sent
                          /\ \/ relay.pc = "cut" /\ s = relay.cur
                             \/ relay.pc = "closing"
    BY <1>3 DEF CutOff, CloseNext, OInv, IInv, RelayAt
  <2>2. sub' = [sub EXCEPT ![s].once = "closed", ![s].reg = FALSE]
    BY <2>1 DEF RelayCloses
  <2>3. /\ sub'[u].pc = sub[u].pc /\ sub'[u].overflowed = sub[u].overflowed
        /\ sub'[u].signal = sub[u].signal /\ sub'[u].from = sub[u].from
        /\ sub'[u].queue = sub[u].queue /\ sub'[u].got = sub[u].got
        /\ IF u = s THEN sub'[u].once = "closed" ELSE sub'[u].once = sub[u].once
    BY <2>2, <1>0 DEF Sub
  <2>4. Given(u)' = Given(u)
    BY <2>3 DEF Given
  <2> QED BY <2>1, <2>3, <2>4, <1>0, OverflownFrame
<1>4. CASE CloseAll
  <2>1. /\ relay.pc = "receive" /\ sent' = sent
        /\ sub' = [s \in Subs |-> [sub[s] EXCEPT !.reg = FALSE]]
    BY <1>4 DEF CloseAll
  <2>2. /\ sub'[u].pc = sub[u].pc /\ sub'[u].overflowed = sub[u].overflowed
        /\ sub'[u].signal = sub[u].signal /\ sub'[u].from = sub[u].from
        /\ sub'[u].queue = sub[u].queue /\ sub'[u].got = sub[u].got
        /\ sub'[u].once = sub[u].once
    BY <2>1, <1>0 DEF Sub
  <2>3. Given(u)' = Given(u)
    BY <2>2 DEF Given
  <2> QED BY <2>1, <2>2, <2>3, <1>0, OverflownFrame
<1> QED BY <1>1, <1>2, <1>3, <1>4, BroadcastKeepsOverflown, MarkKeepsOverflown DEF RelayStep

LEMMA HandlerKeepsOverflown ==
  ASSUME OInv, NEW s \in Subs, HandlerStep(s) \/ Disconnects(s), NEW u \in Subs
  PROVE  Overflown(u)'
<1>0. /\ TypeOK /\ Overflown(u) /\ Client(s) /\ sub \in [Subs -> Sub] /\ sub[s] \in Sub
      /\ sub[s].queue \in Seq(Events \cup {Error}) /\ sub[s].got \in Seq(Events \cup {Error})
  BY SubType DEF OInv, IInv, TypeOK
<1>1. /\ sent' = sent /\ relay' = relay /\ \A c \in Subs \ {s} : sub'[c] = sub[c]
  BY <1>0, TypeHandler
<1>2. CASE u # s
  <2>1. sub'[u] = sub[u]
    BY <1>1, <1>2
  <2>2. Given(u)' = Given(u)
    BY <2>1 DEF Given
  <2> QED BY <1>0, <1>1, <2>1, <2>2, OverflownFrame
<1>3. CASE u = s /\ Reads(s)
  <2> DEFINE q == Tail(sub[s].queue)
             g == Append(sub[s].got, Head(sub[s].queue))
  <2>1. sub[s].queue # <<>> /\ sub' = [sub EXCEPT ![s].queue = q, ![s].got = g]
    BY <1>3 DEF Reads
  <2> HIDE DEF q, g
  <2>2. /\ sub'[s].pc = sub[s].pc /\ sub'[s].overflowed = sub[s].overflowed
        /\ sub'[s].signal = sub[s].signal /\ sub'[s].from = sub[s].from
        /\ sub'[s].once = sub[s].once /\ sub'[s].queue = q /\ sub'[s].got = g
    BY <2>1, <1>0 DEF Sub
  <2>3. Given(s)' = Given(s)
    <3>1. g \o q = sub[s].got \o sub[s].queue
      BY <2>1, <1>0, ReadKeepsAll DEF g, q
    <3> QED BY <3>1, <2>2 DEF Given
  <2> QED BY <1>0, <1>1, <1>3, <2>2, <2>3, OverflownFrame
<1>4. CASE u = s /\ Subscribe(s)
  <2>1. sub[s].pc = "checked" /\ ~sub[s].overflowed
    BY <1>4, <1>0 DEF Subscribe, Client, Joining
  <2>2. sub'[s].overflowed = sub[s].overflowed
    BY <1>4, <1>0 DEF Subscribe, Sub
  <2> QED BY <1>4, <2>1, <2>2 DEF Overflown
<1>5. CASE u = s /\ (Opens(s) \/ StreamEnds(s) \/ Unsubscribes(s) \/ Disconnects(s))
  <2>1. sub'[s].pc # "streaming"
    BY <1>5, <1>0 DEF Opens, StreamEnds, Unsubscribes, Disconnects, Sub
  <2> QED BY <1>5, <2>1 DEF Overflown
<1> QED BY <1>2, <1>3, <1>4, <1>5 DEF HandlerStep

LEMMA OverflowInvariance == Spec => []OInv
<1>1. Init => OInv
  <2> SUFFICES ASSUME Init PROVE OInv
    OBVIOUS
  <2>1. \A s \in Subs : sub[s].pc = "idle"
    BY DEF Init
  <2> QED BY <2>1, Initially DEF OInv, Overflown
<1>2. OInv /\ [Next]_vars => OInv'
  <2> SUFFICES ASSUME OInv, [Next]_vars PROVE OInv'
    OBVIOUS
  <2>1. IInv'
    BY Step DEF OInv
  <2>2. ASSUME NEW u \in Subs PROVE Overflown(u)'
    <3>0. Overflown(u)
      BY DEF OInv
    <3>1. CASE UNCHANGED <<sent, relay, sub>>
      <4>1. Given(u)' = Given(u)
        BY <3>1 DEF Given
      <4> QED BY <3>0, <3>1, <4>1, OverflownFrame
    <3>2. CASE RelayStep
      BY <3>2, RelayKeepsOverflown
    <3>3. CASE \E s \in Subs : HandlerStep(s) \/ Disconnects(s)
      BY <3>3, HandlerKeepsOverflown
    <3> QED BY <3>1, <3>2, <3>3 DEF Next, RunEnds, Emit, vars
  <2> QED BY <2>1, <2>2 DEF OInv
<1> QED BY <1>1, <1>2, PTL DEF Spec

-----------------------------------------------------------------------------
(* The relay goroutine of session_manager.go copies every event to every   *)
(* subscriber or cuts the subscriber off (trySend, markOverflow): a client *)
(* that did not overflow has all events, in order, but the one under way;  *)
(* one that did was sent the error event, or, when session_complete was    *)
(* the event without room, lacks one event and is not told.  However full  *)
(* the channels are, and whoever comes and goes.                           *)
THEOREM OverflowAloneLoses == Spec => []OnlyOverflowLoses
<1>1. OInv => OnlyOverflowLoses
  <2> SUFFICES ASSUME OInv, NEW s \in Subs, sub[s].pc = "streaming"
               PROVE  \/ /\ ~sub[s].overflowed
                         /\ Given(s) = Due(s) \/ (InFlight(s) /\ Given(s) = Front(Due(s)))
                      \/ sub[s].overflowed /\ Signalled(s)
    BY DEF OnlyOverflowLoses, Signalled
  <2>1. TypeOK /\ UpToDate(s) /\ Overflown(s) /\ sub[s].from \in Nat
    BY SubType DEF OInv, IInv, Client
  <2>2. sent \in Seq(Events) /\ Len(sent) \in Nat
    BY <2>1, LenProperties DEF TypeOK
  <2>3. CASE ~sub[s].overflowed /\ InFlight(s)
    <3>1. sub[s].from <= Len(sent) - 1 /\ Given(s) = SubSeq(sent, sub[s].from + 1, Len(sent) - 1)
      BY <2>1, <2>3 DEF UpToDate, Relayed
    <3>2. sub[s].from < Len(sent)
      BY <3>1, <2>1, <2>2
    <3>3. Front(Due(s)) = Given(s)
      BY <3>1, <3>2, <2>1, <2>2, FrontOfSubSeq DEF Due
    <3> QED BY <2>3, <3>3
  <2>4. CASE ~sub[s].overflowed /\ ~InFlight(s)
    BY <2>1, <2>4 DEF UpToDate, Relayed, Due
  <2>5. CASE sub[s].overflowed
    BY <2>1, <2>5 DEF Overflown
  <2> QED BY <2>3, <2>4, <2>5
<1> QED BY <1>1, OverflowInvariance, PTL

(* The SSE handler of api.go ends a stream with session_complete or with   *)
(* the overflow event: nobody who stayed is left to guess why it stopped,  *)
(* although the channel may be closed with events unread.                  *)
THEOREM EndIsExplained == Spec => []StreamEndIsExplained
<1>1. IInv => StreamEndIsExplained
  BY DEF IInv, Client, Explained, StreamEndIsExplained
<1> QED BY <1>1, Invariance, PTL

(* closeAll and subscribe of the relay exclude each other through r.mu and *)
(* r.closed: no handler goes on waiting for a relay that has gone.         *)
THEOREM RelayLeavesNobody == Spec => []NobodyLeftBehind
<1>1. IInv => NobodyLeftBehind
  <2> SUFFICES ASSUME IInv, relay.pc = "done", NEW s \in Subs, sub[s].pc = "streaming"
               PROVE  sub[s].once # "open"
    BY DEF NobodyLeftBehind
  <2>1. Known(s) /\ relay.closed
    BY DEF IInv, Client, RelayAt, Closing
  <2> QED BY <2>1 DEF Known, ToBeClosed
<1> QED BY <1>1, Invariance, PTL
=============================================================================
