------------------------------ MODULE FrameHub ------------------------------
(***************************************************************************)
(* The frame hub of canrush-core: every worker publishes received frames   *)
(* into it, every stream subscribes to it, and each subscription is a      *)
(* bounded channel that a slow reader overflows without blocking the       *)
(* publisher (crates/canrush-core/src/server.rs).                          *)
(*                                                                         *)
(* FrameHub is only used behind Arc<Mutex<FrameHub>>, so each of its       *)
(* methods is one action.  A session is the owner of one FrameSubscription *)
(* and plays the caller of subscribe, try_recv and unsubscribe.            *)
(***************************************************************************)
EXTENDS Naturals, Sequences, FiniteSets

CONSTANTS
  Sessions,     \* owners of a FrameSubscription, one subscription each
  Keys,         \* FrameKey: what a CanFrame is abstracted to
  Options,      \* SubscribeOptions: a queue capacity and the frames accepted
  MaxSequence   \* bound: frames published in a behaviour

ASSUME HubAssumption ==
  /\ IsFiniteSet(Sessions)
  /\ Options \subseteq [capacity : Nat \ {0}, accepts : SUBSET Keys]
  /\ MaxSequence \in Nat

VARIABLES
  frames,       \* FrameHub.frames, every frame ever published
  latest,       \* FrameHub.latest
  nextSequence, \* FrameHub.next_sequence
  subscribers,  \* the sessions that FrameHub.subscribers holds an entry of
  joined,       \* position of a subscription among all: the order of the Vec
  id,           \* FrameSubscriber.id, and FrameSubscription.id
  options,      \* FrameSubscriber.options
  dropped,      \* FrameSubscriber.dropped_count
  queue,        \* the contents of the subscription's channel
  phase,        \* the session's own progress
  since,        \* history: next_sequence when the session subscribed
  received,     \* history: what try_recv returned to the session
  clash         \* history: an id was given that another entry already held

hubVars == <<frames, latest, nextSequence, subscribers, joined, id, options,
             dropped, queue, phase, since, received, clash>>

\* "open": the FrameSubscription is in use; "left": unsubscribe was called,
\* the receiver still exists; "closed": the FrameSubscription was dropped.
Phases == {"new", "open", "left", "closed"}

NoOptions == [capacity |-> 0, accepts |-> {}]
NoLatest  == [receive_count |-> 0, frame |-> 0, previous |-> 0]

\* Frames are told apart by their place in "frames", 0 standing for None.
LatestFrame == [receive_count : Nat, frame : Nat, previous : Nat]
SequencedFrame == [sequence : Nat, frame : Keys]

HubInit ==
  /\ frames = <<>>
  /\ latest = [k \in Keys |-> NoLatest]
  /\ nextSequence = 0
  /\ subscribers = {}
  /\ joined = [s \in Sessions |-> 0]
  /\ id = [s \in Sessions |-> 0]
  /\ options = [s \in Sessions |-> NoOptions]
  /\ dropped = [s \in Sessions |-> 0]
  /\ queue = [s \in Sessions |-> <<>>]
  /\ phase = [s \in Sessions |-> "new"]
  /\ since = [s \in Sessions |-> 0]
  /\ received = [s \in Sessions |-> <<>>]
  /\ clash = FALSE

-----------------------------------------------------------------------------
(* Publishing *)

Accepts(s, k) == k \in options[s].accepts

\* Mutated form of HasRoom: one frame more than the channel holds.
HasRoomOffByOne(s) == Len(queue[s]) <= options[s].capacity

\* The Full test of SyncSender::try_send.
HasRoom(s) == Len(queue[s]) < options[s].capacity

\* Mutated form of Ingest: the previous timestamp is that of the new frame.
IngestLosesPrevious(k) ==
  [receive_count |-> latest[k].receive_count + 1,
   frame |-> Len(frames) + 1, previous |-> Len(frames) + 1]

\* LatestFrameState::ingest (its rate buckets are in module RateBuckets).
Ingest(k) ==
  [receive_count |-> latest[k].receive_count + 1,
   frame |-> Len(frames) + 1, previous |-> latest[k].frame]

\* Mutated form of DropCount: a frame that does not fit is lost uncounted.
DropCountForgets(s, full) == dropped[s]

DropCount(s, full) == IF s \in full THEN dropped[s] + 1 ELSE dropped[s]

\* Mutated form of Delivered: the newest frame overtakes those queued.
DeliveredFirst(s, sent, event) ==
  IF s \in sent THEN <<event>> \o queue[s] ELSE queue[s]

Delivered(s, sent, event) ==
  IF s \in sent THEN Append(queue[s], event) ELSE queue[s]

Publish(k) ==
  /\ nextSequence < MaxSequence
  /\ LET event        == [sequence |-> nextSequence, frame |-> k]
         accepting    == {s \in subscribers : Accepts(s, k)}
         disconnected == {s \in accepting : phase[s] = "closed"}
         sent         == {s \in accepting \ disconnected : HasRoom(s)}
         full         == accepting \ (disconnected \cup sent)
     IN  /\ queue' = [s \in Sessions |-> Delivered(s, sent, event)]
         /\ dropped' = [s \in Sessions |-> DropCount(s, full)]
         /\ subscribers' = subscribers \ disconnected
  /\ nextSequence' = nextSequence + 1
  /\ latest' = [latest EXCEPT ![k] = Ingest(k)]
  /\ frames' = Append(frames, k)
  /\ UNCHANGED <<joined, id, options, phase, since, received, clash>>

-----------------------------------------------------------------------------
(* Subscribing and leaving *)

\* The entries that carry an id, and the first of them in the Vec.
Holding(i) == {s \in subscribers : id[s] = i}
First(i) == {s \in Holding(i) : \A t \in Holding(i) : joined[s] <= joined[t]}

\* The id that subscribe gives: the length of the Vec plus one.
NextId == Cardinality(subscribers) + 1

Subscribe(s, o) ==
  /\ phase[s] = "new"
  /\ phase' = [phase EXCEPT ![s] = "open"]
  /\ id' = [id EXCEPT ![s] = NextId]
  /\ options' = [options EXCEPT ![s] = o]
  /\ joined' = [joined EXCEPT ![s] = 1 + Cardinality({t \in Sessions : phase[t] # "new"})]
  /\ subscribers' = subscribers \cup {s}
  /\ since' = [since EXCEPT ![s] = nextSequence]
  /\ clash' = (clash \/ Holding(NextId) # {})
  /\ UNCHANGED <<frames, latest, nextSequence, dropped, queue, received>>

\* Mutated form of Removed: retain(|subscriber| subscriber.id < i).
RemovedTail(i) == {s \in subscribers : id[s] >= i}

\* The entry that unsubscribe(i) removes: position finds the first one.
Removed(i) == First(i)

\* unsubscribe(subscription.id()), called by the owner of the subscription.
Unsubscribe(s) ==
  /\ phase[s] = "open"
  /\ phase' = [phase EXCEPT ![s] = "left"]
  /\ subscribers' = subscribers \ Removed(id[s])
  /\ UNCHANGED <<frames, latest, nextSequence, joined, id, options, dropped,
                 queue, since, received, clash>>

\* subscriber_stats(i): the drop count of the first entry, if there is one.
SubscriberStats(i) == {dropped[s] : s \in First(i)}

\* The FrameSubscription goes out of scope, with or without unsubscribe: the
\* receiver disconnects the channel, and only a later publish notices.
DropReceiver(s) ==
  /\ phase[s] \in {"open", "left"}
  /\ phase' = [phase EXCEPT ![s] = "closed"]
  /\ queue' = [queue EXCEPT ![s] = <<>>]
  /\ UNCHANGED <<frames, latest, nextSequence, subscribers, joined, id, options,
                 dropped, since, received, clash>>

TryRecv(s) ==
  /\ phase[s] = "open"
  /\ queue[s] # <<>>
  /\ received' = [received EXCEPT ![s] = Append(@, Head(queue[s]))]
  /\ queue' = [queue EXCEPT ![s] = Tail(@)]
  /\ UNCHANGED <<frames, latest, nextSequence, subscribers, joined, id, options,
                 dropped, phase, since, clash>>

HubNext ==
  \/ \E k \in Keys : Publish(k)
  \/ \E s \in Sessions, o \in Options : Subscribe(s, o)
  \/ \E s \in Sessions : Unsubscribe(s)
  \/ \E s \in Sessions : DropReceiver(s)
  \/ \E s \in Sessions : TryRecv(s)

HubSpec == HubInit /\ [][HubNext]_hubVars

-----------------------------------------------------------------------------
(* Properties *)

\* Every variable has the type of the Rust field it stands for, a channel
\* being a sync_channel of the capacity that was asked for.
HubTypeOK ==
  /\ frames \in Seq(Keys)
  /\ latest \in [Keys -> LatestFrame]
  /\ nextSequence \in Nat
  /\ subscribers \subseteq Sessions
  /\ joined \in [Sessions -> Nat]
  /\ id \in [Sessions -> Nat]
  /\ options \in [Sessions -> Options \cup {NoOptions}]
  /\ dropped \in [Sessions -> Nat]
  /\ queue \in [Sessions -> Seq(SequencedFrame)]
  /\ phase \in [Sessions -> Phases]
  /\ since \in [Sessions -> Nat]
  /\ received \in [Sessions -> Seq(SequencedFrame)]
  /\ clash \in BOOLEAN
  /\ \A s \in Sessions : Len(queue[s]) <= options[s].capacity

\* The sequence numbers a session asked for since it subscribed.
Offered(s) == {n \in since[s] .. nextSequence - 1 : Accepts(s, frames[n + 1])}

\* What a session has received, then what waits for it.
Arrivals(s) == received[s] \o queue[s]

InOrder(s) ==
  \A i \in 1 .. Len(Arrivals(s)) :
    /\ Arrivals(s)[i].sequence \in Offered(s)
    /\ frames[Arrivals(s)[i].sequence + 1] = Arrivals(s)[i].frame
    /\ \A j \in 1 .. i - 1 : Arrivals(s)[j].sequence < Arrivals(s)[i].sequence

\* What a session receives is, in publication order and without repetition,
\* the published frame of that sequence number, one that its filter accepts
\* and that was published after it subscribed.
DeliveryInOrder == \A s \in Sessions : InOrder(s)

\* As long as its entry exists, every frame a session asked for was received,
\* waits in its channel, or was counted as dropped, and nothing twice.
NothingUncounted ==
  \A s \in subscribers :
    phase[s] = "open" =>
      Cardinality(Offered(s)) = Len(received[s]) + Len(queue[s]) + dropped[s]

\* Where a key stands in the history.
Places(k) == {i \in 1 .. Len(frames) : frames[i] = k}

\* n is the last of the given places, or there is none and it is 0.
LastOf(places, n) ==
  IF places = {} THEN n = 0 ELSE n \in places /\ \A i \in places : i <= n

LatestOK(k) ==
  /\ latest[k].receive_count = Cardinality(Places(k))
  /\ LastOf(Places(k), latest[k].frame)
  /\ LastOf(Places(k) \ {latest[k].frame}, latest[k].previous)

\* The latest-frame table agrees with the frame history: how often each key
\* was published, the last frame of it and the one before that.
LatestMatchesHistory == \A k \in Keys : LatestOK(k)

\* A session that has not left keeps its entry, and reads its own counters by
\* its id, as long as subscribe has never given an id that was still in use.
OwnEntry ==
  ~clash => \A s \in Sessions :
              phase[s] = "open" => s \in subscribers /\ First(id[s]) = {s}
=============================================================================
