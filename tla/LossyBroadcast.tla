-------------------------- MODULE LossyBroadcast ---------------------------
(***************************************************************************)
(* What the frame hub promises, without channels, capacities, entries and  *)
(* ids: a log to which frames are appended, and for every reader the       *)
(* numbers of the frames that wait for it, those it has got, and how many  *)
(* it has lost.  A frame that a member wants waits for it or is counted as *)
(* lost; what waits is got in the order of the log.                        *)
(*                                                                         *)
(* One thing the hub does not promise: that a reader that leaves ends its  *)
(* own membership and not somebody else's.                                 *)
(***************************************************************************)
EXTENDS Naturals, Sequences

CONSTANTS Readers, Items

VARIABLES
  log,      \* every frame sent
  known,    \* readers that have ever joined
  members,  \* readers that frames are sent to
  reading,  \* readers that can still get what waits
  wants,    \* the frames that each reader wants
  waiting,  \* the numbers that wait for each reader
  got,      \* the numbers it has got, in order
  lost      \* how many frames it has lost

broadcastVars == <<log, known, members, reading, wants, waiting, got, lost>>

BroadcastInit ==
  /\ log = <<>>
  /\ known = {}
  /\ members = {}
  /\ reading = {}
  /\ wants = [r \in Readers |-> {}]
  /\ waiting = [r \in Readers |-> {}]
  /\ got = [r \in Readers |-> <<>>]
  /\ lost = [r \in Readers |-> 0]

\* Members that have stopped reading are found out.
Send(k) ==
  LET wanting == {r \in members : k \in wants[r]}
      there   == wanting \cap reading
  IN  /\ log' = Append(log, k)
      /\ members' = members \ (wanting \ reading)
      /\ \E taking \in SUBSET there :
           /\ waiting' = [r \in Readers |->
                            IF r \in taking THEN waiting[r] \cup {Len(log)} ELSE waiting[r]]
           /\ lost' = [r \in Readers |-> IF r \in there \ taking THEN lost[r] + 1 ELSE lost[r]]
      /\ UNCHANGED <<known, reading, wants, got>>

Join(r, items) ==
  /\ r \notin known
  /\ known' = known \cup {r}
  /\ members' = members \cup {r}
  /\ reading' = reading \cup {r}
  /\ wants' = [wants EXCEPT ![r] = items]
  /\ UNCHANGED <<log, waiting, got, lost>>

\* At most one membership ends, which need not be that of the reader.
Leave ==
  /\ \E r \in Readers : members' = members \ {r}
  /\ UNCHANGED <<log, known, reading, wants, waiting, got, lost>>

StopReading(r) ==
  /\ r \in reading
  /\ reading' = reading \ {r}
  /\ waiting' = [waiting EXCEPT ![r] = {}]
  /\ UNCHANGED <<log, known, members, wants, got, lost>>

Get(r) ==
  /\ r \in reading
  /\ \E n \in waiting[r] :
       /\ \A m \in waiting[r] : n <= m
       /\ got' = [got EXCEPT ![r] = Append(@, n)]
       /\ waiting' = [waiting EXCEPT ![r] = @ \ {n}]
  /\ UNCHANGED <<log, known, members, reading, wants, lost>>

BroadcastNext ==
  \/ \E k \in Items : Send(k)
  \/ \E r \in Readers, items \in SUBSET Items : Join(r, items)
  \/ Leave
  \/ \E r \in Readers : StopReading(r) \/ Get(r)

BroadcastSpec == BroadcastInit /\ [][BroadcastNext]_broadcastVars
=============================================================================
