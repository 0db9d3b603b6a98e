------------------------ MODULE DistributedGraphProofs -----------------------
(***************************************************************************)
(* Proofs about DistributedGraph, for every number of users, shards and    *)
(* callers, every channel capacity, and workers that may stop at any time. *)
(***************************************************************************)
EXTENDS DistributedGraph, FiniteSetTheorems, SequenceTheorems, TLAPS

-----------------------------------------------------------------------------
(* The inductive invariant.  Its parts say of one client what it has under *)
(* way; the commands of a client are seen through Flying, whether they     *)
(* wait in a channel or are being served.                                  *)

Flying(c, s) == {m \in InFlight(s) : m.from = c}

\* A worker holds at most one command of each client, and serves one at a time.
Orderly(s) ==
    /\ \A m, n \in busy[s] : m = n
    /\ \A i, j \in DOMAIN queue[s] :
           queue[s][i].from = queue[s][j].from /\ queue[s][i].from # Nobody => i = j
    /\ \A m \in busy[s], i \in DOMAIN queue[s] : m.from # Nobody => queue[s][i].from # m.from

\* A command is at the shard of its users, and a follow is between known users.
CommandOK(s, m) ==
    /\ \A u \in m.users : Home[u] = s
    /\ m.kind = "addFollow" => \E u, v \in known : m.users = {u} /\ m.targets = {v}

\* Only get_two_hop_batched, past its first answer, waits for several commands.
Fanned(c) == calls[c].kind = "batched" /\ calls[c].stage = "second"

\* A client whose call is over has nothing under way.
Quiet(c) == ~Active(c) => ask[c] = {} /\ replies[c] = {} /\ \A s \in Shards : Flying(c, s) = {}

\* Any other call waits for one thing at a time.
Sole(c) ==
    ~Fanned(c) =>
        /\ \A u, v \in ask[c] : u = v
        /\ ask[c] # {} => replies[c] = {}
        /\ \A p, q \in replies[c] : p = q
        /\ \A s \in Shards : Flying(c, s) # {} =>
               ask[c] = {} /\ replies[c] = {} /\ \A t \in Shards : Flying(c, t) # {} => s = t

\* A shard that has a command of the call is not asked again.
AskedOnce(c) == \A s \in Shards : Flying(c, s) # {} => Batch(c, s) = {}

\* The commands of a call are what the call asks for.
Sent(c) ==
    \A s \in Shards : \A m \in Flying(c, s) :
        /\ m.kind = IF calls[c].kind \in {"addUser", "addFollow"} THEN calls[c].kind ELSE "read"
        /\ calls[c].kind = "addFollow" => m.targets = {calls[c].v}

\* The progress of a call.
Staged(c) ==
    Active(c) =>
        /\ calls[c].stage = "second" => calls[c].kind \in {"twoHop", "batched"}
        /\ calls[c].kind = "batched" => calls[c].hops = {}
        /\ calls[c].kind # "addUser" => {calls[c].u, calls[c].v} \subseteq known
        /\ calls[c].stage = "first" =>
               /\ calls[c].ids = {} /\ calls[c].hops = {}
               /\ ask[c] \subseteq {calls[c].u}
               /\ \A s \in Shards : \A m \in Flying(c, s) : m.users = {calls[c].u}

\* What an Ok reply to a mutation says has happened.
Applied(c) ==
    \A r \in replies[c] : r.ok =>
        /\ calls[c].kind = "addUser" => calls[c].u \in stored[Home[calls[c].u]]
        /\ calls[c].kind = "addFollow" => <<calls[c].u, calls[c].v>> \in edges

\* add_user runs alone, and for a user that is not known.
Exclusive(c) ==
    calls[c].kind = "addUser" =>
        /\ Active(c) => calls[c].u \notin known
        /\ \A d \in Clients \ {c} : calls[d] = NoCall

Reading(c) == calls[c].kind \in {"getFollowing", "twoHop", "batched"}

\* The source's list, once it is there, lies between the lists at the start
\* of the call and now.
FirstRead(c) ==
    Reading(c) /\ calls[c].stage = "first" =>
        \A r \in replies[c] : r.ok =>
            /\ Followed(calls[c].before, calls[c].u) \subseteq r.ids
            /\ r.ids \subseteq Followed(edges, calls[c].u)

\* User x, followed by the source when the call started, is still to be asked
\* about, or what it followed then is in a reply or in the answer; if its worker
\* was lost, there is a reply that says so.
Covered(c, x) ==
    \/ x \in calls[c].hops
    \/ x \in ask[c]
    \/ \E s \in Shards : \E m \in Flying(c, s) : x \in m.users
    \/ \E r \in replies[c] : r.ok => Followed(calls[c].before, x) \subseteq r.ids
    \/ Followed(calls[c].before, x) \ {calls[c].u} \subseteq calls[c].ids

SecondRead(c) ==
    Reading(c) /\ calls[c].stage = "second" =>
        LET hops == Followed(edges, calls[c].u) IN
        /\ calls[c].hops \subseteq hops
        /\ ask[c] \subseteq hops
        /\ \A s \in Shards : \A m \in Flying(c, s) : m.users \subseteq hops
        /\ \A r \in replies[c] : r.ids \subseteq UNION {Followed(edges, x) : x \in hops}
        /\ calls[c].ids \subseteq Reads(calls[c].kind, edges, calls[c].u)
        /\ \A x \in Followed(calls[c].before, calls[c].u) : Covered(c, x)

Bracketed(c) ==
    Reading(c) /\ calls[c].stage = "done" =>
        /\ Reads(calls[c].kind, calls[c].before, calls[c].u) \subseteq calls[c].ids
        /\ calls[c].ids \subseteq Reads(calls[c].kind, edges, calls[c].u)

Started(c) == Reading(c) => calls[c].before \subseteq edges

ClientOK(c) ==
    /\ Quiet(c) /\ Sole(c) /\ AskedOnce(c) /\ Sent(c) /\ Staged(c) /\ Applied(c)
    /\ Started(c) /\ FirstRead(c) /\ SecondRead(c) /\ Bracketed(c)

IInv ==
    /\ TypeOK /\ EdgesKnown /\ ErrorsBlameWorkers
    /\ \A s \in Shards : Orderly(s) /\ \A m \in InFlight(s) : CommandOK(s, m)
    /\ \A c \in Clients : ClientOK(c) /\ Exclusive(c)

-----------------------------------------------------------------------------
(* Channels *)

\* A sequence read as a set of commands.
LEMMA QueueSet ==
    ASSUME NEW q \in Seq(Commands)
    PROVE  /\ Len(q) \in Nat /\ DOMAIN q = 1 .. Len(q)
           /\ ToSet(q) \subseteq Commands
           /\ \A m : m \in ToSet(q) <=> \E i \in DOMAIN q : m = q[i]
  BY DEF ToSet

LEMMA EmptyQueue ==
    /\ <<>> \in Seq(Commands)
    /\ DOMAIN <<>> = {} /\ ToSet(<<>>) = {}
    /\ Len(<<>>) = 0
  BY DEF ToSet

LEMMA AppendQueue ==
    ASSUME NEW q \in Seq(Commands), NEW m \in Commands
    PROVE  /\ Append(q, m) \in Seq(Commands)
           /\ Len(Append(q, m)) = Len(q) + 1
           /\ DOMAIN Append(q, m) = DOMAIN q \cup {Len(q) + 1}
           /\ \A i \in DOMAIN q : i # Len(q) + 1 /\ Append(q, m)[i] = q[i]
           /\ Append(q, m)[Len(q) + 1] = m
           /\ ToSet(Append(q, m)) = ToSet(q) \cup {m}
<1>1. /\ Append(q, m) \in Seq(Commands)
      /\ Len(Append(q, m)) = Len(q) + 1
      /\ \A i \in 1 .. Len(q) : Append(q, m)[i] = q[i]
      /\ Append(q, m)[Len(q) + 1] = m
  BY AppendProperties
<1>2. Len(q) \in Nat /\ DOMAIN q = 1 .. Len(q) /\ DOMAIN Append(q, m) = 1 .. Len(q) + 1
  BY <1>1
<1>3. DOMAIN Append(q, m) = DOMAIN q \cup {Len(q) + 1} /\ \A i \in DOMAIN q : i # Len(q) + 1
  BY <1>2
<1>4. ToSet(Append(q, m)) = ToSet(q) \cup {m}
  BY <1>1, <1>2, <1>3 DEF ToSet
<1> QED
  BY <1>1, <1>2, <1>3, <1>4

LEMMA TailQueue ==
    ASSUME NEW q \in Seq(Commands), q # <<>>
    PROVE  /\ Head(q) \in Commands /\ Head(q) = q[1] /\ 1 \in DOMAIN q
           /\ Tail(q) \in Seq(Commands)
           /\ Len(Tail(q)) = Len(q) - 1
           /\ \A i \in DOMAIN Tail(q) : i + 1 \in DOMAIN q /\ i + 1 # 1 /\ Tail(q)[i] = q[i + 1]
           /\ \A i, j \in DOMAIN Tail(q) : i + 1 = j + 1 => i = j
           /\ ToSet(q) = ToSet(Tail(q)) \cup {Head(q)}
<1>1. /\ Head(q) \in Commands /\ Tail(q) \in Seq(Commands)
      /\ Len(Tail(q)) = Len(q) - 1
      /\ \A i \in 1 .. Len(Tail(q)) : Tail(q)[i] = q[i + 1]
  BY HeadTailProperties
<1>2. Len(q) \in Nat \ {0} /\ DOMAIN q = 1 .. Len(q) /\ DOMAIN Tail(q) = 1 .. Len(q) - 1
  BY <1>1, EmptySeq
<1>3. Head(q) = q[1] /\ 1 \in DOMAIN q
  BY <1>2
<1>4. /\ \A i \in DOMAIN Tail(q) : i + 1 \in DOMAIN q /\ i + 1 # 1 /\ Tail(q)[i] = q[i + 1]
      /\ \A i, j \in DOMAIN Tail(q) : i + 1 = j + 1 => i = j
  BY <1>1, <1>2
<1>5. \A i \in DOMAIN q : i = 1 \/ (i - 1 \in DOMAIN Tail(q) /\ Tail(q)[i - 1] = q[i])
  <2> SUFFICES ASSUME NEW i \in DOMAIN q, i # 1
               PROVE  i - 1 \in DOMAIN Tail(q) /\ Tail(q)[i - 1] = q[i]
    OBVIOUS
  <2>1. i - 1 \in DOMAIN Tail(q) /\ (i - 1) + 1 = i
    BY <1>2
  <2> QED
    BY <2>1, <1>4
<1>6. \A m \in ToSet(q) : m \in ToSet(Tail(q)) \/ m = Head(q)
  BY <1>3, <1>5 DEF ToSet
<1>7. \A m \in ToSet(Tail(q)) : m \in ToSet(q)
  BY <1>4 DEF ToSet
<1>8. Head(q) \in ToSet(q)
  BY <1>3 DEF ToSet
<1>9. ToSet(q) = ToSet(Tail(q)) \cup {Head(q)}
  BY <1>6, <1>7, <1>8
<1> QED
  BY <1>1, <1>3, <1>4, <1>9

LEMMA DisownCommand ==
    ASSUME NEW m \in Commands, NEW c \in Clients
    PROVE  /\ Disown(m, c) \in Commands
           /\ Disown(m, c).from = IF m.from = c THEN Nobody ELSE m.from
           /\ Disown(m, c).kind = m.kind
           /\ Disown(m, c).users = m.users
           /\ Disown(m, c).targets = m.targets
           /\ m.from # c => Disown(m, c) = m
  BY DistributedAssumption DEF Disown, Commands

LEMMA DisownQueue ==
    ASSUME NEW q \in Seq(Commands), NEW c \in Clients,
           NEW r, r = [i \in DOMAIN q |-> Disown(q[i], c)]
    PROVE  /\ r \in Seq(Commands) /\ Len(r) = Len(q) /\ DOMAIN r = DOMAIN q
           /\ \A i \in DOMAIN q : r[i] = Disown(q[i], c)
           /\ ToSet(r) = {Disown(m, c) : m \in ToSet(q)}
<1>1. Len(q) \in Nat /\ DOMAIN q = 1 .. Len(q) /\ \A i \in DOMAIN q : q[i] \in Commands
  OBVIOUS
<1>2. \A i \in 1 .. Len(q) : Disown(q[i], c) \in Commands
  BY <1>1, DisownCommand
<1>3. r \in Seq(Commands)
  BY <1>1, <1>2
<1>4. DOMAIN r = DOMAIN q /\ \A i \in DOMAIN q : r[i] = Disown(q[i], c)
  OBVIOUS
<1>5. Len(r) = Len(q)
  BY <1>1, <1>3, <1>4
<1> QED
  BY <1>3, <1>4, <1>5 DEF ToSet

-----------------------------------------------------------------------------
(* Commands in flight *)

ChannelsOK ==
    /\ queue \in [Shards -> Seq(Commands)]
    /\ busy \in [Shards -> SUBSET Commands]
    /\ \A s \in Shards : Len(queue[s]) <= ChannelCapacity /\ Cardinality(busy[s]) <= 1
    /\ \A s \in Shards : Orderly(s)

\* The command that Send(c, s) puts into the channel of worker s.
Command(c, s) ==
    [from |-> c,
     kind |-> IF calls[c].kind \in {"addUser", "addFollow"} THEN calls[c].kind ELSE "read",
     users |-> Batch(c, s),
     targets |-> IF calls[c].kind = "addFollow" THEN {calls[c].v} ELSE {}]

LEMMA CardinalityOfBusy == Cardinality({}) <= 1 /\ \A m : Cardinality({m}) <= 1
  BY FS_EmptySet, FS_Singleton

LEMMA FlightCommands ==
    ASSUME ChannelsOK
    PROVE  \A s \in Shards : InFlight(s) \subseteq Commands /\ \A c : Flying(c, s) \subseteq InFlight(s)
  BY QueueSet DEF ChannelsOK, InFlight, Flying

LEMMA SameFlight ==
    ASSUME ChannelsOK, UNCHANGED <<queue, busy>>
    PROVE  ChannelsOK' /\ \A s : InFlight(s)' = InFlight(s)
  BY DEF ChannelsOK, Orderly, InFlight

LEMMA CommandType ==
    ASSUME TypeOK, NEW c \in Clients, NEW s \in Shards, Active(c)
    PROVE  Command(c, s) \in Commands
<1>1. calls[c] \in Calls /\ Batch(c, s) \subseteq Users
  BY DEF TypeOK, Active, NoCall, Batch
<1> QED
  BY <1>1 DEF Command, Commands, Calls

LEMMA SendFlight ==
    ASSUME TypeOK, ChannelsOK, NEW c \in Clients, NEW s \in Shards, Send(c, s), Flying(c, s) = {}
    PROVE  /\ ChannelsOK'
           /\ \A t \in Shards : InFlight(t)' = IF t = s THEN InFlight(s) \cup {Command(c, s)}
                                               ELSE InFlight(t)
<1> DEFINE m == Command(c, s)
<1>1. m \in Commands /\ m.from = c /\ c # Nobody
  BY CommandType, DistributedAssumption DEF Send, Command
<1>2. queue' = [queue EXCEPT ![s] = Append(queue[s], m)] /\ busy' = busy
  BY DEF Send, Command
<1>3. Len(queue[s]) < ChannelCapacity
  BY DEF Send, HasRoom
<1>4. /\ \A i \in DOMAIN queue[s] : queue[s][i].from # c
      /\ \A n \in busy[s] : n.from # c
  BY DEF Flying, InFlight, ToSet
<1> HIDE DEF m
<1>5. queue[s] \in Seq(Commands)
  BY DEF ChannelsOK
<1>6. /\ queue'[s] \in Seq(Commands)
      /\ Len(queue'[s]) = Len(queue[s]) + 1
      /\ DOMAIN queue'[s] = DOMAIN queue[s] \cup {Len(queue[s]) + 1}
      /\ \A i \in DOMAIN queue[s] : i # Len(queue[s]) + 1 /\ queue'[s][i] = queue[s][i]
      /\ queue'[s][Len(queue[s]) + 1] = m
      /\ ToSet(queue'[s]) = ToSet(queue[s]) \cup {m}
  <2>1. queue'[s] = Append(queue[s], m)
    BY <1>2 DEF ChannelsOK
  <2> QED
    BY <1>1, <1>5, <2>1, AppendQueue
<1>7. \A t \in Shards \ {s} : queue'[t] = queue[t]
  BY <1>2
<1>8. Orderly(s)'
  <2> SUFFICES ASSUME NEW i \in DOMAIN queue'[s], NEW j \in DOMAIN queue'[s],
                      queue'[s][i].from = queue'[s][j].from, queue'[s][i].from # Nobody
               PROVE  i = j
    BY <1>1, <1>2, <1>4, <1>6 DEF Orderly, ChannelsOK
  <2> QED
    BY <1>1, <1>4, <1>6 DEF Orderly, ChannelsOK
<1>9. Len(queue'[s]) <= ChannelCapacity
  BY <1>3, <1>5, <1>6, QueueSet, DistributedAssumption
<1>10. queue' \in [Shards -> Seq(Commands)]
  BY <1>2, <1>6, <1>7 DEF ChannelsOK
<1>11. ChannelsOK'
  BY <1>2, <1>7, <1>8, <1>9, <1>10 DEF ChannelsOK, Orderly
<1> QED
  BY <1>2, <1>6, <1>7, <1>11 DEF InFlight, m

LEMMA ReceiveFlight ==
    ASSUME ChannelsOK, NEW s \in Shards, WorkerReceive(s)
    PROVE  ChannelsOK' /\ \A t \in Shards : InFlight(t)' = InFlight(t)
<1>1. queue[s] \in Seq(Commands) /\ queue[s] # <<>> /\ busy[s] = {}
  BY DEF ChannelsOK, WorkerReceive
<1>2. queue'[s] = Tail(queue[s]) /\ busy'[s] = {Head(queue[s])}
  BY DEF ChannelsOK, WorkerReceive
<1>3. \A t \in Shards \ {s} : queue'[t] = queue[t] /\ busy'[t] = busy[t]
  BY DEF ChannelsOK, WorkerReceive
<1> DEFINE q == queue[s]
<1>4. /\ Head(q) \in Commands /\ Head(q) = q[1] /\ 1 \in DOMAIN q
      /\ Tail(q) \in Seq(Commands)
      /\ Len(Tail(q)) = Len(q) - 1
      /\ \A i \in DOMAIN Tail(q) : i + 1 \in DOMAIN q /\ i + 1 # 1 /\ Tail(q)[i] = q[i + 1]
      /\ \A i, j \in DOMAIN Tail(q) : i + 1 = j + 1 => i = j
      /\ ToSet(q) = ToSet(Tail(q)) \cup {Head(q)}
  BY <1>1, TailQueue
<1>5. Orderly(s)'
  <2>1. \A i, j \in DOMAIN q : q[i].from = q[j].from /\ q[i].from # Nobody => i = j
    BY DEF ChannelsOK, Orderly
  <2>2. \A i, j \in DOMAIN Tail(q) :
            Tail(q)[i].from = Tail(q)[j].from /\ Tail(q)[i].from # Nobody => i = j
    BY <1>4, <2>1
  <2>3. \A i \in DOMAIN Tail(q) : Head(q).from # Nobody => Tail(q)[i].from # Head(q).from
    BY <1>4, <2>1
  <2> QED
    BY <1>2, <2>2, <2>3 DEF Orderly
<1>6. Len(queue'[s]) <= ChannelCapacity
  BY <1>1, <1>2, <1>4, QueueSet, DistributedAssumption DEF ChannelsOK
<1>7. Cardinality(busy'[s]) <= 1
  BY <1>2, CardinalityOfBusy
<1>8. queue' \in [Shards -> Seq(Commands)] /\ busy' \in [Shards -> SUBSET Commands]
  BY <1>4 DEF ChannelsOK, WorkerReceive
<1>9. ChannelsOK'
  BY <1>3, <1>5, <1>6, <1>7, <1>8 DEF ChannelsOK, Orderly
<1>10. InFlight(s)' = InFlight(s)
  BY <1>1, <1>2, <1>4 DEF InFlight
<1> QED
  BY <1>3, <1>9, <1>10 DEF InFlight

\* A command that was served is gone: its client has no other one at the shard.
LEMMA ServeFlight ==
    ASSUME ChannelsOK, NEW s \in Shards, NEW m \in busy[s],
           queue' = queue, busy' = [busy EXCEPT ![s] = {}]
    PROVE  /\ ChannelsOK'
           /\ m \in InFlight(s)
           /\ \A t \in Shards \ {s} : InFlight(t)' = InFlight(t)
           /\ InFlight(s)' \subseteq InFlight(s) /\ InFlight(s) \subseteq InFlight(s)' \cup {m}
           /\ m.from # Nobody => \A n \in InFlight(s)' : n.from # m.from
<1>1. busy[s] = {m}
  BY DEF ChannelsOK, Orderly
<1>2. busy'[s] = {} /\ \A t \in Shards \ {s} : busy'[t] = busy[t]
  BY DEF ChannelsOK
<1>3. Cardinality(busy'[s]) <= 1
  BY <1>2, CardinalityOfBusy
<1>4. ChannelsOK'
  BY <1>2, <1>3 DEF ChannelsOK, Orderly
<1>5. m.from # Nobody => \A n \in ToSet(queue[s]) : n.from # m.from
  BY DEF ChannelsOK, Orderly, ToSet
<1> QED
  BY <1>1, <1>2, <1>4, <1>5 DEF InFlight

LEMMA StopFlight ==
    ASSUME ChannelsOK, NEW s \in Shards, WorkerStop(s)
    PROVE  ChannelsOK' /\ \A t \in Shards : InFlight(t)' = IF t = s THEN {} ELSE InFlight(t)
<1>1. queue'[s] = <<>> /\ busy'[s] = {}
  BY DEF ChannelsOK, WorkerStop
<1>2. \A t \in Shards \ {s} : queue'[t] = queue[t] /\ busy'[t] = busy[t]
  BY DEF ChannelsOK, WorkerStop
<1>3. Orderly(s)'
  BY <1>1, EmptyQueue DEF Orderly
<1>4. Len(queue'[s]) <= ChannelCapacity /\ Cardinality(busy'[s]) <= 1
  <2>1. Len(<<>>) <= ChannelCapacity
    BY EmptyQueue, DistributedAssumption
  <2> QED
    BY <1>1, <2>1, CardinalityOfBusy
<1>5. queue' \in [Shards -> Seq(Commands)] /\ busy' \in [Shards -> SUBSET Commands]
  BY EmptyQueue DEF ChannelsOK, WorkerStop
<1>6. ChannelsOK'
  BY <1>2, <1>3, <1>4, <1>5 DEF ChannelsOK, Orderly
<1> QED
  BY <1>1, <1>2, <1>6, EmptyQueue DEF InFlight

LEMMA AbandonFlight ==
    ASSUME ChannelsOK, NEW c \in Clients, Abandon(c)
    PROVE  ChannelsOK' /\ \A s \in Shards : InFlight(s)' = {Disown(m, c) : m \in InFlight(s)}
<1>1. ASSUME NEW s \in Shards
      PROVE  /\ queue'[s] \in Seq(Commands) /\ Len(queue'[s]) = Len(queue[s])
             /\ DOMAIN queue'[s] = DOMAIN queue[s]
             /\ \A i \in DOMAIN queue[s] : /\ queue[s][i] \in Commands
                                           /\ queue'[s][i] = Disown(queue[s][i], c)
             /\ ToSet(queue'[s]) = {Disown(m, c) : m \in ToSet(queue[s])}
  <2>1. queue[s] \in Seq(Commands)
    BY DEF ChannelsOK
  <2>2. queue'[s] = [i \in DOMAIN queue[s] |-> Disown(queue[s][i], c)]
    BY DEF Abandon
  <2> HIDE DEF ToSet
  <2> QED
    BY <2>1, <2>2, DisownQueue
<1>2. ASSUME NEW s \in Shards
      PROVE  /\ busy'[s] = {Disown(m, c) : m \in busy[s]}
             /\ busy'[s] \subseteq Commands
             /\ \A m \in busy[s] : m \in Commands
             /\ \A m, n \in busy[s] : m = n
  BY DisownCommand DEF Abandon, ChannelsOK, Orderly
<1>3. ASSUME NEW s \in Shards
      PROVE  Orderly(s)'
  <2>1. /\ \A i, j \in DOMAIN queue[s] :
               queue[s][i].from = queue[s][j].from /\ queue[s][i].from # Nobody => i = j
        /\ \A m \in busy[s], i \in DOMAIN queue[s] :
               m.from # Nobody => queue[s][i].from # m.from
    BY DEF ChannelsOK, Orderly
  <2>2. \A m, n \in busy'[s] : m = n
    BY <1>2
  <2>3. \A i, j \in DOMAIN queue'[s] :
            queue'[s][i].from = queue'[s][j].from /\ queue'[s][i].from # Nobody => i = j
    BY <1>1, <2>1, DisownCommand
  <2>4. \A m \in busy'[s], i \in DOMAIN queue'[s] :
            m.from # Nobody => queue'[s][i].from # m.from
    BY <1>1, <1>2, <2>1, DisownCommand
  <2> QED
    BY <2>2, <2>3, <2>4 DEF Orderly
<1>4. ASSUME NEW s \in Shards
      PROVE  Cardinality(busy'[s]) <= 1
  <2>1. CASE busy[s] = {}
    BY <1>2, <2>1, CardinalityOfBusy
  <2>2. ASSUME NEW m \in busy[s]
        PROVE  Cardinality(busy'[s]) <= 1
    <3>1. busy'[s] = {Disown(m, c)}
      BY <1>2
    <3> QED
      BY <3>1, CardinalityOfBusy
  <2> QED
    BY <2>1, <2>2
<1>5. queue' \in [Shards -> Seq(Commands)] /\ busy' \in [Shards -> SUBSET Commands]
  BY <1>1, <1>2 DEF Abandon
<1>6. ChannelsOK'
  BY <1>1, <1>3, <1>4, <1>5 DEF ChannelsOK
<1>7. ASSUME NEW s \in Shards
      PROVE  InFlight(s)' = {Disown(m, c) : m \in InFlight(s)}
  <2>1. \A n \in ToSet(queue'[s]) \cup busy'[s] :
            \E m \in ToSet(queue[s]) \cup busy[s] : n = Disown(m, c)
    BY <1>1, <1>2
  <2>2. \A m \in ToSet(queue[s]) \cup busy[s] :
            Disown(m, c) \in ToSet(queue'[s]) \cup busy'[s]
    BY <1>1, <1>2
  <2> QED
    BY <2>1, <2>2 DEF InFlight
<1> QED
  BY <1>6, <1>7

-----------------------------------------------------------------------------
(* What one client has under way is not disturbed by the steps of others *)

LEMMA ReadsGrow ==
    ASSUME NEW E, NEW F, E \subseteq F, NEW k, NEW u
    PROVE  Followed(E, u) \subseteq Followed(F, u) /\ Reads(k, E, u) \subseteq Reads(k, F, u)
<1>1. \A x : Followed(E, x) \subseteq Followed(F, x)
  BY DEF Followed
<1>2. UNION {Followed(E, v) : v \in Followed(E, u)} \subseteq UNION {Followed(F, v) : v \in Followed(F, u)}
  BY <1>1
<1> QED
  BY <1>1, <1>2 DEF Reads

\* Users, edges and what workers store are never taken away.
Grows ==
    /\ known \subseteq known'
    /\ edges \subseteq edges'
    /\ \A s \in Shards : stored[s] \subseteq stored'[s]

Undisturbed(c) ==
    /\ calls'[c] = calls[c] /\ ask'[c] = ask[c] /\ replies'[c] = replies[c]
    /\ \A s \in Shards : Flying(c, s)' = Flying(c, s)

LEMMA Frame ==
    ASSUME TypeOK, NEW c \in Clients, ClientOK(c), Grows, Undisturbed(c)
    PROVE  ClientOK(c)'
<1> USE DEF Undisturbed
<1>1. Active(c)' = Active(c) /\ Reading(c)' = Reading(c) /\ Fanned(c)' = Fanned(c)
  BY DEF Active, Reading, Fanned
<1>2. \A s \in Shards : Batch(c, s)' = Batch(c, s)
  BY DEF Batch
<1>3. Quiet(c)'
  BY <1>1 DEF ClientOK, Quiet
<1>4. Sole(c)'
  BY <1>1 DEF ClientOK, Sole
<1>5. AskedOnce(c)' /\ Sent(c)'
  BY <1>2 DEF ClientOK, AskedOnce, Sent
<1>6. Staged(c)'
  BY <1>1 DEF ClientOK, Staged, Grows
<1>7. Applied(c)'
  <2> SUFFICES ASSUME NEW r \in replies[c], r.ok
               PROVE  /\ calls[c].kind = "addUser" => calls[c].u \in stored'[Home[calls[c].u]]
                      /\ calls[c].kind = "addFollow" => <<calls[c].u, calls[c].v>> \in edges'
    BY DEF Applied
  <2>1. calls[c].kind = "addUser" => Home[calls[c].u] \in Shards
    BY DistributedAssumption DEF TypeOK, NoCall, Calls
  <2> QED
    BY <2>1 DEF ClientOK, Applied, Grows
<1>8. Started(c)'
  BY <1>1 DEF ClientOK, Started, Grows
<1>9. FirstRead(c)'
  <2>1. Followed(edges, calls[c].u) \subseteq Followed(edges', calls[c].u)
    BY ReadsGrow DEF Grows
  <2> QED
    BY <1>1, <2>1 DEF ClientOK, FirstRead
<1>10. SecondRead(c)'
  <2> SUFFICES ASSUME Reading(c), calls[c].stage = "second"
               PROVE  SecondRead(c)'
    BY <1>1 DEF SecondRead
  <2>1. /\ \A x : Followed(edges, x) \subseteq Followed(edges', x)
        /\ Reads(calls[c].kind, edges, calls[c].u) \subseteq Reads(calls[c].kind, edges', calls[c].u)
    BY ReadsGrow DEF Grows
  <2> DEFINE hops == Followed(edges, calls[c].u)
             later == Followed(edges', calls[c].u)
  <2>2. UNION {Followed(edges, x) : x \in hops} \subseteq UNION {Followed(edges', x) : x \in later}
    BY <2>1
  <2>3. \A x : Covered(c, x) => Covered(c, x)'
    BY DEF Covered
  <2>4. \A r \in replies[c] : r.ids \subseteq UNION {Followed(edges, x) : x \in hops}
    BY DEF ClientOK, SecondRead
  <2>5. \A r \in replies[c] : r.ids \subseteq UNION {Followed(edges', x) : x \in later}
    <3> HIDE DEF hops, later
    <3> QED
      BY <2>2, <2>4
  <2>6. /\ calls[c].hops \subseteq hops /\ ask[c] \subseteq hops
        /\ \A s \in Shards : \A m \in Flying(c, s) : m.users \subseteq hops
        /\ calls[c].ids \subseteq Reads(calls[c].kind, edges, calls[c].u)
        /\ \A x \in Followed(calls[c].before, calls[c].u) : Covered(c, x)
    BY DEF ClientOK, SecondRead
  <2> QED
    BY <2>1, <2>3, <2>5, <2>6 DEF SecondRead
<1>11. Bracketed(c)'
  <2>1. Reads(calls[c].kind, edges, calls[c].u) \subseteq Reads(calls[c].kind, edges', calls[c].u)
    BY ReadsGrow DEF Grows
  <2> QED
    BY <1>1, <2>1 DEF ClientOK, Bracketed
<1> QED
  BY <1>3, <1>4, <1>5, <1>6, <1>7, <1>8, <1>9, <1>10, <1>11 DEF ClientOK

\* What a mutating step has to show of commands and of the other clients.
LEMMA CommandsKept ==
    ASSUME Grows, NEW s, NEW m, CommandOK(s, m)
    PROVE  CommandOK(s, m)'
  BY DEF CommandOK, Grows

\* What IInv says of the channels, and of a client.
LEMMA ChannelFacts == IInv <=> /\ TypeOK /\ EdgesKnown /\ ErrorsBlameWorkers /\ ChannelsOK
                               /\ \A s \in Shards : \A m \in InFlight(s) : CommandOK(s, m)
                               /\ \A c \in Clients : ClientOK(c) /\ Exclusive(c)
  BY DEF IInv, ChannelsOK, TypeOK

LEMMA CallFacts ==
    ASSUME IInv, NEW c \in Clients
    PROVE  /\ calls[c].kind # "none" => calls[c] \in Calls
           /\ calls[c].kind = "none" <=> calls[c] = NoCall
           /\ Active(c) => calls[c] \in Calls
  BY DEF IInv, TypeOK, Calls, NoCall, Active

\* The commands of a client are in flight, and those in flight have a client
\* whose call is under way.
LEMMA FlyingFacts ==
    ASSUME IInv, NEW c \in Clients, NEW s \in Shards, NEW m \in InFlight(s), m.from = c
    PROVE  Active(c) /\ m \in Flying(c, s)
  BY DEF IInv, ClientOK, Quiet, Flying

-----------------------------------------------------------------------------
(* Every step keeps the invariant *)

LEMMA StartStep ==
    ASSUME IInv, NEW c \in Clients, NEW u \in Users, NEW v \in Users,
           NEW k \in {"addUser", "addFollow", "getFollowing", "twoHop", "batched"},
           Start(c, k, u, v),
           k = "addUser" => u \notin known /\ \A d \in Clients : calls[d] = NoCall,
           k # "addUser" => {u, v} \subseteq known
    PROVE  IInv'
<1> USE DEF IInv
<1>1. ChannelsOK' /\ \A s : InFlight(s)' = InFlight(s)
  BY ChannelFacts, SameFlight DEF Start
<1>2. /\ calls'[c] = NewCall(k, u, v) /\ ask'[c] = {u} /\ replies'[c] = {}
      /\ \A s \in Shards : Flying(c, s)' = {}
  <2>1. ~Active(c) /\ ClientOK(c)
    BY DEF Start, NoCall, Active
  <2> QED
    BY <1>1, <2>1 DEF Start, TypeOK, ClientOK, Quiet, Flying
<1>3. Grows /\ \A d \in Clients \ {c} : Undisturbed(d)
  BY <1>1 DEF Grows, Start, Undisturbed, Flying, TypeOK
<1>4. NewCall(k, u, v) \in Calls
  BY DEF NewCall, Calls, Before, TypeOK
<1>5. TypeOK'
  BY <1>1, <1>4 DEF TypeOK, ChannelsOK, Start
<1>6. ClientOK(c)'
  <2>1. Active(c)' /\ ~Fanned(c)'
    BY <1>2 DEF Active, NewCall, Fanned
  <2>2. Quiet(c)' /\ Sole(c)' /\ AskedOnce(c)' /\ Sent(c)' /\ Applied(c)'
    BY <1>2, <2>1 DEF Quiet, Sole, AskedOnce, Sent, Applied
  <2>3. Staged(c)'
    BY <1>2, <2>1 DEF Staged, NewCall, Start
  <2>4. Started(c)' /\ FirstRead(c)' /\ SecondRead(c)' /\ Bracketed(c)'
    BY <1>2 DEF Started, FirstRead, SecondRead, Bracketed, NewCall, Reading, Before, Start
  <2> QED
    BY <2>2, <2>3, <2>4 DEF ClientOK
<1>7. \A d \in Clients : ClientOK(d)'
  BY <1>3, <1>6, Frame
<1>8. \A d \in Clients : Exclusive(d)'
  <2>1. \A d \in Clients \ {c} : calls[d].kind # "addUser" /\ calls'[d] = calls[d]
    BY <1>3 DEF Start, Undisturbed
  <2>2. Exclusive(c)'
    BY <1>2, <2>1 DEF Exclusive, NewCall, Start
  <2> QED
    BY <2>1, <2>2 DEF Exclusive
<1>9. EdgesKnown' /\ \A s \in Shards : \A m \in InFlight(s)' : CommandOK(s, m)'
  BY <1>1, <1>3, CommandsKept DEF EdgesKnown, Start
<1>10. ErrorsBlameWorkers'
  BY <1>2, <1>3 DEF ErrorsBlameWorkers, Undisturbed, Start
<1> QED
  BY <1>1, <1>5, <1>7, <1>8, <1>9, <1>10 DEF ChannelsOK

LEMMA SendStep ==
    ASSUME IInv, NEW c \in Clients, NEW s \in Shards, Send(c, s)
    PROVE  IInv'
<1> USE DEF IInv
<1> DEFINE old == calls[c]
<1>0. PICK m : m = Command(c, s)
  OBVIOUS
<1>1. Active(c) /\ old \in Calls /\ Batch(c, s) # {} /\ Batch(c, s) \subseteq ask[c]
  BY CallFacts DEF Send, Batch
<1>2. Flying(c, s) = {} /\ ChannelsOK /\ ClientOK(c) /\ c # Nobody
  BY <1>1, ChannelFacts, DistributedAssumption DEF ClientOK, AskedOnce
<1>3. /\ ChannelsOK'
      /\ \A t \in Shards : InFlight(t)' = IF t = s THEN InFlight(s) \cup {m} ELSE InFlight(t)
  BY <1>0, <1>2, SendFlight
<1>4. /\ calls' = calls /\ ask'[c] = ask[c] \ Batch(c, s) /\ replies' = replies
      /\ known' = known /\ edges' = edges /\ stored' = stored /\ alive' = alive
      /\ \A d \in Clients \ {c} : ask'[d] = ask[d]
  BY DEF Send, TypeOK
<1>5. /\ m.from = c /\ m.users = Batch(c, s)
      /\ m.kind = IF old.kind \in {"addUser", "addFollow"} THEN old.kind ELSE "read"
      /\ old.kind = "addFollow" => m.targets = {old.v}
  BY <1>0 DEF Command
<1>6. /\ Flying(c, s)' = {m}
      /\ \A t \in Shards \ {s} : Flying(c, t)' = Flying(c, t)
  BY <1>2, <1>3, <1>5 DEF Flying
<1>7. Grows /\ \A d \in Clients \ {c} : Undisturbed(d)
  BY <1>3, <1>4, <1>5 DEF Grows, Undisturbed, Flying
<1>8. TypeOK'
  <2>1. ask' \in [Clients -> SUBSET Users]
    BY DEF TypeOK, Send
  <2> QED
    BY <1>3, <1>4, <2>1 DEF TypeOK, ChannelsOK
<1>9. \A u \in m.users : Home[u] = s
  BY <1>5 DEF Batch
<1>10. ClientOK(c)'
  <2>1. Active(c)' /\ Fanned(c)' = Fanned(c) /\ Reading(c)' = Reading(c)
    BY <1>1, <1>4 DEF Active, Fanned, Reading
  <2>2. Quiet(c)'
    BY <2>1 DEF Quiet
  <2>3. Sole(c)'
    <3> SUFFICES ASSUME ~Fanned(c)
                 PROVE  Sole(c)'
      BY <2>1 DEF Sole
    <3>1. ask'[c] = {} /\ replies'[c] = {} /\ \A t \in Shards : Flying(c, t) = {}
      BY <1>1, <1>2, <1>4 DEF ClientOK, Sole
    <3> QED
      BY <3>1, <1>6 DEF Sole
  <2>4. AskedOnce(c)'
    <3>1. Batch(c, s)' = {}
      BY <1>4 DEF Batch
    <3>2. \A t \in Shards \ {s} : Batch(c, t)' \subseteq Batch(c, t)
      BY <1>4 DEF Batch
    <3> QED
      BY <1>2, <1>6, <3>1, <3>2 DEF ClientOK, AskedOnce
  <2>5. Sent(c)'
    BY <1>2, <1>4, <1>5, <1>6 DEF ClientOK, Sent
  <2>6. Staged(c)'
    <3>1. old.stage = "first" => m.users = {old.u}
      BY <1>1, <1>2, <1>5 DEF ClientOK, Staged
    <3> QED
      BY <1>1, <1>2, <1>4, <1>6, <3>1 DEF ClientOK, Staged
  <2>7. Applied(c)' /\ Started(c)' /\ FirstRead(c)' /\ Bracketed(c)'
    BY <1>2, <1>4, <2>1 DEF ClientOK, Applied, Started, FirstRead, Bracketed
  <2>8. SecondRead(c)'
    <3> SUFFICES ASSUME Reading(c), old.stage = "second"
                 PROVE  SecondRead(c)'
      BY <1>4, <2>1 DEF SecondRead
    <3>1. m.users \subseteq ask[c] /\ \A x \in ask[c] : x \in ask'[c] \/ x \in m.users
      BY <1>1, <1>4, <1>5
    <3>2. \A x : Covered(c, x) => Covered(c, x)'
      BY <1>4, <1>6, <1>2, <3>1 DEF Covered
    <3>3. SecondRead(c)
      BY <1>2 DEF ClientOK
    <3> QED
      BY <1>4, <1>6, <3>1, <3>2, <3>3 DEF SecondRead
  <2> QED
    BY <2>2, <2>3, <2>4, <2>5, <2>6, <2>7, <2>8 DEF ClientOK
<1>11. \A d \in Clients : ClientOK(d)'
  BY <1>7, <1>10, Frame
<1>12. CommandOK(s, m)'
  <2>1. m.kind = "addFollow" => /\ m.users = {old.u} /\ m.targets = {old.v}
                                /\ {old.u, old.v} \subseteq known
    BY <1>1, <1>2, <1>5 DEF ClientOK, Staged, Active
  <2> QED
    BY <1>4, <1>9, <2>1 DEF CommandOK
<1>13. \A t \in Shards : \A n \in InFlight(t)' : CommandOK(t, n)'
  BY <1>3, <1>7, <1>12, CommandsKept
<1>14. EdgesKnown' /\ ErrorsBlameWorkers' /\ \A d \in Clients : Exclusive(d)'
  BY <1>4 DEF EdgesKnown, ErrorsBlameWorkers, Exclusive, Active
<1> QED
  BY <1>3, <1>8, <1>11, <1>13, <1>14 DEF ChannelsOK

LEMMA SendFailsStep ==
    ASSUME IInv, NEW c \in Clients, NEW s \in Shards, SendFails(c, s)
    PROVE  IInv'
<1> USE DEF IInv
<1> DEFINE old == calls[c]
<1>1. Active(c) /\ old \in Calls /\ Batch(c, s) # {} /\ Batch(c, s) \subseteq ask[c] /\ ClientOK(c)
  BY CallFacts DEF SendFails, Batch
<1>2. ChannelsOK' /\ \A t : InFlight(t)' = InFlight(t) /\ Flying(c, t)' = Flying(c, t)
  BY ChannelFacts, SameFlight DEF SendFails, Flying
<1>3. /\ calls' = calls /\ ask'[c] = ask[c] \ Batch(c, s) /\ replies'[c] = replies[c] \cup {Lost(s)}
      /\ known' = known /\ edges' = edges /\ stored' = stored /\ alive' = alive
      /\ \A d \in Clients \ {c} : ask'[d] = ask[d] /\ replies'[d] = replies[d]
  BY DEF SendFails, TypeOK
<1>4. Grows /\ \A d \in Clients \ {c} : Undisturbed(d)
  BY <1>2, <1>3 DEF Grows, Undisturbed, Flying
<1>5. Lost(s) \in Replies /\ ~Lost(s).ok /\ Lost(s).ids = {} /\ Lost(s).shard = s
  BY DEF Lost, Replies
<1>6. TypeOK'
  <2>1. ask' \in [Clients -> SUBSET Users] /\ replies' \in [Clients -> SUBSET Replies]
    BY <1>5 DEF TypeOK, SendFails
  <2> QED
    BY <1>2, <1>3, <2>1 DEF TypeOK, ChannelsOK
<1>7. ClientOK(c)'
  <2>1. Active(c)' /\ Fanned(c)' = Fanned(c) /\ Reading(c)' = Reading(c)
    BY <1>1, <1>3 DEF Active, Fanned, Reading
  <2>2. Quiet(c)'
    BY <2>1 DEF Quiet
  <2>3. Sole(c)'
    <3> SUFFICES ASSUME ~Fanned(c)
                 PROVE  Sole(c)'
      BY <2>1 DEF Sole
    <3>1. ask'[c] = {} /\ replies'[c] = {Lost(s)} /\ \A t \in Shards : Flying(c, t) = {}
      BY <1>1, <1>3 DEF ClientOK, Sole
    <3> QED
      BY <3>1, <1>2 DEF Sole
  <2>4. AskedOnce(c)' /\ Sent(c)'
    <3>1. \A t \in Shards : Batch(c, t)' \subseteq Batch(c, t)
      BY <1>3 DEF Batch
    <3> QED
      BY <1>1, <1>2, <1>3, <3>1 DEF ClientOK, AskedOnce, Sent
  <2>5. Staged(c)'
    BY <1>1, <1>2, <1>3 DEF ClientOK, Staged
  <2>6. Applied(c)' /\ Started(c)' /\ FirstRead(c)' /\ Bracketed(c)'
    BY <1>1, <1>3, <1>5, <2>1 DEF ClientOK, Applied, Started, FirstRead, Bracketed
  <2>7. SecondRead(c)'
    <3> SUFFICES ASSUME Reading(c), old.stage = "second"
                 PROVE  SecondRead(c)'
      BY <1>3, <2>1 DEF SecondRead
    <3>1. \A x : Covered(c, x) => Covered(c, x)'
      BY <1>2, <1>3, <1>5 DEF Covered
    <3>2. SecondRead(c)
      BY <1>1 DEF ClientOK
    <3> QED
      BY <1>2, <1>3, <1>5, <3>1, <3>2 DEF SecondRead
  <2> QED
    BY <2>2, <2>3, <2>4, <2>5, <2>6, <2>7 DEF ClientOK
<1>8. \A d \in Clients : ClientOK(d)'
  BY <1>4, <1>7, Frame
<1>9. \A t \in Shards : \A n \in InFlight(t)' : CommandOK(t, n)'
  BY <1>2, <1>4, CommandsKept
<1>10. ErrorsBlameWorkers'
  BY <1>3, <1>5 DEF ErrorsBlameWorkers, SendFails
<1>11. EdgesKnown' /\ \A d \in Clients : Exclusive(d)'
  BY <1>3 DEF EdgesKnown, Exclusive, Active
<1> QED
  BY <1>2, <1>6, <1>8, <1>9, <1>10, <1>11 DEF ChannelsOK

LEMMA ReceiveStep ==
    ASSUME IInv, NEW s \in Shards, WorkerReceive(s)
    PROVE  IInv'
<1> USE DEF IInv
<1>1. ChannelsOK' /\ \A t \in Shards : InFlight(t)' = InFlight(t)
  BY ChannelFacts, ReceiveFlight
<1>2. UNCHANGED <<known, stored, edges, alive, calls, ask, replies>>
  BY DEF WorkerReceive
<1>3. Grows /\ \A c \in Clients : Undisturbed(c)
  BY <1>1, <1>2 DEF Grows, Undisturbed, Flying
<1>4. \A c \in Clients : ClientOK(c)'
  BY <1>3, Frame
<1>5. \A t \in Shards : \A n \in InFlight(t)' : CommandOK(t, n)'
  BY <1>1, <1>3, CommandsKept
<1>6. TypeOK' /\ EdgesKnown' /\ ErrorsBlameWorkers' /\ \A c \in Clients : Exclusive(c)'
  BY <1>1, <1>2 DEF TypeOK, ChannelsOK, EdgesKnown, ErrorsBlameWorkers, Exclusive, Active
<1> QED
  BY <1>1, <1>4, <1>5, <1>6 DEF ChannelsOK

\* What the reply to command m has to say to client c, if it waits for it.
Answers(c, s, m, ok, ids) ==
    /\ ~ok => calls[c].kind = "addUser" /\ calls[c].u \in stored'[s]
    /\ ok /\ calls[c].kind = "addUser" => calls[c].u \in stored'[Home[calls[c].u]]
    /\ ok /\ calls[c].kind = "addFollow" => <<calls[c].u, calls[c].v>> \in edges'
    /\ Reading(c) => /\ ok /\ edges' = edges
                     /\ ids = UNION {Followed(edges, u) : u \in m.users}

LEMMA ReplyStep ==
    ASSUME IInv, NEW s \in Shards, NEW m \in busy[s],
           NEW ok \in BOOLEAN, NEW ids \in SUBSET Users, Reply(s, m, ok, ids),
           stored' \in [Shards -> SUBSET Users], edges' \subseteq Users \X Users, EdgesKnown', Grows,
           \A c \in Clients : m.from = c => Answers(c, s, m, ok, ids)
    PROVE  IInv'
<1> USE DEF IInv
<1>1. ChannelsOK /\ queue' = queue /\ busy' = [busy EXCEPT ![s] = {}]
      /\ UNCHANGED <<known, alive, calls, ask>>
  BY ChannelFacts DEF Reply
<1>2. /\ ChannelsOK' /\ m \in InFlight(s) /\ m \in Commands
      /\ \A t \in Shards \ {s} : InFlight(t)' = InFlight(t)
      /\ InFlight(s)' \subseteq InFlight(s) /\ InFlight(s) \subseteq InFlight(s)' \cup {m}
      /\ m.from # Nobody => \A n \in InFlight(s)' : n.from # m.from
  BY <1>1, ServeFlight DEF TypeOK
<1>3. PICK r \in Replies : r = [shard |-> s, ok |-> ok, ids |-> ids]
  BY DEF Replies
<1>4. replies' = IF m.from = Nobody THEN replies ELSE [replies EXCEPT ![m.from] = @ \cup {r}]
  BY <1>3 DEF Reply
<1>5. \A d \in Clients : m.from # d => Undisturbed(d)
  <2> SUFFICES ASSUME NEW d \in Clients, m.from # d
               PROVE  Undisturbed(d)
    OBVIOUS
  <2>1. \A t \in Shards : Flying(d, t)' = Flying(d, t)
    BY <1>2 DEF Flying
  <2>2. replies'[d] = replies[d]
    BY <1>4 DEF TypeOK
  <2> QED
    BY <1>1, <2>1, <2>2 DEF Undisturbed
<1>6. TypeOK'
  <2>1. m.from \in Clients \cup {Nobody}
    BY <1>2 DEF Commands
  <2>2. replies' \in [Clients -> SUBSET Replies]
    BY <1>4, <2>1 DEF TypeOK
  <2> QED
    BY <1>1, <1>2, <2>2 DEF TypeOK, ChannelsOK
<1>7. ASSUME NEW c \in Clients, m.from = c
      PROVE  /\ ClientOK(c)'
             /\ \A q \in replies'[c] : ~q.ok =>
                    \/ q.shard \notin alive'
                    \/ calls'[c].kind = "addUser" /\ calls'[c].u \in stored'[q.shard] \ known'
  <2> DEFINE call == calls[c]
  <2>1. /\ ~ok => call.kind = "addUser" /\ call.u \in stored'[s]
        /\ ok /\ call.kind = "addUser" => call.u \in stored'[Home[call.u]]
        /\ ok /\ call.kind = "addFollow" => <<call.u, call.v>> \in edges'
        /\ Reading(c) => /\ ok /\ edges' = edges
                         /\ ids = UNION {Followed(edges, u) : u \in m.users}
    BY <1>7 DEF Answers
  <2>2. Active(c) /\ call \in Calls /\ m \in Flying(c, s) /\ ClientOK(c) /\ c # Nobody
    BY <1>2, <1>7, FlyingFacts, CallFacts, DistributedAssumption
  <2>3. /\ replies'[c] = replies[c] \cup {r}
        /\ Flying(c, s)' = {} /\ \A t \in Shards \ {s} : Flying(c, t)' = Flying(c, t)
        /\ \A n \in Flying(c, s) : n = m
    BY <1>2, <1>4, <1>7, <2>2 DEF TypeOK, Flying
  <2>4. Active(c)' = Active(c) /\ Fanned(c)' = Fanned(c) /\ Reading(c)' = Reading(c)
    BY <1>1 DEF Active, Fanned, Reading
  <2>5. Quiet(c)'
    BY <2>2, <2>4 DEF Quiet
  <2>6. Sole(c)'
    <3> SUFFICES ASSUME ~Fanned(c)
                 PROVE  Sole(c)'
      BY <2>4 DEF Sole
    <3>1. ask[c] = {} /\ replies[c] = {} /\ \A t \in Shards : Flying(c, t) # {} => s = t
      BY <2>2 DEF ClientOK, Sole
    <3>2. ask'[c] = {} /\ replies'[c] = {r} /\ \A t \in Shards : Flying(c, t)' = {}
      BY <1>1, <2>3, <3>1
    <3> QED
      BY <3>2 DEF Sole
  <2>7. AskedOnce(c)' /\ Sent(c)'
    BY <1>1, <2>2, <2>3 DEF ClientOK, AskedOnce, Sent, Batch
  <2>8. Staged(c)'
    BY <1>1, <2>2, <2>3, <2>4 DEF ClientOK, Staged
  <2>9. Applied(c)'
    <3>1. call.kind = "addUser" => Home[call.u] \in Shards
      BY <2>2, DistributedAssumption DEF Calls
    <3> QED
      BY <1>1, <1>3, <2>1, <2>2, <2>3, <3>1 DEF ClientOK, Applied, Grows
  <2>10. Started(c)'
    BY <1>1, <2>2, <2>4 DEF ClientOK, Started, Grows
  <2>11. FirstRead(c)'
    <3> SUFFICES ASSUME Reading(c), call.stage = "first"
                 PROVE  FirstRead(c)'
      BY <1>1, <2>4 DEF FirstRead
    <3>1. m.users = {call.u} /\ call.before \subseteq edges
      BY <2>2 DEF ClientOK, Staged, Started
    <3>2. ids = Followed(edges, call.u)
      <4>1. UNION {Followed(edges, u) : u \in {call.u}} = Followed(edges, call.u)
        OBVIOUS
      <4> QED
        BY <2>1, <3>1, <4>1
    <3>3. Followed(call.before, call.u) \subseteq ids
      BY <3>1, <3>2, ReadsGrow
    <3>4. r.ids = ids /\ edges' = edges
      BY <1>3, <2>1
    <3>5. FirstRead(c)
      BY <2>2 DEF ClientOK
    <3> QED
      BY <1>1, <2>3, <3>2, <3>3, <3>4, <3>5 DEF FirstRead
  <2>12. SecondRead(c)'
    <3> SUFFICES ASSUME Reading(c), call.stage = "second"
                 PROVE  SecondRead(c)'
      BY <1>1, <2>4 DEF SecondRead
    <3>1. SecondRead(c) /\ call.before \subseteq edges
      BY <2>2 DEF ClientOK, Started
    <3>2. r.ids = UNION {Followed(edges, u) : u \in m.users}
      BY <1>3, <2>1
    <3>3. \A x \in m.users : Followed(call.before, x) \subseteq r.ids
      <4>1. \A x : Followed(call.before, x) \subseteq Followed(edges, x)
        BY <3>1, ReadsGrow
      <4> QED
        BY <3>2, <4>1
    <3>4. \A x : Covered(c, x) => Covered(c, x)'
      BY <1>1, <2>3, <3>3 DEF Covered
    <3>5. r.ids \subseteq UNION {Followed(edges, x) : x \in Followed(edges, call.u)}
      <4>1. m.users \subseteq Followed(edges, call.u)
        BY <2>2, <3>1 DEF SecondRead
      <4> QED
        BY <3>2, <4>1
    <3> QED
      BY <1>1, <2>1, <2>3, <3>1, <3>4, <3>5 DEF SecondRead
  <2>13. Bracketed(c)'
    BY <1>1, <2>2, <2>4 DEF Bracketed, Active
  <2>14. ASSUME NEW q \in replies'[c], ~q.ok
         PROVE  \/ q.shard \notin alive'
                \/ calls'[c].kind = "addUser" /\ calls'[c].u \in stored'[q.shard] \ known'
    <3>1. CASE q = r
      <4>1. call.kind = "addUser" /\ call.u \in stored'[s] /\ q.shard = s
        BY <1>3, <2>1, <2>14, <3>1
      <4>2. call.u \notin known
        BY <2>2, <4>1 DEF Exclusive
      <4> QED
        BY <1>1, <4>1, <4>2
    <3>2. CASE q \in replies[c]
      <4>1. q.shard \in Shards
        BY <3>2 DEF TypeOK, Replies
      <4> QED
        BY <1>1, <2>14, <3>2, <4>1 DEF ErrorsBlameWorkers, Grows
    <3> QED
      BY <2>3, <3>1, <3>2
  <2> QED
    BY <2>5, <2>6, <2>7, <2>8, <2>9, <2>10, <2>11, <2>12, <2>13, <2>14 DEF ClientOK
<1>8. \A c \in Clients : ClientOK(c)'
  BY <1>5, <1>7, Frame
<1>9. ErrorsBlameWorkers'
  <2> SUFFICES ASSUME NEW c \in Clients, NEW q \in replies'[c], ~q.ok
               PROVE  \/ q.shard \notin alive'
                      \/ calls'[c].kind = "addUser" /\ calls'[c].u \in stored'[q.shard] \ known'
    BY DEF ErrorsBlameWorkers
  <2>1. CASE m.from # c
    <3>1. q \in replies[c] /\ q.shard \in Shards
      BY <1>5, <2>1 DEF Undisturbed, TypeOK, Replies
    <3> QED
      BY <1>1, <3>1 DEF ErrorsBlameWorkers, Grows
  <2> QED
    BY <1>7, <2>1
<1>10. \A t \in Shards : \A n \in InFlight(t)' : CommandOK(t, n)'
  BY <1>2, CommandsKept
<1>11. \A c \in Clients : Exclusive(c)'
  BY <1>1 DEF Exclusive, Active
<1> QED
  BY <1>2, <1>6, <1>8, <1>9, <1>10, <1>11 DEF ChannelsOK

LEMMA ServeAddUserStep ==
    ASSUME IInv, NEW s \in Shards, ServeAddUser(s)
    PROVE  IInv'
<1> USE DEF IInv
<1>1. PICK m \in busy[s] :
          /\ m.kind = "addUser"
          /\ stored' = [stored EXCEPT ![s] = @ \cup m.users]
          /\ Reply(s, m, m.users \cap stored[s] = {}, {})
          /\ UNCHANGED edges
  BY DEF ServeAddUser
<1>2. m \in Commands /\ m \in InFlight(s) /\ CommandOK(s, m)
  BY DEF TypeOK, InFlight
<1>3. PICK ok \in BOOLEAN : ok = (m.users \cap stored[s] = {})
  OBVIOUS
<1>4. Grows /\ stored' \in [Shards -> SUBSET Users] /\ stored'[s] = stored[s] \cup m.users
  BY <1>1, <1>2 DEF Grows, TypeOK, Commands, Reply
<1>5. EdgesKnown'
  <2>1. \A u \in known : Home[u] \in Shards
    BY DistributedAssumption DEF TypeOK
  <2> QED
    BY <1>1, <1>4, <2>1 DEF EdgesKnown, Grows, Reply
<1>6. ASSUME NEW c \in Clients, m.from = c
      PROVE  /\ calls[c].kind = "addUser" /\ m.users = {calls[c].u}
             /\ Home[calls[c].u] = s
  <2>1. Active(c) /\ m \in Flying(c, s) /\ ClientOK(c)
    BY <1>2, <1>6, FlyingFacts
  <2>2. calls[c].kind = "addUser"
    BY <1>1, <2>1 DEF ClientOK, Sent
  <2>3. m.users = {calls[c].u}
    BY <2>1, <2>2 DEF ClientOK, Staged, Active
  <2> QED
    BY <1>2, <2>2, <2>3 DEF CommandOK
<1>7. ASSUME NEW c \in Clients, m.from = c
      PROVE  Answers(c, s, m, ok, {})
  BY <1>4, <1>6, <1>7 DEF Answers, Reading
<1>8. edges' \subseteq Users \X Users /\ Reply(s, m, ok, {}) /\ {} \in SUBSET Users
  BY <1>1, <1>3 DEF TypeOK
<1> QED
  BY <1>4, <1>5, <1>7, <1>8, ReplyStep

LEMMA ServeAddFollowStep ==
    ASSUME IInv, NEW s \in Shards, ServeAddFollow(s)
    PROVE  IInv'
<1> USE DEF IInv
<1>1. PICK m \in busy[s] :
          /\ m.kind = "addFollow"
          /\ edges' = IF m.users \subseteq stored[s] THEN edges \cup (m.users \X m.targets) ELSE edges
          /\ Reply(s, m, m.users \subseteq stored[s], {})
          /\ UNCHANGED stored
  BY DEF ServeAddFollow
<1>2. m \in InFlight(s) /\ CommandOK(s, m)
  BY DEF TypeOK, InFlight
<1>3. PICK u \in known, v \in known : m.users = {u} /\ m.targets = {v}
  BY <1>1, <1>2 DEF CommandOK
<1>4. u \in Users /\ v \in Users /\ u \in stored[s]
  BY <1>2, <1>3 DEF CommandOK, TypeOK, EdgesKnown
<1>5. PICK ok \in BOOLEAN : ok = (m.users \subseteq stored[s])
  OBVIOUS
<1>9. ok /\ Reply(s, m, ok, {})
  BY <1>1, <1>3, <1>4, <1>5
<1>10. edges' = edges \cup {<<u, v>>} /\ known' = known
  BY <1>1, <1>3, <1>4 DEF Reply
<1>6. Grows /\ EdgesKnown' /\ edges' \subseteq Users \X Users /\ stored' \in [Shards -> SUBSET Users]
  BY <1>1, <1>4, <1>10 DEF Grows, EdgesKnown, TypeOK
<1>7. ASSUME NEW c \in Clients, m.from = c
      PROVE  Answers(c, s, m, ok, {})
  <2>1. Active(c) /\ m \in Flying(c, s) /\ ClientOK(c)
    BY <1>2, <1>7, FlyingFacts
  <2>2. calls[c].kind = "addFollow" /\ m.targets = {calls[c].v}
    BY <1>1, <2>1 DEF ClientOK, Sent
  <2>3. m.users = {calls[c].u}
    BY <2>1, <2>2 DEF ClientOK, Staged, Active
  <2> QED
    BY <1>3, <1>9, <1>10, <2>2, <2>3 DEF Answers, Reading
<1> QED
  BY <1>6, <1>7, <1>9, ReplyStep

LEMMA ServeReadStep ==
    ASSUME IInv, NEW s \in Shards, ServeRead(s)
    PROVE  IInv'
<1> USE DEF IInv
<1>1. PICK m \in busy[s] :
          /\ m.kind = "read"
          /\ Reply(s, m, TRUE, UNION {Followed(edges, u) : u \in m.users})
          /\ UNCHANGED <<stored, edges>>
  BY DEF ServeRead
<1>2. PICK ids : ids = UNION {Followed(edges, u) : u \in m.users}
  OBVIOUS
<1>3. ids \in SUBSET Users /\ m \in InFlight(s)
  BY <1>2 DEF Followed, InFlight
<1>4. Grows /\ EdgesKnown' /\ edges' \subseteq Users \X Users /\ stored' \in [Shards -> SUBSET Users]
  BY <1>1 DEF Grows, EdgesKnown, TypeOK, Reply
<1>5. ASSUME NEW c \in Clients, m.from = c
      PROVE  calls[c].kind \notin {"addUser", "addFollow"}
  <2>1. m \in Flying(c, s) /\ ClientOK(c)
    BY <1>3, <1>5, FlyingFacts
  <2> QED
    BY <1>1, <2>1 DEF ClientOK, Sent
<1>6. ASSUME NEW c \in Clients, m.from = c
      PROVE  Answers(c, s, m, TRUE, ids)
  BY <1>1, <1>2, <1>5, <1>6 DEF Answers
<1>7. TRUE \in BOOLEAN /\ Reply(s, m, TRUE, ids)
  BY <1>1, <1>2
<1> QED
  BY <1>3, <1>4, <1>6, <1>7, ReplyStep

\* The reply that a client is owed when a worker is lost says so.
LEMMA WorkerStopStep ==
    ASSUME IInv, NEW s \in Shards, WorkerStop(s)
    PROVE  IInv'
<1> USE DEF IInv
<1>1. ChannelsOK' /\ \A t \in Shards : InFlight(t)' = IF t = s THEN {} ELSE InFlight(t)
  BY ChannelFacts, StopFlight
<1>2. /\ UNCHANGED <<known, stored, edges, calls, ask>> /\ alive' = alive \ {s}
      /\ \A c \in Clients :
             replies'[c] = IF Flying(c, s) # {} THEN replies[c] \cup {Lost(s)} ELSE replies[c]
  BY DEF WorkerStop, Flying
<1>3. Lost(s) \in Replies /\ ~Lost(s).ok /\ Lost(s).ids = {} /\ Lost(s).shard = s
  BY DEF Lost, Replies
<1>4. TypeOK'
  <2>1. replies' \in [Clients -> SUBSET Replies]
    BY <1>3 DEF TypeOK, WorkerStop
  <2> QED
    BY <1>1, <1>2, <2>1 DEF TypeOK, ChannelsOK
<1>5. Grows
  BY <1>2 DEF Grows
<1>6. ASSUME NEW c \in Clients
      PROVE  /\ Flying(c, s)' = {}
             /\ \A t \in Shards \ {s} : Flying(c, t)' = Flying(c, t)
  BY <1>1 DEF Flying
<1>7. ASSUME NEW c \in Clients, Flying(c, s) = {}
      PROVE  Undisturbed(c)
  BY <1>2, <1>6, <1>7 DEF Undisturbed
<1>8. ASSUME NEW c \in Clients, Flying(c, s) # {}
      PROVE  ClientOK(c)'
  <2> DEFINE call == calls[c]
  <2>1. ClientOK(c) /\ Active(c) /\ replies'[c] = replies[c] \cup {Lost(s)}
    BY <1>2, <1>8 DEF ClientOK, Quiet
  <2>2. Active(c)' = Active(c) /\ Fanned(c)' = Fanned(c) /\ Reading(c)' = Reading(c)
    BY <1>2 DEF Active, Fanned, Reading
  <2>3. Quiet(c)'
    BY <2>1, <2>2 DEF Quiet
  <2>4. Sole(c)'
    <3> SUFFICES ASSUME ~Fanned(c)
                 PROVE  Sole(c)'
      BY <2>2 DEF Sole
    <3>1. ask[c] = {} /\ replies[c] = {} /\ \A t \in Shards : Flying(c, t) # {} => s = t
      BY <1>8, <2>1 DEF ClientOK, Sole
    <3>2. ask'[c] = {} /\ replies'[c] = {Lost(s)} /\ \A t \in Shards : Flying(c, t)' = {}
      BY <1>2, <1>6, <2>1, <3>1
    <3> QED
      BY <3>2 DEF Sole
  <2>5. AskedOnce(c)' /\ Sent(c)' /\ Staged(c)'
    BY <1>2, <1>6, <2>1, <2>2 DEF ClientOK, AskedOnce, Sent, Staged, Batch
  <2>6. Applied(c)' /\ Started(c)' /\ FirstRead(c)' /\ Bracketed(c)'
    BY <1>2, <1>3, <2>1, <2>2 DEF ClientOK, Applied, Started, FirstRead, Bracketed
  <2>7. SecondRead(c)'
    <3> SUFFICES ASSUME Reading(c), call.stage = "second"
                 PROVE  SecondRead(c)'
      BY <1>2, <2>2 DEF SecondRead
    <3>1. \A x : Covered(c, x) => Covered(c, x)'
      BY <1>2, <1>3, <2>1 DEF Covered
    <3>2. SecondRead(c)
      BY <2>1 DEF ClientOK
    <3> QED
      BY <1>2, <1>3, <1>6, <2>1, <3>1, <3>2 DEF SecondRead
  <2> QED
    BY <2>3, <2>4, <2>5, <2>6, <2>7 DEF ClientOK
<1>9. \A c \in Clients : ClientOK(c)'
  BY <1>5, <1>7, <1>8, Frame
<1>10. \A t \in Shards : \A n \in InFlight(t)' : CommandOK(t, n)'
  BY <1>1, <1>5, CommandsKept
<1>11. ErrorsBlameWorkers'
  <2> SUFFICES ASSUME NEW c \in Clients, NEW r \in replies'[c], ~r.ok, r.shard \in alive'
               PROVE  calls[c].kind = "addUser" /\ calls[c].u \in stored[r.shard] \ known
    BY <1>2 DEF ErrorsBlameWorkers
  <2>1. r \in replies[c] /\ r.shard \in alive
    BY <1>2, <1>3
  <2> QED
    BY <2>1 DEF ErrorsBlameWorkers
<1>12. EdgesKnown' /\ \A c \in Clients : Exclusive(c)'
  BY <1>2 DEF EdgesKnown, Exclusive, Active
<1> QED
  BY <1>1, <1>4, <1>9, <1>10, <1>11, <1>12 DEF ChannelsOK

\* A call that ends, dropped or with an error, leaves its commands to Nobody.
LEMMA AbandonStep ==
    ASSUME IInv, NEW c \in Clients, Abandon(c), UNCHANGED <<known, stored, edges, alive>>,
           Active(c), NEW call, calls' = [calls EXCEPT ![c] = call],
           call # NoCall => /\ call \in Calls /\ call.stage = "failed"
                            /\ call.kind = calls[c].kind /\ call.before = calls[c].before
    PROVE  IInv'
<1> USE DEF IInv
<1>1. ChannelsOK' /\ \A s \in Shards : InFlight(s)' = {Disown(m, c) : m \in InFlight(s)}
  BY ChannelFacts, AbandonFlight
<1>2. /\ ask'[c] = {} /\ replies'[c] = {} /\ calls'[c] = call
      /\ \A d \in Clients \ {c} : ask'[d] = ask[d] /\ replies'[d] = replies[d] /\ calls'[d] = calls[d]
  BY DEF Abandon, TypeOK
<1>3. \A s \in Shards : \A m \in InFlight(s) :
          /\ m \in Commands
          /\ Disown(m, c).from = IF m.from = c THEN Nobody ELSE m.from
          /\ m.from # c => Disown(m, c) = m
          /\ Disown(m, c).kind = m.kind /\ Disown(m, c).users = m.users
          /\ Disown(m, c).targets = m.targets
  <2>1. \A s \in Shards : InFlight(s) \subseteq Commands
    BY ChannelFacts, FlightCommands
  <2> QED
    BY <2>1, DisownCommand
<1>4. \A d \in Clients : d # Nobody
  BY DistributedAssumption
<1>5. /\ \A s \in Shards : Flying(c, s)' = {}
      /\ \A d \in Clients \ {c}, s \in Shards : Flying(d, s)' = Flying(d, s)
  <2>1. \A s \in Shards : Flying(c, s)' = {}
    BY <1>1, <1>3, <1>4 DEF Flying
  <2>2. ASSUME NEW d \in Clients \ {c}, NEW s \in Shards
        PROVE  Flying(d, s)' = Flying(d, s)
    <3>1. \A m \in InFlight(s)' : m.from = d => m \in InFlight(s)
      BY <1>1, <1>3, <1>4
    <3>2. \A m \in InFlight(s) : m.from = d => m \in InFlight(s)'
      BY <1>1, <1>3
    <3> QED
      BY <3>1, <3>2 DEF Flying
  <2> QED
    BY <2>1, <2>2
<1>6. Grows /\ \A d \in Clients \ {c} : Undisturbed(d)
  BY <1>2, <1>5 DEF Grows, Undisturbed
<1>7. TypeOK'
  <2>1. /\ ask' \in [Clients -> SUBSET Users] /\ replies' \in [Clients -> SUBSET Replies]
        /\ calls' \in [Clients -> {NoCall} \cup Calls]
    BY DEF TypeOK, Abandon
  <2> QED
    BY <1>1, <2>1 DEF TypeOK, ChannelsOK
<1>8. ~Active(c)' /\ (call # NoCall => call.stage = "failed")
      /\ (call = NoCall => call.kind = "none")
  BY <1>2 DEF Active, NoCall
<1>9. ClientOK(c)'
  <2>1. Quiet(c)' /\ Sole(c)' /\ AskedOnce(c)' /\ Sent(c)' /\ Staged(c)' /\ Applied(c)'
    BY <1>2, <1>5, <1>8 DEF Quiet, Sole, AskedOnce, Sent, Staged, Applied
  <2>2. FirstRead(c)' /\ SecondRead(c)' /\ Bracketed(c)'
    BY <1>2, <1>8 DEF FirstRead, SecondRead, Bracketed, Reading
  <2>3. Started(c)'
    BY <1>2, <1>8 DEF ClientOK, Started, Reading
  <2> QED
    BY <2>1, <2>2, <2>3 DEF ClientOK
<1>10. \A d \in Clients : ClientOK(d)'
  BY <1>6, <1>9, Frame
<1>11. \A s \in Shards : \A n \in InFlight(s)' : CommandOK(s, n)'
  <2>1. \A s \in Shards : \A m \in InFlight(s) : CommandOK(s, Disown(m, c))
    BY <1>3 DEF CommandOK
  <2>2. \A s \in Shards : \A n \in InFlight(s)' : CommandOK(s, n)
    BY <1>1, <2>1
  <2> QED
    BY <1>6, <2>2, CommandsKept
<1>12. \A d \in Clients : Exclusive(d)'
  <2>1. Exclusive(c)'
    BY <1>2, <1>8 DEF Exclusive
  <2>2. ASSUME NEW d \in Clients \ {c}
        PROVE  Exclusive(d)'
    <3>1. calls[d].kind = "addUser" => calls[c].kind = "none"
      BY DEF Exclusive, NoCall
    <3> QED
      BY <1>2, <3>1 DEF Exclusive, Active
  <2> QED
    BY <2>1, <2>2
<1>13. EdgesKnown' /\ ErrorsBlameWorkers'
  BY <1>2 DEF EdgesKnown, ErrorsBlameWorkers
<1> QED
  BY <1>1, <1>7, <1>10, <1>11, <1>12, <1>13 DEF ChannelsOK

LEMMA CancelStep ==
    ASSUME IInv, NEW c \in Clients, Cancel(c)
    PROVE  IInv'
<1> Abandon(c) /\ UNCHANGED <<known, stored, edges, alive>> /\ Active(c)
  BY DEF Cancel
<1>1. PICK call : call = NoCall
  OBVIOUS
<1>2. calls' = [calls EXCEPT ![c] = call]
  BY <1>1 DEF Cancel
<1> QED
  BY <1>1, <1>2, AbandonStep

LEMMA JoinErrorStep ==
    ASSUME IInv, NEW c \in Clients, JoinError(c)
    PROVE  IInv'
<1>1. calls[c] \in Calls
  BY CallFacts DEF JoinError
<1>2. PICK call : call = [calls[c] EXCEPT !.stage = "failed", !.hops = {}, !.ids = {}]
  OBVIOUS
<1>3. call \in Calls /\ call.stage = "failed" /\ call.kind = calls[c].kind /\ call.before = calls[c].before
  BY <1>1, <1>2 DEF Calls
<1>4. calls' = [calls EXCEPT ![c] = call]
  BY <1>2 DEF JoinError
<1> QED
  BY <1>3, <1>4, AbandonStep DEF JoinError

\* A call that waits for one thing has nothing else under way when it is there.
LEMMA SoleFacts ==
    ASSUME IInv, NEW c \in Clients, ~Fanned(c), NEW r \in replies[c]
    PROVE  /\ Active(c) /\ calls[c] \in Calls
           /\ ask[c] = {} /\ replies[c] = {r} /\ \A s \in Shards : Flying(c, s) = {}
<1>1. ClientOK(c)
  BY DEF IInv
<1> QED
  BY <1>1, CallFacts DEF ClientOK, Quiet, Sole

\* A call that takes replies and goes on to `call' disturbs no one.
LEMMA JoinStep ==
    ASSUME IInv, NEW c \in Clients, UNCHANGED <<stored, edges, queue, busy, alive>>,
           NEW call \in Calls, calls' = [calls EXCEPT ![c] = call],
           NEW A \in SUBSET Users, ask' = [ask EXCEPT ![c] = A],
           NEW R \in SUBSET replies[c], replies' = [replies EXCEPT ![c] = R],
           known \subseteq known', known' \subseteq Users, EdgesKnown',
           known' # known => calls[c].kind = "addUser" /\ R = {} /\ call.stage = "done",
           call.kind = calls[c].kind /\ call.u = calls[c].u, Active(c), ClientOK(c)'
    PROVE  IInv'
<1> USE DEF IInv
<1>1. ChannelsOK' /\ \A s : InFlight(s)' = InFlight(s)
  BY ChannelFacts, SameFlight
<1>2. /\ calls'[c] = call /\ ask'[c] = A /\ replies'[c] = R
      /\ \A d \in Clients \ {c} : calls'[d] = calls[d] /\ ask'[d] = ask[d] /\ replies'[d] = replies[d]
  BY DEF TypeOK
<1>3. Grows /\ \A d \in Clients \ {c} : Undisturbed(d)
  BY <1>1, <1>2 DEF Grows, Undisturbed, Flying
<1>4. \A d \in Clients : ClientOK(d)'
  BY <1>3, Frame
<1>5. TypeOK'
  <2>1. R \subseteq Replies /\ known' \subseteq Users
    BY DEF TypeOK
  <2> QED
    BY <1>1, <2>1 DEF TypeOK, ChannelsOK
<1>6. \A s \in Shards : \A n \in InFlight(s)' : CommandOK(s, n)'
  BY <1>1, <1>3, CommandsKept
<1>7. calls[c].kind = "addUser" => \A d \in Clients \ {c} : calls[d] = NoCall /\ replies[d] = {}
  <2>1. \A d \in Clients : calls[d] = NoCall => replies[d] = {}
    BY DEF ClientOK, Quiet, Active, NoCall
  <2> QED
    BY <2>1 DEF Exclusive
<1>8. ErrorsBlameWorkers'
  <2> SUFFICES ASSUME NEW d \in Clients, NEW r \in replies'[d], ~r.ok, r.shard \in alive
               PROVE  calls'[d].kind = "addUser" /\ calls'[d].u \in stored[r.shard] \ known'
    BY DEF ErrorsBlameWorkers
  <2>1. r \in replies[d] /\ known' = known
    BY <1>2, <1>7
  <2>2. calls[d].kind = "addUser" /\ calls[d].u \in stored[r.shard] \ known
    BY <2>1 DEF ErrorsBlameWorkers
  <2> QED
    BY <1>2, <2>1, <2>2
<1>9. \A d \in Clients : Exclusive(d)'
  <2>1. Exclusive(c)'
    <3>1. Active(c)' /\ call.kind = "addUser" => call.u \notin known'
      BY <1>2 DEF Exclusive, Active
    <3> QED
      BY <1>2, <1>7, <3>1 DEF Exclusive
  <2>2. ASSUME NEW d \in Clients \ {c}
        PROVE  Exclusive(d)'
    <3>1. calls[d].kind # "addUser"
      BY DEF Exclusive, NoCall, Active
    <3> QED
      BY <1>2, <3>1 DEF Exclusive
  <2> QED
    BY <2>1, <2>2
<1> QED
  BY <1>1, <1>4, <1>5, <1>6, <1>8, <1>9 DEF ChannelsOK

\* A call that is done has nothing left, and a read has an answer in bounds.
LEMMA DoneClient ==
    ASSUME IInv, NEW c \in Clients, ~Fanned(c), replies[c] # {},
           UNCHANGED <<edges, queue, busy>>,
           ask'[c] = {}, replies'[c] = {},
           calls'[c] = [calls[c] EXCEPT !.stage = "done", !.ids = calls'[c].ids], Bracketed(c)'
    PROVE  ClientOK(c)'
<1>1. PICK r \in replies[c] : TRUE
  OBVIOUS
<1>2. calls[c] \in Calls /\ \A s \in Shards : Flying(c, s)' = {}
  <2>1. \A s \in Shards : Flying(c, s)' = Flying(c, s)
    BY DEF Flying, InFlight
  <2> QED
    BY <1>1, <2>1, SoleFacts
<1>3. /\ calls'[c].stage = "done"
      /\ calls'[c].kind = calls[c].kind /\ calls'[c].before = calls[c].before
  BY <1>2 DEF Calls
<1>4. ~Active(c)'
  BY <1>3 DEF Active
<1>5. Quiet(c)' /\ Sole(c)' /\ AskedOnce(c)' /\ Sent(c)' /\ Staged(c)' /\ Applied(c)'
  BY <1>2, <1>4 DEF Quiet, Sole, AskedOnce, Sent, Staged, Applied
<1>6. FirstRead(c)' /\ SecondRead(c)'
  BY <1>3 DEF FirstRead, SecondRead
<1>7. Started(c)'
  BY <1>3 DEF IInv, ClientOK, Started, Reading
<1> QED
  BY <1>5, <1>6, <1>7 DEF ClientOK

LEMMA JoinAddUserStep ==
    ASSUME IInv, NEW c \in Clients, JoinAddUser(c)
    PROVE  IInv'
<1> DEFINE old == calls[c]
<1>1. PICK r \in replies[c] : r.ok /\ old.kind = "addUser"
  BY DEF JoinAddUser
<1>2. ~Fanned(c) /\ ask[c] = {} /\ Active(c) /\ old \in Calls
  BY <1>1, SoleFacts DEF Fanned
<1>3. PICK call : call = [old EXCEPT !.stage = "done"]
  OBVIOUS
<1>4. /\ call \in Calls /\ call.kind = old.kind /\ call.u = old.u /\ call.stage = "done"
      /\ call.ids = old.ids
  BY <1>2, <1>3 DEF Calls
<1>5. calls' = [calls EXCEPT ![c] = call] /\ calls'[c] = call
  BY <1>3 DEF JoinAddUser, IInv, TypeOK
<1>6. ask' = [ask EXCEPT ![c] = {}] /\ replies' = [replies EXCEPT ![c] = {}]
      /\ ask'[c] = {} /\ replies'[c] = {}
  BY <1>2 DEF JoinAddUser, IInv, TypeOK
<1>7. known \subseteq known' /\ known' \subseteq Users /\ EdgesKnown'
  <2>1. old.u \in Users /\ old.u \in stored[Home[old.u]]
    BY <1>1, <1>2 DEF IInv, ClientOK, Applied, Calls
  <2> QED
    BY <2>1 DEF JoinAddUser, IInv, TypeOK, EdgesKnown
<1>8. UNCHANGED <<stored, edges, queue, busy, alive>>
  BY DEF JoinAddUser
<1>9. call = [old EXCEPT !.stage = "done", !.ids = call.ids]
  BY <1>2, <1>3, <1>4 DEF Calls
<1>10. ClientOK(c)'
  <2>1. Bracketed(c)'
    BY <1>1, <1>4, <1>5 DEF Bracketed, Reading
  <2> QED
    BY <1>1, <1>2, <1>5, <1>6, <1>8, <1>9, <2>1, DoneClient
<1> QED
  BY <1>1, <1>2, <1>4, <1>5, <1>6, <1>7, <1>8, <1>10, JoinStep

LEMMA JoinAddFollowStep ==
    ASSUME IInv, NEW c \in Clients, JoinAddFollow(c)
    PROVE  IInv'
<1> DEFINE old == calls[c]
<1>1. PICK r \in replies[c] : r.ok /\ old.kind = "addFollow"
  BY DEF JoinAddFollow
<1>2. ~Fanned(c) /\ ask[c] = {} /\ Active(c) /\ old \in Calls
  BY <1>1, SoleFacts DEF Fanned
<1>3. PICK call : call = [old EXCEPT !.stage = "done"]
  OBVIOUS
<1>4. call \in Calls /\ call.kind = old.kind /\ call.u = old.u /\ call.ids = old.ids
  BY <1>2, <1>3 DEF Calls
<1>5. calls' = [calls EXCEPT ![c] = call] /\ calls'[c] = call
  BY <1>3 DEF JoinAddFollow, IInv, TypeOK
<1>6. ask' = [ask EXCEPT ![c] = {}] /\ replies' = [replies EXCEPT ![c] = {}]
      /\ ask'[c] = {} /\ replies'[c] = {}
  BY <1>2 DEF JoinAddFollow, IInv, TypeOK
<1>7. known' = known /\ UNCHANGED <<stored, edges, queue, busy, alive>>
  BY DEF JoinAddFollow
<1>10. known \subseteq known' /\ known' \subseteq Users /\ EdgesKnown'
  BY <1>7 DEF IInv, TypeOK, EdgesKnown
<1>8. call = [old EXCEPT !.stage = "done", !.ids = call.ids]
  BY <1>2, <1>3, <1>4 DEF Calls
<1>9. ClientOK(c)'
  <2>1. Bracketed(c)'
    BY <1>1, <1>4, <1>5 DEF Bracketed, Reading
  <2> QED
    BY <1>1, <1>2, <1>5, <1>6, <1>7, <1>8, <2>1, DoneClient
<1> QED
  BY <1>2, <1>4, <1>5, <1>6, <1>7, <1>9, <1>10, JoinStep

LEMMA JoinFollowingStep ==
    ASSUME IInv, NEW c \in Clients, JoinFollowing(c)
    PROVE  IInv'
<1> DEFINE old == calls[c]
<1>1. PICK r \in replies[c] :
          /\ r.ok /\ old.kind = "getFollowing"
          /\ calls' = [calls EXCEPT ![c].stage = "done", ![c].ids = r.ids]
  BY DEF JoinFollowing
<1>2. ~Fanned(c) /\ ask[c] = {} /\ Active(c) /\ old \in Calls /\ r.ids \subseteq Users
  BY <1>1, SoleFacts DEF Fanned, IInv, TypeOK, Replies
<1>3. PICK call : call = [old EXCEPT !.stage = "done", !.ids = r.ids]
  OBVIOUS
<1>4. /\ call \in Calls /\ call.kind = old.kind /\ call.u = old.u /\ call.ids = r.ids
      /\ call.before = old.before
  BY <1>2, <1>3 DEF Calls
<1>5. calls' = [calls EXCEPT ![c] = call] /\ calls'[c] = call
  BY <1>1, <1>3 DEF IInv, TypeOK
<1>6. ask' = [ask EXCEPT ![c] = {}] /\ replies' = [replies EXCEPT ![c] = {}]
      /\ ask'[c] = {} /\ replies'[c] = {}
  BY <1>2 DEF JoinFollowing, IInv, TypeOK
<1>7. known' = known /\ UNCHANGED <<stored, edges, queue, busy, alive>>
  BY DEF JoinFollowing
<1>10. known \subseteq known' /\ known' \subseteq Users /\ EdgesKnown'
  BY <1>7 DEF IInv, TypeOK, EdgesKnown
<1>8. call = [old EXCEPT !.stage = "done", !.ids = call.ids]
  BY <1>2, <1>3, <1>4 DEF Calls
<1>9. ClientOK(c)'
  <2>1. Followed(old.before, old.u) \subseteq r.ids /\ r.ids \subseteq Followed(edges, old.u)
    <3>1. ClientOK(c) /\ old.stage = "first"
      BY <1>1, <1>2 DEF IInv, ClientOK, Staged, Active
    <3> QED
      BY <1>1, <3>1 DEF ClientOK, FirstRead, Reading
  <2>2. Bracketed(c)'
    BY <1>1, <1>4, <1>5, <1>7, <2>1 DEF Bracketed, Reads
  <2> QED
    BY <1>1, <1>2, <1>5, <1>6, <1>7, <1>8, <2>2, DoneClient
<1> QED
  BY <1>2, <1>4, <1>5, <1>6, <1>7, <1>9, <1>10, JoinStep

LEMMA ReturnStep ==
    ASSUME IInv, NEW c \in Clients, Return(c)
    PROVE  IInv'
<1> USE DEF IInv
<1>1. ChannelsOK' /\ \A s : InFlight(s)' = InFlight(s)
  BY ChannelFacts, SameFlight DEF Return
<1>2. /\ UNCHANGED <<known, stored, edges, alive, ask, replies>> /\ calls'[c] = NoCall
      /\ \A d \in Clients \ {c} : calls'[d] = calls[d]
  BY DEF Return, TypeOK
<1>3. Grows /\ \A d \in Clients \ {c} : Undisturbed(d)
  BY <1>1, <1>2 DEF Grows, Undisturbed, Flying
<1>4. ask[c] = {} /\ replies[c] = {} /\ \A s \in Shards : Flying(c, s)' = {}
  <2>1. Quiet(c) /\ ~Active(c)
    BY DEF Return, ClientOK
  <2> QED
    BY <1>1, <2>1 DEF Quiet, Flying
<1>5. ClientOK(c)'
  <2>1. ~Active(c)' /\ ~Reading(c)'
    BY <1>2 DEF Active, Reading, NoCall
  <2> QED
    BY <1>2, <1>4, <2>1 DEF ClientOK, Quiet, Sole, AskedOnce, Sent, Staged, Applied, Started,
                            FirstRead, SecondRead, Bracketed
<1>6. \A d \in Clients : ClientOK(d)'
  BY <1>3, <1>5, Frame
<1>7. \A s \in Shards : \A n \in InFlight(s)' : CommandOK(s, n)'
  BY <1>1, <1>3, CommandsKept
<1>8. TypeOK'
  BY <1>1, <1>2 DEF TypeOK, ChannelsOK, Return
<1>9. EdgesKnown' /\ ErrorsBlameWorkers' /\ \A d \in Clients : Exclusive(d)'
  <2>1. NoCall.kind = "none"
    BY DEF NoCall
  <2> QED
    BY <1>2, <1>4, <2>1 DEF EdgesKnown, ErrorsBlameWorkers, Exclusive, Active
<1> QED
  BY <1>1, <1>6, <1>7, <1>8, <1>9 DEF ChannelsOK

\* A query goes on to its hops: what its client has under way is then the hops
\* of A, to be asked about, and those it has put off.
LEMMA HopsClient ==
    ASSUME IInv, NEW c \in Clients, ~Fanned(c), replies[c] # {},
           UNCHANGED <<known, edges, queue, busy>>,
           NEW A \in SUBSET Users, ask'[c] = A, replies'[c] = {},
           NEW call \in Calls, calls'[c] = call, call.stage = "second",
           call.kind = calls[c].kind, call.u = calls[c].u, call.v = calls[c].v,
           call.before = calls[c].before,
           call.kind \in {"twoHop", "batched"}, call.kind = "batched" => call.hops = {},
           call.kind = "twoHop" => \A x, y \in A : x = y,
           SecondRead(c)'
    PROVE  ClientOK(c)'
<1> DEFINE old == calls[c]
<1>1. PICK r \in replies[c] : TRUE
  OBVIOUS
<1>2. /\ Active(c) /\ old \in Calls /\ \A s \in Shards : Flying(c, s)' = {}
  <2>1. \A s \in Shards : Flying(c, s)' = Flying(c, s)
    BY DEF Flying, InFlight
  <2> QED
    BY <1>1, <2>1, SoleFacts
<1>3. call.kind = old.kind /\ call.u = old.u /\ call.v = old.v /\ call.before = old.before
  OBVIOUS
<1>4. Active(c)' /\ Quiet(c)' /\ AskedOnce(c)' /\ Sent(c)' /\ Applied(c)' /\ FirstRead(c)' /\ Bracketed(c)'
  BY <1>2 DEF Active, Quiet, AskedOnce, Sent, Applied, FirstRead, Bracketed
<1>5. Sole(c)'
  <2>1. CASE call.kind = "batched"
    BY <2>1 DEF Sole, Fanned
  <2>2. CASE call.kind = "twoHop"
    BY <1>2, <2>2 DEF Sole
  <2> QED
    BY <2>1, <2>2
<1>6. Staged(c)'
  <2>1. old.kind # "addUser" /\ ClientOK(c)
    BY <1>3 DEF IInv
  <2> QED
    BY <1>2, <1>3, <2>1 DEF ClientOK, Staged
<1>7. Started(c)'
  BY <1>3 DEF IInv, ClientOK, Started, Reading
<1> QED
  BY <1>4, <1>5, <1>6, <1>7 DEF ClientOK

LEMMA JoinFirstStep ==
    ASSUME IInv, NEW c \in Clients, JoinFirst(c)
    PROVE  IInv'
<1> DEFINE old == calls[c]
<1>1. PICK r \in replies[c] :
          /\ r.ok
          /\ \/ /\ r.ids = {}
                /\ calls' = [calls EXCEPT ![c].stage = "done"]
                /\ UNCHANGED ask
             \/ /\ old.kind = "batched" /\ r.ids # {}
                /\ calls' = [calls EXCEPT ![c].stage = "second"]
                /\ ask' = [ask EXCEPT ![c] = r.ids]
             \/ /\ old.kind = "twoHop"
                /\ \E v \in r.ids :
                       AskHop(c, [old EXCEPT !.stage = "second", !.hops = r.ids \ {v}], v)
  BY DEF JoinFirst
<1>2. old.kind \in {"twoHop", "batched"} /\ old.stage = "first" /\ ~Fanned(c)
  BY DEF JoinFirst, Fanned
<1>3. /\ Active(c) /\ old \in Calls /\ ask[c] = {} /\ r \in Replies
      /\ \A s \in Shards : Flying(c, s) = {}
  BY <1>2, SoleFacts DEF IInv, TypeOK
<1>4. /\ old.ids = {} /\ old.hops = {} /\ ClientOK(c)
      /\ Followed(old.before, old.u) \subseteq r.ids /\ r.ids \subseteq Followed(edges, old.u)
  <2>1. ClientOK(c)
    BY DEF IInv
  <2> QED
    BY <1>1, <1>2, <1>3, <2>1 DEF ClientOK, Staged, FirstRead, Reading
<1>5. r.ids \subseteq Users /\ r.ids \subseteq known
  BY <1>3, <1>4 DEF Replies, Followed, IInv, EdgesKnown
<1>6. known' = known /\ UNCHANGED <<stored, edges, queue, busy, alive>>
  BY DEF JoinFirst
<1>7. known \subseteq known' /\ known' \subseteq Users /\ EdgesKnown'
  BY <1>6 DEF IInv, TypeOK, EdgesKnown
<1>8. replies' = [replies EXCEPT ![c] = {}] /\ replies'[c] = {}
  BY DEF JoinFirst, IInv, TypeOK
<1>9. CASE r.ids = {} /\ calls' = [calls EXCEPT ![c].stage = "done"] /\ ask' = ask
  <2>1. PICK call : call = [old EXCEPT !.stage = "done"]
    OBVIOUS
  <2>2. /\ call \in Calls /\ call.kind = old.kind /\ call.u = old.u /\ call.ids = {}
        /\ call.before = old.before
    BY <1>3, <1>4, <2>1 DEF Calls
  <2>3. calls' = [calls EXCEPT ![c] = call] /\ calls'[c] = call
    BY <1>9, <2>1 DEF IInv, TypeOK
  <2>4. ask' = [ask EXCEPT ![c] = {}] /\ ask'[c] = {}
    BY <1>3, <1>9 DEF IInv, TypeOK
  <2>5. call = [old EXCEPT !.stage = "done", !.ids = call.ids]
    BY <1>3, <1>4, <2>1, <2>2 DEF Calls
  <2>6. Bracketed(c)'
    <3>1. Followed(old.before, old.u) = {}
      BY <1>4, <1>9
    <3>2. Reads(call.kind, call.before, call.u) = {}
      BY <1>2, <2>2, <3>1 DEF Reads
    <3> QED
      BY <2>2, <2>3, <3>2 DEF Bracketed
  <2>7. ClientOK(c)'
    BY <1>2, <1>6, <1>8, <2>3, <2>4, <2>5, <2>6, DoneClient
  <2> QED
    BY <1>3, <1>6, <1>7, <1>8, <2>2, <2>3, <2>4, <2>7, JoinStep
<1>10. ASSUME NEW A \in SUBSET r.ids, NEW hops \in SUBSET r.ids, r.ids \subseteq A \cup hops,
              calls' = [calls EXCEPT ![c] = [old EXCEPT !.stage = "second", !.hops = hops]],
              ask' = [ask EXCEPT ![c] = A],
              \/ old.kind = "batched" /\ hops = {}
              \/ old.kind = "twoHop" /\ \E v \in Users : A = {v}
       PROVE  IInv'
  <2>1. PICK call : call = [old EXCEPT !.stage = "second", !.hops = hops]
    OBVIOUS
  <2>2. /\ call \in Calls /\ call.kind = old.kind /\ call.u = old.u /\ call.ids = {}
        /\ call.before = old.before /\ call.hops = hops /\ call.stage = "second"
        /\ call.v = old.v
    BY <1>3, <1>4, <1>5, <2>1 DEF Calls
  <2>3. calls' = [calls EXCEPT ![c] = call] /\ calls'[c] = call /\ ask'[c] = A
    BY <1>10, <2>1 DEF IInv, TypeOK
  <2>4. A \in SUBSET Users
    BY <1>5
  <2>5. \A s \in Shards : Flying(c, s)' = {}
    BY <1>3, <1>6 DEF Flying, InFlight
  <2>6. SecondRead(c)'
    <3>1. \A x \in Followed(old.before, old.u) : Covered(c, x)'
      BY <1>4, <1>10, <2>2, <2>3 DEF Covered
    <3> QED
      BY <1>4, <1>6, <1>8, <2>2, <2>3, <2>5, <3>1 DEF SecondRead
  <2>7. ClientOK(c)'
    <3>1. /\ call.kind \in {"twoHop", "batched"} /\ (call.kind = "batched" => call.hops = {})
          /\ (call.kind = "twoHop" => \A x, y \in A : x = y)
      BY <1>2, <1>10, <2>2
    <3> QED
      BY <1>2, <1>6, <1>8, <2>2, <2>3, <2>4, <2>6, <3>1, HopsClient
  <2> QED
    BY <1>3, <1>6, <1>7, <1>8, <1>10, <2>2, <2>3, <2>4, <2>7, JoinStep
<1>11. CASE /\ old.kind = "batched"
            /\ calls' = [calls EXCEPT ![c].stage = "second"]
            /\ ask' = [ask EXCEPT ![c] = r.ids]
  <2>1. [old EXCEPT !.stage = "second", !.hops = {}] = [old EXCEPT !.stage = "second"]
    BY <1>3, <1>4 DEF Calls
  <2> QED
    BY <1>10, <1>11, <2>1
<1>12. ASSUME old.kind = "twoHop", NEW v \in r.ids,
              AskHop(c, [old EXCEPT !.stage = "second", !.hops = r.ids \ {v}], v)
       PROVE  IInv'
  <2>1. /\ calls' = [calls EXCEPT ![c] = [old EXCEPT !.stage = "second", !.hops = r.ids \ {v}]]
        /\ ask' = [ask EXCEPT ![c] = {v}]
    BY <1>5, <1>12 DEF AskHop
  <2> QED
    BY <1>5, <1>10, <1>12, <2>1
<1> QED
  BY <1>1, <1>9, <1>11, <1>12

\* Second-stage lists, put into the answer, keep it within the graph.
LEMMA MoreIds ==
    ASSUME IInv, NEW c \in Clients, calls[c].kind \in {"twoHop", "batched"},
           calls[c].stage = "second", NEW r \in replies[c]
    PROVE  calls[c].ids \cup (r.ids \ {calls[c].u}) \subseteq Reads(calls[c].kind, edges, calls[c].u)
<1>1. SecondRead(c) /\ Reading(c)
  BY DEF IInv, ClientOK, Reading
<1>2. r.ids \subseteq UNION {Followed(edges, x) : x \in Followed(edges, calls[c].u)}
  BY <1>1 DEF SecondRead
<1>3. calls[c].ids \subseteq Reads(calls[c].kind, edges, calls[c].u)
  BY <1>1 DEF SecondRead
<1> QED
  BY <1>2, <1>3 DEF Reads

LEMMA JoinSecondStep ==
    ASSUME IInv, NEW c \in Clients, JoinSecond(c)
    PROVE  IInv'
<1> DEFINE old == calls[c]
<1>1. old.kind \in {"twoHop", "batched"} /\ old.stage = "second"
  BY DEF JoinSecond
<1>2. PICK r \in replies[c] :
          /\ r.ok
          /\ replies' = [replies EXCEPT ![c] = @ \ {r}]
          /\ LET ids == old.ids \cup (r.ids \ {old.u})
             IN IF old.hops # {}
                THEN \E v \in old.hops : AskHop(c, [old EXCEPT !.ids = ids, !.hops = @ \ {v}], v)
                ELSE /\ calls' = [calls EXCEPT ![c].ids = ids,
                                               ![c].stage = IF AllJoined(c, r) THEN "done" ELSE @]
                     /\ UNCHANGED ask
  BY DEF JoinSecond
<1>3. PICK ids : ids = old.ids \cup (r.ids \ {old.u})
  OBVIOUS
<1>4. /\ Active(c) /\ old \in Calls /\ ClientOK(c) /\ SecondRead(c) /\ Reading(c)
      /\ r \in Replies /\ ids \subseteq Users /\ ids \subseteq Reads(old.kind, edges, old.u)
  <2>1. old \in Calls
    BY <1>1, CallFacts
  <2>2. Active(c) /\ ClientOK(c) /\ SecondRead(c) /\ Reading(c)
    BY <1>1 DEF Active, IInv, ClientOK, Reading
  <2>3. r \in Replies
    BY DEF IInv, TypeOK
  <2>4. ids \subseteq Users
    BY <1>3, <2>1, <2>3 DEF Replies, Calls
  <2>5. ids \subseteq Reads(old.kind, edges, old.u)
    BY <1>1, <1>3, MoreIds
  <2> QED
    BY <2>1, <2>2, <2>3, <2>4, <2>5
<1>5. known' = known /\ UNCHANGED <<stored, edges, queue, busy, alive>>
  BY DEF JoinSecond
<1>6. known \subseteq known' /\ known' \subseteq Users /\ EdgesKnown'
  BY <1>5 DEF IInv, TypeOK, EdgesKnown
<1>7. /\ replies' = [replies EXCEPT ![c] = replies[c] \ {r}] /\ replies'[c] = replies[c] \ {r}
      /\ \A s \in Shards : Flying(c, s)' = Flying(c, s)
  BY <1>2, <1>5 DEF IInv, TypeOK, Flying, InFlight
<1>8. ASSUME NEW v \in old.hops, AskHop(c, [old EXCEPT !.ids = ids, !.hops = @ \ {v}], v)
      PROVE  IInv'
  <2>1. old.kind = "twoHop" /\ ~Fanned(c)
    BY <1>1, <1>4, <1>8 DEF ClientOK, Staged, Fanned
  <2>2. replies[c] = {r} /\ \A s \in Shards : Flying(c, s) = {}
    BY <2>1, SoleFacts
  <2>3. v \in Users /\ v \in known
    BY <1>1, <1>4 DEF SecondRead, Followed, IInv, EdgesKnown
  <2>4. PICK call : call = [old EXCEPT !.ids = ids, !.hops = @ \ {v}]
    OBVIOUS
  <2>5. /\ call \in Calls /\ call.kind = old.kind /\ call.u = old.u /\ call.ids = ids
        /\ call.before = old.before /\ call.hops = old.hops \ {v} /\ call.stage = "second"
        /\ call.v = old.v
    BY <1>1, <1>4, <2>4 DEF Calls
  <2>6. calls' = [calls EXCEPT ![c] = call] /\ ask' = [ask EXCEPT ![c] = {v}]
    BY <1>8, <2>3, <2>4 DEF AskHop
  <2>7. calls'[c] = call /\ ask'[c] = {v} /\ {v} \in SUBSET Users
    BY <2>3, <2>6 DEF IInv, TypeOK
  <2>8. replies'[c] = {} /\ {} \in SUBSET replies[c] /\ replies' = [replies EXCEPT ![c] = {}]
    BY <1>7, <2>2
  <2>9. SecondRead(c)'
    <3>1. ASSUME NEW x \in Followed(old.before, old.u)
          PROVE  Covered(c, x)'
      <4>1. ask[c] = {} /\ Covered(c, x)
        BY <1>1, <1>4, <2>1, SoleFacts DEF SecondRead
      <4>2. CASE x \in old.hops
        BY <2>5, <2>7, <4>2 DEF Covered
      <4>3. CASE Followed(old.before, x) \subseteq r.ids \/ Followed(old.before, x) \ {old.u} \subseteq old.ids
        <5>1. Followed(old.before, x) \ {old.u} \subseteq ids
          BY <1>3, <4>3
        <5> QED
          BY <2>5, <2>7, <5>1 DEF Covered
      <4> QED
        BY <1>2, <2>2, <4>1, <4>2, <4>3 DEF Covered
    <3>2. old.hops \subseteq Followed(edges, old.u)
      BY <1>1, <1>4 DEF SecondRead
    <3> QED
      BY <1>4, <1>5, <1>7, <2>2, <2>5, <2>7, <2>8, <3>1, <3>2 DEF SecondRead
  <2>10. ClientOK(c)'
    <3>1. /\ call.kind \in {"twoHop", "batched"} /\ (call.kind = "batched" => call.hops = {})
      BY <2>1, <2>5
    <3>2. PICK A \in SUBSET Users : A = {v}
      BY <2>7
    <3>3. ask'[c] = A /\ (call.kind = "twoHop" => \A x, y \in A : x = y)
      BY <2>7, <3>2
    <3>4. replies[c] # {} /\ replies'[c] = {} /\ UNCHANGED <<known, edges, queue, busy>>
      BY <1>5, <2>2, <2>8
    <3>5. call.u = old.u /\ call.v = old.v /\ call.before = old.before /\ call.kind = old.kind
      BY <2>5
    <3>6. call \in Calls /\ call.stage = "second" /\ calls'[c] = call
      BY <2>5, <2>7
    <3> QED
      BY <2>1, <2>9, <3>1, <3>3, <3>4, <3>5, <3>6, HopsClient
  <2> QED
    BY <1>4, <1>5, <1>6, <2>5, <2>6, <2>7, <2>8, <2>10, JoinStep
<1>9. ASSUME old.hops = {}, ask' = ask, NEW stage,
             stage = IF AllJoined(c, r) THEN "done" ELSE "second",
             calls' = [calls EXCEPT ![c].ids = ids, ![c].stage = stage]
      PROVE  IInv'
  <2>1. PICK call : call = [old EXCEPT !.ids = ids, !.stage = stage]
    OBVIOUS
  <2>2. /\ call \in Calls /\ call.kind = old.kind /\ call.u = old.u /\ call.v = old.v /\ call.ids = ids
        /\ call.before = old.before /\ call.hops = {} /\ call.stage = stage
    BY <1>4, <1>9, <2>1 DEF Calls
  <2>3. calls' = [calls EXCEPT ![c] = call] /\ calls'[c] = call
    BY <1>9, <2>1 DEF IInv, TypeOK
  <2>4. ask' = [ask EXCEPT ![c] = ask[c]] /\ ask[c] \in SUBSET Users
    BY <1>9 DEF IInv, TypeOK
  <2>5. \A x \in Followed(old.before, old.u) :
            \/ x \in ask[c]
            \/ \E s \in Shards : \E m \in Flying(c, s) : x \in m.users
            \/ \E p \in replies[c] \ {r} : p.ok => Followed(old.before, x) \subseteq p.ids
            \/ Followed(old.before, x) \ {old.u} \subseteq ids
    <3>1. \A x \in Followed(old.before, old.u) : Covered(c, x)
      BY <1>1, <1>4 DEF SecondRead
    <3> QED
      BY <1>2, <1>3, <1>9, <3>1 DEF Covered
  <2>6. Started(c)' /\ Applied(c)' /\ FirstRead(c)'
    BY <1>1, <1>4, <1>5, <1>9, <2>2, <2>3 DEF ClientOK, Started, Applied, FirstRead, Reading
  <2>7. CASE AllJoined(c, r)
    <3>1. stage = "done" /\ ask[c] = {} /\ replies'[c] = {} /\ \A s \in Shards : Flying(c, s) = {}
      BY <1>7, <1>9, <2>7 DEF AllJoined, Flying
    <3>2. ~Active(c)'
      BY <2>2, <2>3, <3>1 DEF Active
    <3>3. Quiet(c)' /\ Sole(c)' /\ AskedOnce(c)' /\ Sent(c)' /\ Staged(c)' /\ SecondRead(c)'
      BY <1>7, <1>9, <2>2, <2>3, <3>1, <3>2 DEF Quiet, Sole, AskedOnce, Sent, Staged, SecondRead
    <3>4. Reads(old.kind, old.before, old.u) \subseteq ids
      <4>1. \A x \in Followed(old.before, old.u) : Followed(old.before, x) \ {old.u} \subseteq ids
        BY <1>7, <2>5, <3>1
      <4> QED
        BY <1>1, <4>1 DEF Reads
    <3>5. Bracketed(c)'
      BY <1>4, <1>5, <2>2, <2>3, <3>4 DEF Bracketed
    <3>6. ClientOK(c)'
      BY <2>6, <3>3, <3>5 DEF ClientOK
    <3> QED
      BY <1>4, <1>5, <1>6, <1>7, <2>2, <2>3, <2>4, <3>6, JoinStep
  <2>8. CASE ~AllJoined(c, r)
    <3>1. stage = "second"
      BY <1>9, <2>8
    <3>2. Fanned(c) /\ old.kind = "batched"
      <4>1. ~Fanned(c) => AllJoined(c, r)
        BY SoleFacts DEF AllJoined, Flying
      <4> QED
        BY <2>8, <4>1 DEF Fanned
    <3>3. Active(c)' /\ Fanned(c)' /\ ask'[c] = ask[c]
      BY <1>9, <2>2, <2>3, <3>1, <3>2 DEF Active, Fanned
    <3>4. Quiet(c)' /\ Sole(c)' /\ Bracketed(c)'
      BY <2>2, <2>3, <3>1, <3>3 DEF Quiet, Sole, Bracketed
    <3>5. AskedOnce(c)' /\ Sent(c)'
      BY <1>4, <1>7, <2>2, <2>3, <3>3 DEF ClientOK, AskedOnce, Sent, Batch
    <3>6. Staged(c)'
      BY <1>1, <1>4, <1>5, <2>2, <2>3, <3>1 DEF ClientOK, Staged
    <3>7. SecondRead(c)'
      <4>1. \A x \in Followed(old.before, old.u) : Covered(c, x)'
        BY <1>7, <2>2, <2>3, <2>5, <3>3 DEF Covered
      <4> QED
        BY <1>1, <1>4, <1>5, <1>7, <2>2, <2>3, <3>3, <4>1 DEF SecondRead
    <3>8. ClientOK(c)'
      BY <2>6, <3>4, <3>5, <3>6, <3>7 DEF ClientOK
    <3> QED
      BY <1>4, <1>5, <1>6, <1>7, <2>2, <2>3, <2>4, <3>8, JoinStep
  <2> QED
    BY <2>7, <2>8
<1>10. CASE old.hops # {}
  BY <1>2, <1>3, <1>8, <1>10
<1>11. CASE old.hops = {}
  <2>1. PICK stage : stage = IF AllJoined(c, r) THEN "done" ELSE "second"
    OBVIOUS
  <2>2. calls' = [calls EXCEPT ![c].ids = ids, ![c].stage = stage] /\ ask' = ask
    BY <1>1, <1>2, <1>3, <1>4, <1>11, <2>1 DEF IInv, TypeOK, Calls
  <2> QED
    BY <1>9, <1>11, <2>1, <2>2
<1> QED
  BY <1>10, <1>11

LEMMA InitInv == Init => IInv
<1> SUFFICES ASSUME Init PROVE IInv
  OBVIOUS
<1> USE DEF Init
<1>1. \A s \in Shards : queue[s] = <<>> /\ busy[s] = {} /\ InFlight(s) = {}
  BY EmptyQueue DEF InFlight
<1>2. \A c \in Clients : /\ calls[c] = NoCall /\ ask[c] = {} /\ replies[c] = {}
                         /\ \A s \in Shards : Flying(c, s) = {}
  BY <1>1 DEF Flying
<1>3. TypeOK
  <2>1. \A s \in Shards : Len(queue[s]) <= ChannelCapacity /\ Cardinality(busy[s]) <= 1
    <3>1. Len(<<>>) <= ChannelCapacity
      BY EmptyQueue, DistributedAssumption
    <3> QED
      BY <1>1, <3>1, CardinalityOfBusy
  <2>2. queue \in [Shards -> Seq(Commands)] /\ busy \in [Shards -> SUBSET Commands]
    BY EmptyQueue
  <2> QED
    BY <2>1, <2>2 DEF TypeOK
<1>4. \A s \in Shards : Orderly(s)
  BY <1>1, EmptyQueue DEF Orderly
<1>5. \A c \in Clients : ClientOK(c) /\ Exclusive(c)
  <2>1. \A c \in Clients : ~Active(c) /\ ~Reading(c) /\ calls[c].kind = "none"
    BY <1>2 DEF Active, Reading, NoCall
  <2> QED
    BY <1>2, <2>1 DEF ClientOK, Quiet, Sole, AskedOnce, Sent, Staged, Applied, Started,
                      FirstRead, SecondRead, Bracketed, Exclusive
<1>6. EdgesKnown /\ ErrorsBlameWorkers
  BY <1>2 DEF EdgesKnown, ErrorsBlameWorkers
<1> QED
  BY <1>1, <1>3, <1>4, <1>5, <1>6 DEF IInv

LEMMA StepInv == IInv /\ [Next]_vars => IInv'
<1> SUFFICES ASSUME IInv, [Next]_vars PROVE IInv'
  OBVIOUS
<1>1. ASSUME NEW c \in Clients, NEW u \in Users,
             BeginAddUser(c, u) \/ BeginGetFollowing(c, u) \/ BeginTwoHop(c, u) \/ BeginBatched(c, u)
      PROVE  IInv'
  BY <1>1, StartStep DEF BeginAddUser, BeginGetFollowing, BeginTwoHop, BeginBatched
<1>2. ASSUME NEW c \in Clients, NEW p \in Pairs, BeginAddFollow(c, p[1], p[2])
      PROVE  IInv'
  <2>1. p[1] \in Users /\ p[2] \in Users
    BY DistributedAssumption
  <2> QED
    BY <1>2, <2>1, StartStep DEF BeginAddFollow
<1>3. ASSUME NEW c \in Clients, NEW s \in Shards, Send(c, s) \/ SendFails(c, s)
      PROVE  IInv'
  BY <1>3, SendStep, SendFailsStep
<1>4. ASSUME NEW c \in Clients, Join(c) \/ Cancel(c)
      PROVE  IInv'
  BY <1>4, JoinErrorStep, JoinAddUserStep, JoinAddFollowStep, JoinFollowingStep,
     JoinFirstStep, JoinSecondStep, ReturnStep, CancelStep DEF Join
<1>5. ASSUME NEW s \in Shards, Serve(s) \/ WorkerStop(s)
      PROVE  IInv'
  BY <1>5, ReceiveStep, ServeAddUserStep, ServeAddFollowStep, ServeReadStep, WorkerStopStep DEF Serve
<1>6. CASE UNCHANGED vars
  <2> USE <1>6 DEF vars
  <2>1. ChannelsOK' /\ \A s : InFlight(s)' = InFlight(s)
    BY ChannelFacts, SameFlight
  <2>2. Grows /\ \A c \in Clients : Undisturbed(c)
    BY <2>1 DEF Grows, Undisturbed, Flying
  <2>3. \A c \in Clients : ClientOK(c)'
    BY <2>2, Frame DEF IInv
  <2>4. \A t \in Shards : \A n \in InFlight(t)' : CommandOK(t, n)'
    BY <2>1, <2>2, CommandsKept DEF IInv
  <2>5. TypeOK' /\ EdgesKnown' /\ ErrorsBlameWorkers' /\ \A c \in Clients : Exclusive(c)'
    BY DEF IInv, TypeOK, EdgesKnown, ErrorsBlameWorkers, Exclusive, Active
  <2> QED
    BY <2>1, <2>3, <2>4, <2>5 DEF IInv, ChannelsOK
<1> QED
  BY <1>1, <1>2, <1>3, <1>4, <1>5, <1>6 DEF Next

-----------------------------------------------------------------------------
(* The invariants *)

\* Channels, callers and workers keep the inductive invariant.
THEOREM Invariance == Spec => []IInv
  BY InitInv, StepInv, PTL DEF Spec

\* The state keeps its shape, and no channel outgrows its capacity.
THEOREM TypeCorrect == Spec => []TypeOK
  BY Invariance, PTL DEF IInv

\* Both ends of every edge are known, and known users are with their workers.
THEOREM EdgesKnownCorrect == Spec => []EdgesKnown
  BY Invariance, PTL DEF IInv

\* Every answer lies between the graph at the start of its call and the graph
\* at its end, whatever other callers, full channels and lost workers do.
THEOREM AnswersCorrect == Spec => []AnswerBracketed
<1>1. IInv => AnswerBracketed
  <2> SUFFICES ASSUME IInv, NEW c \in Clients,
                      calls[c].kind \in {"getFollowing", "twoHop", "batched"}, calls[c].stage = "done"
               PROVE  /\ Reads(calls[c].kind, calls[c].before, calls[c].u) \subseteq calls[c].ids
                      /\ calls[c].ids \subseteq Reads(calls[c].kind, edges, calls[c].u)
    BY DEF AnswerBracketed
  <2>1. Bracketed(c) /\ Reading(c)
    BY DEF IInv, ClientOK, Reading
  <2> QED
    BY <2>1 DEF Bracketed
<1> QED
  BY <1>1, Invariance, PTL

\* Only a lost worker, or an add_user given up before, makes a call fail.
THEOREM ErrorsCorrect == Spec => []ErrorsBlameWorkers
  BY Invariance, PTL DEF IInv

-----------------------------------------------------------------------------
(* The refinement of GraphService *)

Shown == [c \in Clients |-> Sketch(c)]

LEMMA ReadsAgree ==
    ASSUME NEW k, NEW E, NEW u
    PROVE  Reads(k, E, u) = Service!Reads(k, E, u)
<1>1. Followed(E, u) = Service!Followed(E, u)
  BY DEF Followed, Service!Followed
<1>2. (UNION {Followed(E, v) : v \in Followed(E, u)}) \ {u} = Service!TwoHop(E, u)
  <2>1. \A w : w \in UNION {Followed(E, v) : v \in Followed(E, u)}
                <=> w \in Users /\ \E v \in Users : <<u, v>> \in E /\ <<v, w>> \in E
    <3>1. \A x, y : y \in Followed(E, x) <=> y \in Users /\ <<x, y>> \in E
      BY DEF Followed
    <3>2. \A w : w \in UNION {Followed(E, v) : v \in Followed(E, u)}
                  <=> \E v \in Followed(E, u) : w \in Followed(E, v)
      OBVIOUS
    <3> QED
      BY <3>1, <3>2
  <2>2. \A w : w \in Service!TwoHop(E, u)
                <=> w \in Users /\ w # u /\ \E v \in Users : <<u, v>> \in E /\ <<v, w>> \in E
    BY DEF Service!TwoHop
  <2> QED
    BY <2>1, <2>2
<1> QED
  BY <1>1, <1>2 DEF Reads, Service!Reads

\* What a client shows of a call.
Showing(call) ==
    [kind |-> call.kind, u |-> call.u, v |-> call.v, before |-> call.before,
     stage |-> IF call.stage \in {"first", "second"} THEN "running" ELSE call.stage,
     ids |-> IF call.stage = "done" THEN call.ids ELSE {}]

LEMMA ShowingFields ==
    ASSUME NEW call
    PROVE  /\ Showing(call).kind = call.kind /\ Showing(call).u = call.u
           /\ Showing(call).v = call.v /\ Showing(call).before = call.before
           /\ Showing(call).stage = IF call.stage \in {"first", "second"} THEN "running" ELSE call.stage
           /\ Showing(call).ids = IF call.stage = "done" THEN call.ids ELSE {}
  BY DEF Showing

LEMMA SketchShows ==
    /\ \A c : calls[c] \in Calls => Sketch(c) = Showing(calls[c])
    /\ \A c : calls'[c] \in Calls => Sketch(c)' = Showing(calls'[c])
<1>1. \A call \in Calls : call # NoCall /\ call.kind # "none"
  BY DEF Calls, NoCall
<1> QED
  BY <1>1 DEF Sketch, Showing, Active

LEMMA ShownCall ==
    ASSUME NEW c \in Clients, calls[c] \in Calls
    PROVE  /\ Shown[c] = Showing(calls[c])
           /\ Shown[c].kind = calls[c].kind /\ Shown[c].before = calls[c].before
           /\ Shown[c].u = calls[c].u /\ Shown[c].v = calls[c].v
           /\ Shown[c] # NoCall
           /\ Service!Running(c) <=> Active(c)
<1>1. calls[c].kind # "none" /\ calls[c].stage # "running"
  BY DEF Calls
<1>2. Shown[c] = Showing(calls[c])
  BY SketchShows DEF Shown
<1>3. Service!Running(c) <=> Shown[c].kind # "none" /\ Shown[c].stage = "running"
  BY DEF Service!Running, Shown
<1>4. NoCall.kind = "none"
  BY DEF NoCall
<1> QED
  BY <1>1, <1>2, <1>3, <1>4, ShowingFields DEF Active

LEMMA ShownNoCall ==
    ASSUME NEW c \in Clients, calls[c] = NoCall
    PROVE  Shown[c] = NoCall
  BY DEF Shown, Sketch

\* The loose edges are those of the commands that Nobody waits for.
LEMMA LooseEdges ==
    /\ \A e : e \in Loose <=>
           \E s \in Shards : \E m \in InFlight(s) :
               m.from = Nobody /\ m.kind = "addFollow" /\ e \in m.users \X m.targets
    /\ \A e : e \in Loose' <=>
           \E s \in Shards : \E m \in InFlight(s)' :
               m.from = Nobody /\ m.kind = "addFollow" /\ e \in m.users \X m.targets
  BY DEF Loose, Unowned

LEMMA LooseSame ==
    ASSUME \A s \in Shards : \A m : m.from = Nobody /\ m.kind = "addFollow" =>
               (m \in InFlight(s)' <=> m \in InFlight(s))
    PROVE  Loose' = Loose
  BY LooseEdges

\* Only the call of c changes, and it stays the same call.
SameCall(c) ==
    /\ calls'[c] \in Calls
    /\ calls'[c].kind = calls[c].kind /\ calls'[c].before = calls[c].before
    /\ calls'[c].u = calls[c].u /\ calls'[c].v = calls[c].v
    /\ \A d \in Clients \ {c} : calls'[d] = calls[d]

LEMMA ShownOthers ==
    ASSUME NEW c \in Clients, \A d \in Clients \ {c} : calls'[d] = calls[d],
           NEW x, x = Sketch(c)'
    PROVE  Shown' = [Shown EXCEPT ![c] = x]
<1>1. \A d \in Clients \ {c} : Sketch(d)' = Sketch(d)
  BY DEF Sketch, Active
<1> QED
  BY <1>1 DEF Shown

\* A call goes on.
LEMMA ProgressRefines ==
    ASSUME NEW c \in Clients, calls[c] \in Calls, Active(c), SameCall(c),
           calls'[c].stage \in {"first", "second"},
           UNCHANGED <<known, edges>>, Loose' = Loose
    PROVE  UNCHANGED Service!vars
<1>1. Sketch(c)' = Sketch(c)
  <2>1. Showing(calls'[c]) = Showing(calls[c])
    BY DEF Showing, SameCall, Active
  <2> QED
    BY <2>1, SketchShows DEF SameCall
<1>2. Shown' = Shown
  <2>1. \A d \in Clients : Sketch(d)' = Sketch(d)
    BY <1>1 DEF Sketch, Active, SameCall
  <2> QED
    BY <2>1 DEF Shown
<1> QED
  BY <1>2 DEF Service!vars, Shown

\* The provers take one field of a record at a time.
LEMMA ShowingDone ==
    ASSUME NEW call, NEW x, NEW y
    PROVE  [Showing(call) EXCEPT !.stage = x, !.ids = y]
           = [kind |-> call.kind, u |-> call.u, v |-> call.v, before |-> call.before,
              stage |-> x, ids |-> y]
<1>1. PICK r : r = Showing(call)
  OBVIOUS
<1>2. PICK q : q = [r EXCEPT !.stage = x]
  OBVIOUS
<1>3. q = [kind |-> call.kind, u |-> call.u, v |-> call.v, before |-> call.before,
           stage |-> x, ids |-> IF call.stage = "done" THEN call.ids ELSE {}]
  BY <1>1, <1>2 DEF Showing
<1>4. [q EXCEPT !.ids = y]
      = [kind |-> call.kind, u |-> call.u, v |-> call.v, before |-> call.before,
         stage |-> x, ids |-> y]
  BY <1>3
<1> QED
  BY <1>1, <1>2, <1>4

\* A call is done.
LEMMA DoneRefines ==
    ASSUME NEW c \in Clients, calls[c] \in Calls, Active(c), SameCall(c),
           calls'[c].stage = "done", Bracketed(c)',
           calls[c].kind \in {"addUser", "addFollow"} => calls'[c].ids = {},
           calls[c].kind = "addFollow" => <<calls[c].u, calls[c].v>> \in edges,
           known' = IF calls[c].kind = "addUser" THEN known \cup {calls[c].u} ELSE known,
           edges' = edges, Loose' = Loose
    PROVE  Service!Done(c)
<1> DEFINE k == calls[c].kind
           u == calls[c].u
           R == calls'[c].ids
<1>1. /\ Shown[c].kind = k /\ Shown[c].u = u /\ Shown[c].v = calls[c].v
      /\ Shown[c].before = calls[c].before /\ Service!Running(c)
  BY ShownCall
<1>2. Sketch(c)' = [Shown[c] EXCEPT !.stage = "done", !.ids = R]
  <2>1. Sketch(c)' = [kind |-> k, u |-> u, v |-> calls[c].v, before |-> calls[c].before,
                      stage |-> "done", ids |-> R]
    BY SketchShows DEF Showing, SameCall
  <2>2. Shown[c] = Showing(calls[c])
    BY ShownCall
  <2>3. PICK call : call = calls[c]
    OBVIOUS
  <2>4. [Showing(call) EXCEPT !.stage = "done", !.ids = R]
        = [kind |-> call.kind, u |-> call.u, v |-> call.v, before |-> call.before,
           stage |-> "done", ids |-> R]
    <3> HIDE DEF R
    <3> QED
      BY ShowingDone
  <2> QED
    BY <2>1, <2>2, <2>3, <2>4
<1>3. Shown' = [Shown EXCEPT ![c].stage = "done", ![c].ids = R]
  <2>1. Shown' = [Shown EXCEPT ![c] = Sketch(c)']
    BY ShownOthers DEF SameCall
  <2>2. DOMAIN Shown = Clients
    BY DEF Shown
  <2> QED
    BY <1>2, <2>1, <2>2 DEF Shown
<1>4. R \in IF k \in {"addUser", "addFollow"} THEN {{}}
            ELSE {S \in SUBSET Service!Reads(k, edges, u) : Service!Reads(k, calls[c].before, u) \subseteq S}
  <2>1. CASE k \in {"addUser", "addFollow"}
    BY <2>1
  <2>2. CASE k \notin {"addUser", "addFollow"}
    <3>1. Reads(k, calls[c].before, u) \subseteq R /\ R \subseteq Reads(k, edges, u)
      BY <2>2 DEF Bracketed, Reading, SameCall, Calls
    <3> QED
      BY <2>2, <3>1, ReadsAgree
  <2> QED
    BY <2>1, <2>2
<1> HIDE DEF R
<1> QED
  BY <1>1, <1>3, <1>4 DEF Service!Done, Shown

\* A call that ends without an answer leaves its edge loose, or not.
LEMMA AbandonLoose ==
    ASSUME IInv, NEW c \in Clients, Active(c), Abandon(c)
    PROVE  Loose' \in {Loose, Service!Dangling(c)}
<1> USE DEF IInv
<1> DEFINE k == calls[c]
<1>1. ChannelsOK /\ \A s \in Shards : InFlight(s)' = {Disown(m, c) : m \in InFlight(s)}
  BY ChannelFacts, AbandonFlight
<1>2. \A s \in Shards : \A m \in InFlight(s) :
          /\ m \in Commands
          /\ m.from # c => Disown(m, c) = m
          /\ Disown(m, c).kind = m.kind /\ Disown(m, c).users = m.users
          /\ Disown(m, c).targets = m.targets
  <2>1. \A s \in Shards : InFlight(s) \subseteq Commands
    BY <1>1, FlightCommands
  <2> QED
    BY <2>1, DisownCommand
<1>3. c # Nobody /\ k \in Calls /\ ClientOK(c)
  BY DistributedAssumption, CallFacts
<1>4. Loose \subseteq Loose'
  <2> SUFFICES ASSUME NEW e \in Loose PROVE e \in Loose'
    OBVIOUS
  <2>1. PICK s, m :
            s \in Shards /\ m \in InFlight(s) /\ m.from = Nobody /\ m.kind = "addFollow" /\ e \in m.users \X m.targets
    BY LooseEdges
  <2>2. m \in InFlight(s)'
    BY <1>1, <1>2, <1>3, <2>1
  <2> QED
    BY <2>1, <2>2, LooseEdges
<1>5. ASSUME NEW e \in Loose', e \notin Loose
      PROVE  k.kind = "addFollow" /\ e = <<k.u, k.v>>
  <2>1. PICK s, n :
            s \in Shards /\ n \in InFlight(s)' /\ n.from = Nobody /\ n.kind = "addFollow" /\ e \in n.users \X n.targets
    BY LooseEdges
  <2>2. PICK m \in InFlight(s) : n = Disown(m, c)
    BY <1>1, <2>1
  <2>3. m.from = c
    <3>1. CASE m.from # c
      <4>1. n = m
        BY <1>2, <2>1, <2>2, <3>1
      <4> QED
        BY <1>5, <2>1, <2>2, <4>1, LooseEdges
    <3> QED
      BY <3>1
  <2>4. m \in Flying(c, s) /\ m.kind = "addFollow" /\ e \in m.users \X m.targets
    BY <1>2, <2>1, <2>2, <2>3 DEF Flying
  <2>5. k.kind = "addFollow" /\ m.targets = {k.v}
    BY <1>3, <2>1, <2>4 DEF ClientOK, Sent
  <2>6. m.users = {k.u}
    BY <1>3, <2>1, <2>4, <2>5 DEF ClientOK, Staged, Active
  <2> QED
    BY <2>4, <2>5, <2>6
<1>6. Service!Dangling(c) = Loose \cup IF k.kind = "addFollow" THEN {<<k.u, k.v>>} ELSE {}
  <2>1. Shown[c].kind = k.kind /\ Shown[c].u = k.u /\ Shown[c].v = k.v
    BY <1>3, ShownCall
  <2> QED
    BY <2>1 DEF Service!Dangling, Shown
<1> QED
  BY <1>4, <1>5, <1>6

LEMMA StartRefines ==
    ASSUME IInv, NEW c \in Clients, NEW u \in Users, NEW v \in Users,
           NEW k \in {"addUser", "addFollow", "getFollowing", "twoHop", "batched"},
           k = "addUser" => u \notin known /\ \A d \in Clients : calls[d] = NoCall,
           k # "addUser" => {u, v} \subseteq known,
           Start(c, k, u, v)
    PROVE  Service!Begin(c)
<1> USE DEF IInv
<1> DEFINE call == NewCall(k, u, v)
<1>1. calls' = [calls EXCEPT ![c] = call] /\ calls[c] = NoCall
      /\ UNCHANGED <<known, edges, queue, busy>>
      /\ \A d \in Clients : calls[d].kind # "addUser"
  BY DEF Start
<1>2. call \in Calls
  BY DEF TypeOK, NewCall, Before, Calls
<1>3. calls'[c] = call /\ \A d \in Clients \ {c} : calls'[d] = calls[d]
  BY <1>1 DEF TypeOK
<1>4. Sketch(c)' = Service!NewCall(k, u, v)
  <2>1. Sketch(c)' = Showing(call)
    <3> HIDE DEF call
    <3> QED
      BY <1>2, <1>3, SketchShows
  <2>2. Showing(call) = Service!NewCall(k, u, v)
    BY DEF Showing, NewCall, Service!NewCall, Before, Service!Before
  <2> QED
    BY <2>1, <2>2
<1>5. Shown' = [Shown EXCEPT ![c] = Service!NewCall(k, u, v)]
  BY <1>3, <1>4, ShownOthers
<1>6. \A d \in Clients : /\ Shown[d].kind = calls[d].kind
                         /\ calls[d] = NoCall => Shown[d] = NoCall
  <2>1. \A d \in Clients : calls[d] \in Calls => Shown[d].kind = calls[d].kind
    BY ShownCall
  <2>2. \A d \in Clients : calls[d] = NoCall => Shown[d] = NoCall
    BY ShownNoCall
  <2> QED
    BY <2>1, <2>2 DEF TypeOK
<1>7. Loose' = Loose
  <2>1. \A s \in Shards : InFlight(s)' = InFlight(s)
    BY <1>1 DEF InFlight
  <2> QED
    BY <2>1, LooseSame
<1>8. NoCall = Service!NoCall /\ k \in Service!Kinds
  BY DEF NoCall, Service!NoCall, Service!Kinds
<1>9. IF k = "addUser" THEN u \notin known /\ \A d \in Clients : Shown[d] = NoCall
      ELSE {u, v} \subseteq known
  BY <1>6
<1>10. \E j \in Service!Kinds, x \in Users, y \in Users :
           /\ IF j = "addUser" THEN x \notin known /\ \A d \in Clients : Shown[d] = Service!NoCall
              ELSE {x, y} \subseteq known
           /\ Shown' = [Shown EXCEPT ![c] = Service!NewCall(j, x, y)]
  <2> k \in Service!Kinds
    BY <1>8
  <2> WITNESS k \in Service!Kinds, u \in Users, v \in Users
  <2> QED
    BY <1>5, <1>8, <1>9
<1>11. Shown[c] = Service!NoCall /\ \A d \in Clients : Shown[d].kind # "addUser"
  BY <1>1, <1>6, <1>8
<1>12. UNCHANGED <<known, edges, Loose>>
  BY <1>1, <1>7
<1> QED
  BY <1>10, <1>11, <1>12 DEF Service!Begin, Shown

\* Commands on their way change nothing that a caller can tell.
LEMMA SameShown ==
    ASSUME UNCHANGED <<known, edges, calls>>, Loose' = Loose
    PROVE  UNCHANGED Service!vars
<1>1. \A c : Sketch(c)' = Sketch(c)
  BY DEF Sketch, Active
<1> QED
  BY <1>1 DEF Service!vars

LEMMA SendRefines ==
    ASSUME IInv, NEW c \in Clients, NEW s \in Shards, Send(c, s) \/ SendFails(c, s)
    PROVE  UNCHANGED Service!vars
<1> USE DEF IInv
<1>1. CASE Send(c, s)
  <2>1. Flying(c, s) = {} /\ ChannelsOK /\ c # Nobody
    BY <1>1, ChannelFacts, DistributedAssumption DEF Send, ClientOK, AskedOnce
  <2>2. \A t \in Shards : InFlight(t)' = IF t = s THEN InFlight(s) \cup {Command(c, s)}
                                         ELSE InFlight(t)
    BY <1>1, <2>1, SendFlight
  <2>3. Command(c, s).from = c
    BY DEF Command
  <2>4. Loose' = Loose
    BY <2>1, <2>2, <2>3, LooseSame
  <2> QED
    BY <1>1, <2>4, SameShown DEF Send
<1>2. CASE SendFails(c, s)
  <2>1. \A t \in Shards : InFlight(t)' = InFlight(t)
    BY <1>2 DEF SendFails, InFlight
  <2> QED
    BY <1>2, <2>1, LooseSame, SameShown DEF SendFails
<1> QED
  BY <1>1, <1>2

LEMMA ReceiveRefines ==
    ASSUME IInv, NEW s \in Shards, WorkerReceive(s)
    PROVE  UNCHANGED Service!vars
<1>1. \A t \in Shards : InFlight(t)' = InFlight(t)
  BY ChannelFacts, ReceiveFlight
<1> QED
  BY <1>1, LooseSame, SameShown DEF WorkerReceive

\* Serving anything but a follow that Nobody waits for leaves the loose edges.
LEMMA ServeLoose ==
    ASSUME IInv, NEW s \in Shards, NEW m \in busy[s], m.kind # "addFollow" \/ m.from # Nobody,
           queue' = queue, busy' = [busy EXCEPT ![s] = {}]
    PROVE  Loose' = Loose
<1>1. /\ \A t \in Shards \ {s} : InFlight(t)' = InFlight(t)
      /\ InFlight(s)' \subseteq InFlight(s) /\ InFlight(s) \subseteq InFlight(s)' \cup {m}
  BY ChannelFacts, ServeFlight
<1> QED
  BY <1>1, LooseSame

LEMMA ServeReadRefines ==
    ASSUME IInv, NEW s \in Shards, ServeAddUser(s) \/ ServeRead(s)
    PROVE  UNCHANGED Service!vars
<1>1. PICK m \in busy[s] : /\ m.kind # "addFollow"
                           /\ queue' = queue /\ busy' = [busy EXCEPT ![s] = {}]
                           /\ UNCHANGED <<known, edges, calls>>
  BY DEF ServeAddUser, ServeRead, Reply
<1> QED
  BY <1>1, ServeLoose, SameShown

\* A follow takes effect when its worker serves it, for its call or for no one.
LEMMA ServeAddFollowRefines ==
    ASSUME IInv, NEW s \in Shards, ServeAddFollow(s)
    PROVE  Service!Effect
<1> USE DEF IInv
<1>1. PICK m \in busy[s] :
          /\ m.kind = "addFollow"
          /\ edges' = IF m.users \subseteq stored[s] THEN edges \cup (m.users \X m.targets) ELSE edges
          /\ queue' = queue /\ busy' = [busy EXCEPT ![s] = {}]
          /\ UNCHANGED <<known, calls>>
  BY DEF ServeAddFollow, Reply
<1>2. m \in InFlight(s) /\ m \in Commands /\ CommandOK(s, m)
  BY DEF TypeOK, InFlight
<1>3. PICK u \in known, v \in known : m.users = {u} /\ m.targets = {v}
  BY <1>1, <1>2 DEF CommandOK
<1>4. edges' = edges \cup {<<u, v>>} /\ Shown' = Shown
  <2>1. u \in stored[s]
    BY <1>2, <1>3 DEF CommandOK, TypeOK, EdgesKnown
  <2>2. \A c : Sketch(c)' = Sketch(c)
    BY <1>1 DEF Sketch, Active
  <2> QED
    BY <1>1, <1>3, <2>1, <2>2 DEF Shown
<1>5. CASE m.from # Nobody
  <2>1. PICK c \in Clients : m.from = c
    BY <1>2, <1>5 DEF Commands
  <2>2. Active(c) /\ m \in Flying(c, s) /\ ClientOK(c) /\ calls[c] \in Calls
    BY <1>2, <2>1, FlyingFacts, CallFacts
  <2>3. calls[c].kind = "addFollow" /\ m.targets = {calls[c].v}
    BY <1>1, <2>2 DEF ClientOK, Sent
  <2>4. m.users = {calls[c].u}
    BY <2>2, <2>3 DEF ClientOK, Staged, Active
  <2>5. /\ Service!Running(c) /\ Shown[c].kind = "addFollow"
        /\ Shown[c].u = u /\ Shown[c].v = v
    BY <1>3, <2>2, <2>3, <2>4, ShownCall
  <2>6. Loose' = Loose
    BY <1>1, <1>5, ServeLoose
  <2> QED
    BY <1>1, <1>4, <2>5, <2>6 DEF Service!Effect, Shown
<1>6. CASE m.from = Nobody
  <2>1. /\ \A t \in Shards \ {s} : InFlight(t)' = InFlight(t)
        /\ InFlight(s)' \subseteq InFlight(s) /\ InFlight(s) \subseteq InFlight(s)' \cup {m}
    BY <1>1, ChannelFacts, ServeFlight
  <2>2. m.users \X m.targets = {<<u, v>>}
    BY <1>3
  <2>3. <<u, v>> \in Loose
    BY <1>1, <1>2, <1>6, <2>2, LooseEdges
  <2>4. \A e : e \in Loose' => e \in Loose
    BY <2>1, LooseEdges
  <2>5. \A e : e \in Loose /\ e # <<u, v>> => e \in Loose'
    BY <2>1, <2>2, LooseEdges
  <2>6. Loose' \in {Loose, Loose \ {<<u, v>>}}
    BY <2>3, <2>4, <2>5
  <2> QED
    BY <1>1, <1>4, <2>3, <2>6 DEF Service!Effect, Shown
<1> QED
  BY <1>5, <1>6

LEMMA StopRefines ==
    ASSUME IInv, NEW s \in Shards, WorkerStop(s)
    PROVE  Service!Lose
<1>1. \A t \in Shards : InFlight(t)' = IF t = s THEN {} ELSE InFlight(t)
  BY ChannelFacts, StopFlight
<1>2. Loose' \subseteq Loose
  BY <1>1, LooseEdges
<1>3. \A c : Sketch(c)' = Sketch(c)
  BY DEF WorkerStop, Sketch, Active
<1> QED
  BY <1>2, <1>3 DEF WorkerStop, Service!Lose

\* The call of c is replaced by another or by none; the channels stay.
LEMMA CancelRefines ==
    ASSUME IInv, NEW c \in Clients, Cancel(c)
    PROVE  Service!Cancel(c)
<1>1. Active(c) /\ Abandon(c) /\ calls[c] \in Calls /\ UNCHANGED <<known, edges>>
  BY CallFacts DEF Cancel
<1>2. Loose' \in {Loose, Service!Dangling(c)}
  BY <1>1, AbandonLoose
<1>3. calls'[c] = NoCall /\ \A d \in Clients \ {c} : calls'[d] = calls[d]
  BY DEF Cancel, IInv, TypeOK
<1>4. Shown' = [Shown EXCEPT ![c] = NoCall]
  <2>1. Sketch(c)' = NoCall
    BY <1>3 DEF Sketch
  <2> QED
    BY <1>3, <2>1, ShownOthers
<1>5. NoCall = Service!NoCall /\ Service!Running(c)
  BY <1>1, ShownCall DEF NoCall, Service!NoCall
<1> QED
  BY <1>1, <1>2, <1>4, <1>5 DEF Service!Cancel, Shown

LEMMA JoinErrorRefines ==
    ASSUME IInv, NEW c \in Clients, JoinError(c)
    PROVE  Service!Fail(c)
<1>1. Active(c) /\ Abandon(c) /\ calls[c] \in Calls /\ UNCHANGED <<known, edges>>
  BY CallFacts DEF JoinError
<1>2. Loose' \in {Loose, Service!Dangling(c)}
  BY <1>1, AbandonLoose
<1>3. PICK call : call = [calls[c] EXCEPT !.stage = "failed", !.hops = {}, !.ids = {}]
  OBVIOUS
<1>4. /\ call \in Calls /\ call.kind = calls[c].kind /\ call.u = calls[c].u /\ call.v = calls[c].v
      /\ call.before = calls[c].before /\ call.stage = "failed" /\ call.ids = {}
  BY <1>1, <1>3 DEF Calls
<1>5. calls' = [calls EXCEPT ![c] = call]
  BY <1>3 DEF JoinError
<1>6. calls'[c] = call /\ \A d \in Clients \ {c} : calls'[d] = calls[d]
  BY <1>5 DEF IInv, TypeOK
<1>7. Sketch(c)' = [Shown[c] EXCEPT !.stage = "failed"]
  <2>1. Sketch(c)' = Showing(call)
    BY <1>4, <1>6, SketchShows
  <2>2. Shown[c] = Showing(calls[c]) /\ calls[c].stage # "done"
    BY <1>1, ShownCall DEF Active
  <2>3. PICK r : r = Showing(calls[c])
    OBVIOUS
  <2>4. [r EXCEPT !.stage = "failed"] = Showing(call)
    BY <1>4, <2>2, <2>3 DEF Showing
  <2> QED
    BY <2>1, <2>2, <2>3, <2>4
<1>8. Shown' = [Shown EXCEPT ![c].stage = "failed"]
  <2>1. Shown' = [Shown EXCEPT ![c] = Sketch(c)']
    BY <1>6, ShownOthers
  <2> QED
    BY <1>7, <2>1 DEF Shown
<1>9. Service!Running(c)
  BY <1>1, ShownCall
<1> QED
  BY <1>1, <1>2, <1>8, <1>9 DEF Service!Fail, Shown

LEMMA ReturnRefines ==
    ASSUME IInv, NEW c \in Clients, Return(c)
    PROVE  Service!Return(c)
<1>1. calls[c] \in Calls /\ ~Active(c) /\ UNCHANGED <<known, edges, queue, busy>>
  BY CallFacts DEF Return
<1>2. calls'[c] = NoCall /\ \A d \in Clients \ {c} : calls'[d] = calls[d]
  BY DEF Return, IInv, TypeOK
<1>3. Shown' = [Shown EXCEPT ![c] = NoCall]
  <2>1. Sketch(c)' = NoCall
    BY <1>2 DEF Sketch
  <2> QED
    BY <1>2, <2>1, ShownOthers
<1>4. Loose' = Loose
  <2>1. \A s \in Shards : InFlight(s)' = InFlight(s)
    BY <1>1 DEF InFlight
  <2> QED
    BY <2>1, LooseSame
<1>5. Shown[c] # NoCall /\ ~Service!Running(c) /\ NoCall = Service!NoCall
  BY <1>1, ShownCall DEF NoCall, Service!NoCall
<1> QED
  BY <1>1, <1>3, <1>4, <1>5 DEF Service!Return, Shown

\* A reply is taken: the call goes on, or it is done.
LEMMA JoinRefines ==
    ASSUME IInv, IInv', NEW c \in Clients, replies[c] # {}, UNCHANGED <<edges, queue, busy>>,
           NEW call \in Calls, calls' = [calls EXCEPT ![c] = call],
           call.kind = calls[c].kind, call.before = calls[c].before,
           call.u = calls[c].u, call.v = calls[c].v,
           call.stage \in {"second", "done"},
           call.kind \in {"addUser", "addFollow"} => call.stage = "done" /\ call.ids = {},
           call.kind = "addFollow" => <<call.u, call.v>> \in edges,
           known' = IF call.kind = "addUser" THEN known \cup {call.u} ELSE known
    PROVE  Service!Done(c) \/ UNCHANGED Service!vars
<1>1. Active(c) /\ calls[c] \in Calls
  BY CallFacts DEF IInv, ClientOK, Quiet
<1>2. calls'[c] = call /\ \A d \in Clients \ {c} : calls'[d] = calls[d]
  BY DEF IInv, TypeOK
<1>3. SameCall(c)
  BY <1>2 DEF SameCall
<1>4. Loose' = Loose
  <2>1. \A s \in Shards : InFlight(s)' = InFlight(s)
    BY DEF InFlight
  <2> QED
    BY <2>1, LooseSame
<1>5. CASE call.stage = "second"
  <2>1. known' = known
    BY <1>5
  <2> QED
    BY <1>1, <1>2, <1>3, <1>4, <1>5, <2>1, ProgressRefines
<1>6. CASE call.stage = "done"
  <2>1. Bracketed(c)'
    BY DEF IInv, ClientOK
  <2> QED
    BY <1>1, <1>2, <1>3, <1>4, <1>6, <2>1, DoneRefines
<1> QED
  BY <1>5, <1>6

LEMMA JoinMutationRefines ==
    ASSUME IInv, IInv', NEW c \in Clients, JoinAddUser(c) \/ JoinAddFollow(c)
    PROVE  Service!Done(c) \/ UNCHANGED Service!vars
<1> DEFINE old == calls[c]
<1>1. PICK r \in replies[c] : r.ok /\ old.kind \in {"addUser", "addFollow"}
  BY DEF JoinAddUser, JoinAddFollow
<1>2. ~Fanned(c) /\ Active(c) /\ old \in Calls /\ ClientOK(c)
  BY <1>1, SoleFacts DEF Fanned, IInv
<1>3. old.ids = {}
  BY <1>1, <1>2 DEF ClientOK, Staged, Active
<1>4. PICK call : call = [old EXCEPT !.stage = "done"]
  OBVIOUS
<1>5. /\ call \in Calls /\ call.kind = old.kind /\ call.u = old.u /\ call.v = old.v
      /\ call.before = old.before /\ call.ids = {} /\ call.stage = "done"
  BY <1>2, <1>3, <1>4 DEF Calls
<1>6. calls' = [calls EXCEPT ![c] = call] /\ UNCHANGED <<edges, queue, busy>>
  BY <1>4 DEF JoinAddUser, JoinAddFollow
<1>7. call.kind = "addFollow" => <<call.u, call.v>> \in edges
  BY <1>1, <1>2, <1>5 DEF ClientOK, Applied
<1>8. known' = IF call.kind = "addUser" THEN known \cup {call.u} ELSE known
  BY <1>5 DEF JoinAddUser, JoinAddFollow
<1>9. replies[c] # {}
  BY <1>1
<1> QED
  BY <1>5, <1>6, <1>7, <1>8, <1>9, JoinRefines

LEMMA JoinFollowingRefines ==
    ASSUME IInv, IInv', NEW c \in Clients, JoinFollowing(c)
    PROVE  Service!Done(c) \/ UNCHANGED Service!vars
<1> DEFINE old == calls[c]
<1>1. PICK r \in replies[c] :
          /\ r.ok /\ old.kind = "getFollowing"
          /\ calls' = [calls EXCEPT ![c].stage = "done", ![c].ids = r.ids]
  BY DEF JoinFollowing
<1>2. old \in Calls /\ r.ids \subseteq Users
  <2>1. ~Fanned(c) /\ r \in Replies
    BY <1>1 DEF Fanned, IInv, TypeOK
  <2> QED
    BY <2>1, SoleFacts DEF Replies
<1>3. PICK call : call = [old EXCEPT !.stage = "done", !.ids = r.ids]
  OBVIOUS
<1>4. /\ call \in Calls /\ call.kind = old.kind /\ call.u = old.u /\ call.v = old.v
      /\ call.before = old.before /\ call.stage = "done"
  BY <1>2, <1>3 DEF Calls
<1>5. calls' = [calls EXCEPT ![c] = call] /\ UNCHANGED <<known, edges, queue, busy>>
  BY <1>1, <1>3 DEF JoinFollowing, IInv, TypeOK
<1>6. replies[c] # {} /\ call.kind \notin {"addUser", "addFollow"}
  BY <1>1, <1>4
<1> QED
  BY <1>4, <1>5, <1>6, JoinRefines

\* A two-hop query has its source's list, every user of which is known.
LEMMA JoinFirstRefines ==
    ASSUME IInv, IInv', NEW c \in Clients, JoinFirst(c)
    PROVE  Service!Done(c) \/ UNCHANGED Service!vars
<1> DEFINE old == calls[c]
<1>1. PICK r \in replies[c] :
          /\ r.ok
          /\ \/ /\ r.ids = {}
                /\ calls' = [calls EXCEPT ![c].stage = "done"]
             \/ /\ old.kind = "batched"
                /\ calls' = [calls EXCEPT ![c].stage = "second"]
             \/ /\ old.kind = "twoHop"
                /\ \E v \in r.ids :
                       AskHop(c, [old EXCEPT !.stage = "second", !.hops = r.ids \ {v}], v)
  BY DEF JoinFirst
<1>2. old.kind \in {"twoHop", "batched"} /\ old.stage = "first" /\ ~Fanned(c)
  BY DEF JoinFirst, Fanned
<1>3. Active(c) /\ old \in Calls /\ r \in Replies /\ ClientOK(c) /\ replies[c] # {}
  BY <1>2, SoleFacts DEF IInv, TypeOK
<1>4. r.ids \subseteq Users /\ r.ids \subseteq known
  <2>1. r.ids \subseteq Followed(edges, old.u)
    BY <1>1, <1>2, <1>3 DEF ClientOK, FirstRead, Reading
  <2> QED
    BY <2>1 DEF Followed, IInv, EdgesKnown
<1>5. UNCHANGED <<known, edges, queue, busy>>
  BY DEF JoinFirst
<1>6. ASSUME NEW call \in Calls, calls' = [calls EXCEPT ![c] = call],
             call.kind = old.kind, call.before = old.before, call.u = old.u, call.v = old.v,
             call.stage \in {"second", "done"}
      PROVE  Service!Done(c) \/ UNCHANGED Service!vars
  <2>1. call.kind \notin {"addUser", "addFollow"}
    BY <1>2, <1>6
  <2> QED
    BY <1>3, <1>5, <1>6, <2>1, JoinRefines
<1>7. ASSUME NEW x \in {"second", "done"}, calls' = [calls EXCEPT ![c].stage = x]
      PROVE  Service!Done(c) \/ UNCHANGED Service!vars
  <2>1. PICK call : call = [old EXCEPT !.stage = x]
    OBVIOUS
  <2>2. /\ call \in Calls /\ call.kind = old.kind /\ call.u = old.u /\ call.v = old.v
        /\ call.before = old.before /\ call.stage = x
    BY <1>3, <2>1 DEF Calls
  <2>3. calls' = [calls EXCEPT ![c] = call]
    BY <1>7, <2>1
  <2> QED
    BY <1>6, <2>2, <2>3
<1>8. ASSUME NEW v \in r.ids, AskHop(c, [old EXCEPT !.stage = "second", !.hops = r.ids \ {v}], v)
      PROVE  Service!Done(c) \/ UNCHANGED Service!vars
  <2>1. PICK call : call = [old EXCEPT !.stage = "second", !.hops = r.ids \ {v}]
    OBVIOUS
  <2>2. /\ call \in Calls /\ call.kind = old.kind /\ call.u = old.u /\ call.v = old.v
        /\ call.before = old.before /\ call.stage = "second"
    BY <1>3, <1>4, <2>1 DEF Calls
  <2>3. calls' = [calls EXCEPT ![c] = call]
    BY <1>4, <1>8, <2>1 DEF AskHop
  <2> QED
    BY <1>6, <2>2, <2>3
<1> QED
  BY <1>1, <1>7, <1>8

LEMMA JoinSecondRefines ==
    ASSUME IInv, IInv', NEW c \in Clients, JoinSecond(c)
    PROVE  Service!Done(c) \/ UNCHANGED Service!vars
<1> DEFINE old == calls[c]
<1>1. old.kind \in {"twoHop", "batched"} /\ old.stage = "second"
  BY DEF JoinSecond
<1>2. PICK r \in replies[c] :
          LET ids == old.ids \cup (r.ids \ {old.u})
          IN IF old.hops # {}
             THEN \E v \in old.hops : AskHop(c, [old EXCEPT !.ids = ids, !.hops = @ \ {v}], v)
             ELSE calls' = [calls EXCEPT ![c].ids = ids,
                                         ![c].stage = IF AllJoined(c, r) THEN "done" ELSE @]
  BY DEF JoinSecond
<1>3. PICK ids : ids = old.ids \cup (r.ids \ {old.u})
  OBVIOUS
<1>4. old \in Calls /\ SecondRead(c) /\ ids \subseteq Users /\ replies[c] # {}
  <2>1. old \in Calls
    BY <1>1, CallFacts
  <2>2. r \in Replies /\ SecondRead(c)
    BY DEF IInv, TypeOK, ClientOK
  <2> QED
    BY <1>3, <2>1, <2>2 DEF Replies, Calls
<1>5. UNCHANGED <<known, edges, queue, busy>>
  BY DEF JoinSecond
<1>6. ASSUME NEW call \in Calls, calls' = [calls EXCEPT ![c] = call],
             call.kind = old.kind, call.before = old.before, call.u = old.u, call.v = old.v,
             call.stage \in {"second", "done"}
      PROVE  Service!Done(c) \/ UNCHANGED Service!vars
  <2>1. call.kind \notin {"addUser", "addFollow"}
    BY <1>1, <1>6
  <2> QED
    BY <1>4, <1>5, <1>6, <2>1, JoinRefines
<1>7. CASE old.hops # {}
  <2>1. PICK v \in old.hops : AskHop(c, [old EXCEPT !.ids = ids, !.hops = @ \ {v}], v)
    BY <1>2, <1>3, <1>7
  <2>2. v \in known
    <3>1. old.hops \subseteq Followed(edges, old.u)
      BY <1>1, <1>4 DEF SecondRead, Reading
    <3> QED
      BY <3>1 DEF Followed, IInv, EdgesKnown
  <2>3. PICK call : call = [old EXCEPT !.ids = ids, !.hops = @ \ {v}]
    OBVIOUS
  <2>4. /\ call \in Calls /\ call.kind = old.kind /\ call.u = old.u /\ call.v = old.v
        /\ call.before = old.before /\ call.stage = "second"
    BY <1>1, <1>4, <2>3 DEF Calls
  <2>5. calls' = [calls EXCEPT ![c] = call]
    BY <2>1, <2>2, <2>3 DEF AskHop
  <2> QED
    BY <1>6, <2>4, <2>5
<1>8. CASE old.hops = {}
  <2>1. PICK x \in {"second", "done"} :
            calls' = [calls EXCEPT ![c].ids = ids, ![c].stage = x]
    <3>1. calls' = [calls EXCEPT ![c].ids = ids,
                                 ![c].stage = IF AllJoined(c, r) THEN "done" ELSE @]
      BY <1>2, <1>3, <1>8
    <3>2. calls' = [calls EXCEPT ![c].ids = ids,
                                 ![c].stage = IF AllJoined(c, r) THEN "done" ELSE "second"]
      BY <1>1, <1>4, <3>1 DEF IInv, TypeOK, Calls
    <3> QED
      BY <3>2
  <2>2. PICK call : call = [old EXCEPT !.ids = ids, !.stage = x]
    OBVIOUS
  <2>3. /\ call \in Calls /\ call.kind = old.kind /\ call.u = old.u /\ call.v = old.v
        /\ call.before = old.before /\ call.stage = x
    BY <1>4, <2>2 DEF Calls
  <2>4. calls' = [calls EXCEPT ![c] = call]
    BY <2>1, <2>2 DEF IInv, TypeOK
  <2> QED
    BY <1>6, <2>3, <2>4
<1> QED
  BY <1>7, <1>8

LEMMA InitRefines == Init => Service!Init
<1> SUFFICES ASSUME Init PROVE Service!Init
  OBVIOUS
<1>1. Shown = [c \in Clients |-> Service!NoCall]
  BY DEF Init, Shown, Sketch, NoCall, Service!NoCall
<1>2. \A s \in Shards : InFlight(s) = {}
  BY EmptyQueue DEF Init, InFlight
<1>3. Loose = {}
  BY <1>2, LooseEdges
<1> QED
  BY <1>1, <1>3 DEF Init, Service!Init, Shown

LEMMA StepRefines == IInv /\ IInv' /\ [Next]_vars => Service!Next \/ UNCHANGED Service!vars
<1> SUFFICES ASSUME IInv, IInv', [Next]_vars PROVE Service!Next \/ UNCHANGED Service!vars
  OBVIOUS
<1> USE DEF Service!Next
<1>1. ASSUME NEW c \in Clients, NEW u \in Users,
             BeginAddUser(c, u) \/ BeginGetFollowing(c, u) \/ BeginTwoHop(c, u) \/ BeginBatched(c, u)
      PROVE  Service!Begin(c)
  BY <1>1, StartRefines DEF BeginAddUser, BeginGetFollowing, BeginTwoHop, BeginBatched
<1>2. ASSUME NEW c \in Clients, NEW p \in Pairs, BeginAddFollow(c, p[1], p[2])
      PROVE  Service!Begin(c)
  <2>1. p[1] \in Users /\ p[2] \in Users
    BY DistributedAssumption
  <2> QED
    BY <1>2, <2>1, StartRefines DEF BeginAddFollow
<1>3. ASSUME NEW c \in Clients, NEW s \in Shards, Send(c, s) \/ SendFails(c, s)
      PROVE  UNCHANGED Service!vars
  BY <1>3, SendRefines
<1>4. ASSUME NEW c \in Clients, Join(c) \/ Cancel(c)
      PROVE  \/ Service!Done(c) \/ Service!Fail(c) \/ Service!Cancel(c) \/ Service!Return(c)
             \/ UNCHANGED Service!vars
  BY <1>4, JoinErrorRefines, JoinMutationRefines, JoinFollowingRefines, JoinFirstRefines,
     JoinSecondRefines, ReturnRefines, CancelRefines DEF Join
<1>5. ASSUME NEW s \in Shards, Serve(s) \/ WorkerStop(s)
      PROVE  Service!Effect \/ Service!Lose \/ UNCHANGED Service!vars
  BY <1>5, ReceiveRefines, ServeReadRefines, ServeAddFollowRefines, StopRefines DEF Serve
<1>6. CASE UNCHANGED vars
  <2>1. \A s \in Shards : InFlight(s)' = InFlight(s)
    BY <1>6 DEF vars, InFlight
  <2> QED
    BY <1>6, <2>1, LooseSame, SameShown DEF vars
<1> QED
  BY <1>1, <1>2, <1>3, <1>4, <1>5, <1>6 DEF Next

\* Channels, batches, lost workers and dropped futures implement the calls that
\* GraphService promises, step by step.
THEOREM Refinement == Spec => ServiceSpec
<1>1. IInv /\ IInv' /\ [Next]_vars => [Service!vars' # Service!vars /\ Service!Next]_(Service!vars)
  BY StepRefines
<1> QED
  BY <1>1, InitRefines, Invariance, PTL DEF Spec, ServiceSpec, Service!Spec
=============================================================================
