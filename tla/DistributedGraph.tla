-------------------------- MODULE DistributedGraph ---------------------------
(***************************************************************************)
(* The worker-based graph of src/distributed.rs: one task per shard that    *)
(* owns the shard's Graph and serves commands from a bounded channel, and a  *)
(* coordinator whose methods run in the callers' tasks.                     *)
(*                                                                         *)
(* A client is a caller's task, with one call at a time.  A call puts the   *)
(* users it has to ask about in its `ask' set; Send turns those of one shard *)
(* into one command.  GetFollowing is the batch of one user.  Each command  *)
(* carries a reply channel; when the call that holds the other end is gone, *)
(* the command is from Nobody and its reply goes nowhere.                    *)
(***************************************************************************)
EXTENDS Naturals, FiniteSets, SequencesExt

CONSTANTS Users,
          Shards,
          Home,             \* shard_for: user -> shard
          Clients,
          Nobody,           \* in place of a client that no longer listens
          ChannelCapacity,
          Pairs,            \* bound of the model: the follow edges callers ask for
          Impatient,        \* the clients that may drop the future of a call
          Stops             \* bound of the model: the workers whose task may end

ASSUME DistributedAssumption ==
    /\ Home \in [Users -> Shards]
    /\ Nobody \notin Clients
    /\ ChannelCapacity \in Nat \ {0}
    /\ Pairs \subseteq Users \X Users
    /\ Impatient \subseteq Clients
    /\ Stops \subseteq Shards

VARIABLES known,   \* the coordinator's set of users
          stored,  \* stored[s]: the users of worker s
          edges,   \* the edges applied so far, <<u, v>> by worker Home[u]
          queue,   \* queue[s]: the channel of worker s
          busy,    \* busy[s]: the command worker s has received, in a set of at most one
          alive,   \* the workers whose task has not ended
          calls,   \* calls[c]: the call of client c
          ask,     \* ask[c]: users the call still has to send a command about
          replies  \* replies[c]: the answers that wait to be joined

vars == <<known, stored, edges, queue, busy, alive, calls, ask, replies>>

-----------------------------------------------------------------------------
Followed(E, u) == {v \in Users : <<u, v>> \in E}

NoCall == [kind |-> "none"]

\* The history field `before' of a read: the edges at its start.
Before(k) == IF k \in {"addUser", "addFollow"} THEN {} ELSE edges

NewCall(k, u, v) ==
    [kind |-> k, u |-> u, v |-> v, before |-> Before(k), stage |-> "first", hops |-> {}, ids |-> {}]

Active(c) == calls[c].kind # "none" /\ calls[c].stage \in {"first", "second"}

InFlight(s) == ToSet(queue[s]) \cup busy[s]

\* Mutant of Disown: the next call of the client takes the reply for its own.
DisownNothing(m, c) == m

Disown(m, c) == IF m.from = c THEN [m EXCEPT !.from = Nobody] ELSE m

\* The call's future and its batch tasks are dropped: what was sent stays sent.
Abandon(c) ==
    /\ ask' = [ask EXCEPT ![c] = {}]
    /\ replies' = [replies EXCEPT ![c] = {}]
    /\ queue' = [s \in Shards |-> [i \in DOMAIN queue[s] |-> Disown(queue[s][i], c)]]
    /\ busy' = [s \in Shards |-> {Disown(m, c) : m \in busy[s]}]

-----------------------------------------------------------------------------
Init ==
    /\ known = {}
    /\ stored = [s \in Shards |-> {}]
    /\ edges = {}
    /\ queue = [s \in Shards |-> <<>>]
    /\ busy = [s \in Shards |-> {}]
    /\ alive = Shards
    /\ calls = [c \in Clients |-> NoCall]
    /\ ask = [c \in Clients |-> {}]
    /\ replies = [c \in Clients |-> {}]

\* add_user borrows the coordinator mutably: it overlaps no other call.
Start(c, k, u, v) ==
    /\ calls[c] = NoCall
    /\ \A d \in Clients : calls[d].kind # "addUser"
    /\ calls' = [calls EXCEPT ![c] = NewCall(k, u, v)]
    /\ ask' = [ask EXCEPT ![c] = {u}]
    /\ UNCHANGED <<known, stored, edges, queue, busy, alive, replies>>

\* Mutant of BeginAddUser: a known user is not turned away.
BeginAddUserAgain(c, u) == (\A d \in Clients : calls[d] = NoCall) /\ Start(c, "addUser", u, u)

BeginAddUser(c, u) ==
    /\ \A d \in Clients : calls[d] = NoCall
    /\ u \notin known
    /\ Start(c, "addUser", u, u)

\* Mutant of BeginAddFollow: the target is not looked up.
BeginAddFollowAnyone(c, u, v) == u \in known /\ Start(c, "addFollow", u, v)

BeginAddFollow(c, u, v) == {u, v} \subseteq known /\ Start(c, "addFollow", u, v)

BeginGetFollowing(c, u) == u \in known /\ Start(c, "getFollowing", u, u)

BeginTwoHop(c, u) == u \in known /\ Start(c, "twoHop", u, u)

BeginBatched(c, u) == u \in known /\ Start(c, "batched", u, u)

-----------------------------------------------------------------------------
(* Commands *)

Batch(c, s) == {u \in ask[c] : Home[u] = s}

\* Mutant of HasRoom: the channel is unbounded.
HasRoomAlways(s) == TRUE

HasRoom(s) == Len(queue[s]) < ChannelCapacity

\* sender.send(..).await completes once the channel has room.
Send(c, s) ==
    /\ Active(c)
    /\ Batch(c, s) # {}
    /\ s \in alive
    /\ HasRoom(s)
    /\ LET k == calls[c].kind
           m == [from |-> c, kind |-> IF k \in {"addUser", "addFollow"} THEN k ELSE "read",
                 users |-> Batch(c, s), targets |-> IF k = "addFollow" THEN {calls[c].v} ELSE {}]
       IN queue' = [queue EXCEPT ![s] = Append(@, m)]
    /\ ask' = [ask EXCEPT ![c] = @ \ Batch(c, s)]
    /\ UNCHANGED <<known, stored, edges, busy, alive, calls, replies>>

Lost(s) == [shard |-> s, ok |-> FALSE, ids |-> {}]

\* Mutant of SendFails: the sender never learns that the channel is closed.
SendHangs(c, s) == FALSE

\* WorkerStopped: the channel is closed.
SendFails(c, s) ==
    /\ Active(c)
    /\ Batch(c, s) # {}
    /\ s \notin alive
    /\ ask' = [ask EXCEPT ![c] = @ \ Batch(c, s)]
    /\ replies' = [replies EXCEPT ![c] = @ \cup {Lost(s)}]
    /\ UNCHANGED <<known, stored, edges, queue, busy, alive, calls>>

\* A command leaves the channel, and its room is free, before it is served:
\* reads may sleep in between (simulated_read_delay).
WorkerReceive(s) ==
    /\ busy[s] = {}
    /\ queue[s] # <<>>
    /\ busy' = [busy EXCEPT ![s] = {Head(queue[s])}]
    /\ queue' = [queue EXCEPT ![s] = Tail(@)]
    /\ UNCHANGED <<known, stored, edges, alive, calls, ask, replies>>

\* The answer reaches the client that still waits for it.
Reply(s, m, ok, ids) ==
    /\ replies' = IF m.from = Nobody THEN replies
                  ELSE [replies EXCEPT ![m.from] = @ \cup {[shard |-> s, ok |-> ok, ids |-> ids]}]
    /\ busy' = [busy EXCEPT ![s] = {}]
    /\ UNCHANGED <<known, queue, alive, calls, ask>>

\* Graph::add_user refuses a user the worker has.
ServeAddUser(s) ==
    \E m \in busy[s] :
        /\ m.kind = "addUser"
        /\ stored' = [stored EXCEPT ![s] = @ \cup m.users]
        /\ Reply(s, m, m.users \cap stored[s] = {}, {})
        /\ UNCHANGED edges

\* Graph::add_follow_unchecked needs the source only.
ServeAddFollow(s) ==
    \E m \in busy[s] :
        /\ m.kind = "addFollow"
        /\ edges' = IF m.users \subseteq stored[s] THEN edges \cup (m.users \X m.targets) ELSE edges
        /\ Reply(s, m, m.users \subseteq stored[s], {})
        /\ UNCHANGED stored

ServeRead(s) ==
    \E m \in busy[s] :
        /\ m.kind = "read"
        /\ Reply(s, m, TRUE, UNION {Followed(edges, u) : u \in m.users})
        /\ UNCHANGED <<stored, edges>>

\* The worker's task ends; the reply channels of its commands close with it.
WorkerStop(s) ==
    /\ s \in alive \cap Stops
    /\ alive' = alive \ {s}
    /\ replies' = [c \in Clients |->
                      IF \E m \in InFlight(s) : m.from = c
                      THEN replies[c] \cup {Lost(s)} ELSE replies[c]]
    /\ queue' = [queue EXCEPT ![s] = <<>>]
    /\ busy' = [busy EXCEPT ![s] = {}]
    /\ UNCHANGED <<known, stored, edges, calls, ask>>

-----------------------------------------------------------------------------
(* Answers *)

\* A refusal or a lost worker ends the call with an error, whatever else it
\* had under way.
JoinError(c) ==
    /\ Active(c)
    /\ \E r \in replies[c] : ~r.ok
    /\ calls' = [calls EXCEPT ![c].stage = "failed", ![c].hops = {}, ![c].ids = {}]
    /\ Abandon(c)
    /\ UNCHANGED <<known, stored, edges, alive>>

JoinAddUser(c) ==
    /\ calls[c].kind = "addUser"
    /\ \E r \in replies[c] : r.ok
    /\ known' = known \cup {calls[c].u}
    /\ calls' = [calls EXCEPT ![c].stage = "done"]
    /\ replies' = [replies EXCEPT ![c] = {}]
    /\ UNCHANGED <<stored, edges, queue, busy, alive, ask>>

JoinAddFollow(c) ==
    /\ calls[c].kind = "addFollow"
    /\ \E r \in replies[c] : r.ok
    /\ calls' = [calls EXCEPT ![c].stage = "done"]
    /\ replies' = [replies EXCEPT ![c] = {}]
    /\ UNCHANGED <<known, stored, edges, queue, busy, alive, ask>>

JoinFollowing(c) ==
    /\ calls[c].kind = "getFollowing"
    /\ \E r \in replies[c] :
           /\ r.ok
           /\ calls' = [calls EXCEPT ![c].stage = "done", ![c].ids = r.ids]
    /\ replies' = [replies EXCEPT ![c] = {}]
    /\ UNCHANGED <<known, stored, edges, queue, busy, alive, ask>>

\* get_two_hop goes on to hop v; get_following_ids refuses a user that is not
\* known, which ends the call.
AskHop(c, call, v) ==
    IF v \in known
    THEN /\ calls' = [calls EXCEPT ![c] = call]
         /\ ask' = [ask EXCEPT ![c] = {v}]
    ELSE /\ calls' = [calls EXCEPT ![c] = [call EXCEPT !.stage = "failed", !.hops = {}, !.ids = {}]]
         /\ UNCHANGED ask

\* The source's list arrives: get_two_hop asks about its users one by one,
\* get_two_hop_batched about all of them at once, a batch per shard.
JoinFirst(c) ==
    /\ calls[c].kind \in {"twoHop", "batched"} /\ calls[c].stage = "first"
    /\ \E r \in replies[c] :
           /\ r.ok
           /\ \/ /\ r.ids = {}
                 /\ calls' = [calls EXCEPT ![c].stage = "done"]
                 /\ UNCHANGED ask
              \/ /\ calls[c].kind = "batched" /\ r.ids # {}
                 /\ calls' = [calls EXCEPT ![c].stage = "second"]
                 /\ ask' = [ask EXCEPT ![c] = r.ids]
              \/ /\ calls[c].kind = "twoHop"
                 /\ \E v \in r.ids :
                        AskHop(c, [calls[c] EXCEPT !.stage = "second", !.hops = r.ids \ {v}], v)
    /\ replies' = [replies EXCEPT ![c] = {}]
    /\ UNCHANGED <<known, stored, edges, queue, busy, alive>>

\* Mutant of AllJoined: the first batch joined ends the query.
AnyJoined(c, r) == ask[c] = {}

\* r is the last reply that client c waits for.
AllJoined(c, r) ==
    /\ ask[c] = {}
    /\ replies[c] = {r}
    /\ \A s \in Shards : \A m \in InFlight(s) : m.from # c

\* The lists of one second-stage command arrive, in any order across shards.
JoinSecond(c) ==
    /\ calls[c].kind \in {"twoHop", "batched"} /\ calls[c].stage = "second"
    /\ \E r \in replies[c] :
           /\ r.ok
           /\ replies' = [replies EXCEPT ![c] = @ \ {r}]
           /\ LET ids == calls[c].ids \cup (r.ids \ {calls[c].u})
              IN IF calls[c].hops # {}
                 THEN \E v \in calls[c].hops :
                          AskHop(c, [calls[c] EXCEPT !.ids = ids, !.hops = @ \ {v}], v)
                 ELSE /\ calls' = [calls EXCEPT ![c].ids = ids,
                                                ![c].stage = IF AllJoined(c, r) THEN "done" ELSE @]
                      /\ UNCHANGED ask
    /\ UNCHANGED <<known, stored, edges, queue, busy, alive>>

Return(c) ==
    /\ calls[c].kind # "none" /\ ~Active(c)
    /\ calls' = [calls EXCEPT ![c] = NoCall]
    /\ UNCHANGED <<known, stored, edges, queue, busy, alive, ask, replies>>

\* The caller drops the future, in a timeout or a select.
Cancel(c) ==
    /\ c \in Impatient
    /\ Active(c)
    /\ calls' = [calls EXCEPT ![c] = NoCall]
    /\ Abandon(c)
    /\ UNCHANGED <<known, stored, edges, alive>>

-----------------------------------------------------------------------------
Join(c) == \/ JoinError(c) \/ JoinAddUser(c) \/ JoinAddFollow(c) \/ JoinFollowing(c)
           \/ JoinFirst(c) \/ JoinSecond(c) \/ Return(c)

Serve(s) == WorkerReceive(s) \/ ServeAddUser(s) \/ ServeAddFollow(s) \/ ServeRead(s)

Next ==
    \/ \E c \in Clients, u \in Users : \/ BeginAddUser(c, u) \/ BeginGetFollowing(c, u)
                                       \/ BeginTwoHop(c, u) \/ BeginBatched(c, u)
    \/ \E c \in Clients, p \in Pairs : BeginAddFollow(c, p[1], p[2])
    \/ \E c \in Clients, s \in Shards : Send(c, s) \/ SendFails(c, s)
    \/ \E c \in Clients : Join(c) \/ Cancel(c)
    \/ \E s \in Shards : Serve(s) \/ WorkerStop(s)

Spec == Init /\ [][Next]_vars

\* The runtime polls every task that can move, and a bounded channel grants its
\* room to the waiting senders in turn.
Fairness ==
    /\ \A s \in Shards : WF_vars(Serve(s))
    /\ \A c \in Clients : WF_vars(Join(c))
    /\ \A c \in Clients, s \in Shards : SF_vars(Send(c, s)) /\ WF_vars(SendFails(c, s))

FairSpec == Spec /\ Fairness

-----------------------------------------------------------------------------
(* Properties *)

Commands == [from : Clients \cup {Nobody}, kind : {"addUser", "addFollow", "read"},
             users : SUBSET Users, targets : SUBSET Users]

Calls == [kind : {"addUser", "addFollow", "getFollowing", "twoHop", "batched"},
          u : Users, v : Users, before : SUBSET (Users \X Users),
          stage : {"first", "second", "done", "failed"}, hops : SUBSET Users, ids : SUBSET Users]

Replies == [shard : Shards, ok : BOOLEAN, ids : SUBSET Users]

\* The shape of the state; a channel never holds more than its capacity.
TypeOK ==
    /\ known \subseteq Users
    /\ stored \in [Shards -> SUBSET Users]
    /\ edges \subseteq Users \X Users
    /\ queue \in [Shards -> Seq(Commands)]
    /\ busy \in [Shards -> SUBSET Commands]
    /\ \A s \in Shards : Len(queue[s]) <= ChannelCapacity /\ Cardinality(busy[s]) <= 1
    /\ alive \subseteq Shards
    /\ calls \in [Clients -> {NoCall} \cup Calls]
    /\ ask \in [Clients -> SUBSET Users]
    /\ replies \in [Clients -> SUBSET Replies]

\* Both ends of every edge are known to the coordinator, and every known user
\* is stored by its worker: no hop of a query is an unknown user, and no
\* follow between known users is refused.
EdgesKnown ==
    /\ \A e \in edges : {e[1], e[2]} \subseteq known
    /\ \A u \in known : u \in stored[Home[u]]

Reads(k, E, u) ==
    IF k = "getFollowing" THEN Followed(E, u)
    ELSE (UNION {Followed(E, v) : v \in Followed(E, u)}) \ {u}

\* The answer of a read holds all that was there when it started, and nothing
\* that is not there when it ends: an add_follow that returned before is seen,
\* and the failure of a worker never makes an Ok answer out of a partial one.
AnswerBracketed ==
    \A c \in Clients :
        LET call == calls[c] IN
        (call.kind \in {"getFollowing", "twoHop", "batched"} /\ call.stage = "done") =>
            /\ Reads(call.kind, call.before, call.u) \subseteq call.ids
            /\ call.ids \subseteq Reads(call.kind, edges, call.u)

\* An error tells of a worker that has stopped, or, for an add_user, of an
\* earlier one that was dropped: its worker stores a user nobody knows of.
ErrorsBlameWorkers ==
    \A c \in Clients : \A r \in replies[c] : ~r.ok =>
        \/ r.shard \notin alive
        \/ calls[c].kind = "addUser" /\ calls[c].u \in stored[r.shard] \ known

\* Every call returns, in spite of full channels and workers that stop.
CallsReturn == \A c \in Clients : calls[c].kind # "none" ~> calls[c].kind = "none"

\* The workers, channels and batches implement the calls of GraphService.
Sketch(c) ==
    IF calls[c] = NoCall THEN NoCall
    ELSE [kind |-> calls[c].kind, u |-> calls[c].u, v |-> calls[c].v, before |-> calls[c].before,
          stage |-> IF Active(c) THEN "running" ELSE calls[c].stage,
          ids |-> IF calls[c].stage = "done" THEN calls[c].ids ELSE {}]

Unowned == {m \in UNION {InFlight(s) : s \in Shards} : m.from = Nobody /\ m.kind = "addFollow"}

Loose == UNION {m.users \X m.targets : m \in Unowned}

Service == INSTANCE GraphService WITH calls <- [c \in Clients |-> Sketch(c)], loose <- Loose

ServiceSpec == Service!Spec
=============================================================================
