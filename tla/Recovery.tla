------------------------------- MODULE Recovery -------------------------------
(***************************************************************************)
(* Snapshot and operation log (src/persistence.rs) as a process uses them   *)
(* that means to survive crashes: every operation is appended to the log    *)
(* and then applied to the graph in memory; now and then the graph is saved *)
(* over the last snapshot; after a crash it is recovered from both files.   *)
(*                                                                         *)
(* A file is a sequence of lines, and a line what the readers make of it.   *)
(* A crash in the middle of a write leaves the beginning of what was to be  *)
(* written.  The graph is what the lookups of ShardedGraph see, all of its  *)
(* users in the placement; user IDs and sequence numbers have one digit.    *)
(***************************************************************************)
EXTENDS AdjacencyLists

CONSTANTS Users,
          Names,          \* Names[u]: the names a user may be added with
          PipedNames,     \* the names that contain the separator |
          CutName,        \* a name that is cut off before any separator
          RunOnName,      \* a name cut off later, or that runs into the next line
          Stranger,       \* a user nobody added: an ID read where it was not written
          MaxOperations,  \* bound of the model on the operations of a history
          MaxWithCut      \* the same for a history in which a write was cut

ASSUME RecoveryAssumption ==
    /\ Users \subseteq 1 .. 9
    /\ Stranger \notin Users
    /\ Users = DOMAIN Names
    /\ RunOnName \in PipedNames /\ CutName \notin PipedNames
    /\ {CutName, RunOnName} \cap UNION {Names[u] : u \in Users} = {}
    /\ MaxWithCut \in 0 .. MaxOperations
    /\ MaxOperations \in 0 .. 9

VARIABLES graph,     \* the graph in memory
          snapshot,  \* lines of the snapshot file, or NoFile
          log,       \* lines of the operation log
          torn,      \* the end of the log that has no newline yet, or NoLine
          op,        \* what the process is doing
          history,   \* every operation whose append was begun, in order, and whether it
                     \* returned; no code reads it
          cutSave    \* whether a crash has ever hit save_snapshot; no code reads it

vars == <<graph, snapshot, log, torn, op, history, cutSave>>

Ids == Users \cup {Stranger}

Empty == [names |-> <<>>, following |-> [u \in Ids |-> <<>>]]

Idle == [kind |-> "idle"]

NoLine == [kind |-> "none"]

NoFile == <<[kind |-> "absent"]>>

Nothing == [kind |-> "nothing"]  \* a line that is no operation

Operations ==
    (UNION {[kind : {"AddUser"}, user : {u}, name : Names[u]] : u \in Users})
        \cup [kind : {"AddFollow", "RemoveFollow"}, source : Users, target : Users]

-----------------------------------------------------------------------------
(* The graph, a call at a time; refused calls change nothing *)

Apply(g, o) ==
    CASE o.kind = "AddUser" ->
            IF o.user \in DOMAIN g.names THEN g
            ELSE [g EXCEPT !.names = [u \in DOMAIN @ \cup {o.user} |->
                                         IF u = o.user THEN o.name ELSE @[u]]]
      [] o.kind = "AddFollow" ->
            IF {o.source, o.target} \subseteq DOMAIN g.names
            THEN [g EXCEPT !.following[o.source] = WithTarget(@, o.target)]
            ELSE g
      [] o.kind = "RemoveFollow" ->
            IF {o.source, o.target} \subseteq DOMAIN g.names
            THEN [g EXCEPT !.following[o.source] = Without(@, o.target)]
            ELSE g
      [] o.kind = "nothing" -> g

ApplyAll(g, operations) ==
    LET after[i \in 0 .. Len(operations)] ==
            IF i = 0 THEN g ELSE Apply(after[i - 1], operations[i])
    IN after[Len(operations)]

-----------------------------------------------------------------------------
(* The snapshot file *)

\* create_snapshot and save_snapshot: the order of the users is that of a hash
\* map, the edges of a user keep theirs.
UserLine(g, u) == [kind |-> "user", id |-> u, name |-> g.names[u]]

EdgeLines(g, u) == [i \in DOMAIN g.following[u] |->
                       [kind |-> "edge", source |-> u, target |-> g.following[u][i]]]

SnapshotLines(g, timestamp, order) ==
    <<[kind |-> "header"], [kind |-> "timestamp", value |-> timestamp],
      [kind |-> "shard_count"], [kind |-> "placement"], [kind |-> "USERS"]>>
        \o [i \in DOMAIN order |-> UserLine(g, order[i])]
        \o <<[kind |-> "EDGES"]>>
        \o FlattenSeq([i \in DOMAIN order |-> EdgeLines(g, order[i])])

Failure == [ok |-> FALSE]

Has(lines, kind) == \E i \in DOMAIN lines : lines[i].kind = kind

HasPipedUser(lines) == \E i \in DOMAIN lines : lines[i].kind = "user" /\ lines[i].name \in PipedNames

\* Mutant of Load: the timestamp is not read.
LoadFromStart(lines) ==
    IF ~Has(lines, "shard_count") \/ Has(lines, "bad") \/ HasPipedUser(lines)
    THEN Failure
    ELSE [ok |-> TRUE, timestamp |-> 0, lines |-> lines]

\* load_snapshot and restore_from_snapshot's with_placement: an absent or empty
\* file, a line that does not parse, and a missing shard count are errors; a
\* name with a separator shifts the fields of its line.  A file that ends early
\* is not an error.
Load(lines) ==
    IF ~Has(lines, "shard_count") \/ Has(lines, "bad") \/ HasPipedUser(lines)
    THEN Failure
    ELSE [ok |-> TRUE,
          timestamp |-> lines[CHOOSE i \in DOMAIN lines : lines[i].kind = "timestamp"].value,
          lines |-> lines]

UsersOf(lines) ==
    [i \in DOMAIN lines |->
        IF lines[i].kind = "user"
        THEN [kind |-> "AddUser", user |-> lines[i].id, name |-> lines[i].name]
        ELSE Nothing]

EdgesOf(lines) ==
    [i \in DOMAIN lines |->
        IF lines[i].kind = "edge"
        THEN [kind |-> "AddFollow", source |-> lines[i].source, target |-> lines[i].target]
        ELSE Nothing]

\* restore_from_snapshot: users first, then edges, errors ignored.
Restore(s) == ApplyAll(ApplyAll(Empty, UsersOf(s.lines)), EdgesOf(s.lines))

-----------------------------------------------------------------------------
(* The operation log *)

EntryLine(sequence, o) == [kind |-> "entry", sequence |-> sequence, operation |-> o]

Skipped == [kind |-> "skipped"]  \* too few fields, or an unknown operation

Bad == [kind |-> "bad"]          \* a field that is no number

\* Where an entry may be cut off by a crash.
Cuts(o) == {"sequence", "operation", "newline"}
              \cup (IF o.kind # "AddUser" THEN {"source", "target"}
                    ELSE {"id", "separator", "name"}
                            \cup {"piped name" : n \in {o.name} \cap PipedNames})

Cut(sequence, o, at) == [kind |-> "cut", sequence |-> sequence, operation |-> o, at |-> at]

\* How the reader takes an entry cut off at the end of the file.
Alone(c) ==
    CASE c.at \in {"sequence", "operation", "source"} -> Skipped
      [] c.at \in {"id", "target"} -> Bad
      [] c.at \in {"separator", "name"} -> EntryLine(c.sequence, [c.operation EXCEPT !.name = CutName])
      [] c.at = "piped name" -> EntryLine(c.sequence, [c.operation EXCEPT !.name = RunOnName])
      [] c.at = "newline" -> EntryLine(c.sequence, c.operation)

\* How it takes the line when the entry l was appended to the one cut off: a cut
\* sequence number runs into the next one, an ID that is missing or was just
\* written into the next sequence number, a name into the whole next entry.
Joined(c, l) ==
    CASE c.at = "sequence" -> EntryLine(10 * c.sequence + l.sequence, l.operation)
      [] c.at = "operation" -> Skipped
      [] c.at \in {"source", "target"} -> Bad
      [] c.at = "id" ->
            EntryLine(c.sequence, [kind |-> "AddUser", name |-> RunOnName,
                                   user |-> IF l.sequence \in Users THEN l.sequence ELSE Stranger])
      [] c.at = "separator" ->
            EntryLine(c.sequence, [kind |-> "AddUser", user |-> Stranger, name |-> RunOnName])
      [] c.at \in {"name", "piped name"} ->
            EntryLine(c.sequence, [c.operation EXCEPT !.name = RunOnName])
      [] c.at = "newline" ->
            IF c.operation.kind = "AddUser"
            THEN EntryLine(c.sequence, [c.operation EXCEPT !.name = RunOnName])
            ELSE Bad

LogLines == IF torn = NoLine THEN log ELSE Append(log, Alone(torn))

LogReadable == ~Has(LogLines, "bad")

\* Mutant of Replayed: the entry with the snapshot's own number is left out.
ReplayedAfter(g, from) ==
    LET lines == LogLines
    IN ApplyAll(g, [i \in DOMAIN lines |->
                       IF lines[i].kind = "entry" /\ lines[i].sequence > from
                       THEN lines[i].operation ELSE Nothing])

\* The operations of the log from a sequence number on.
OperationsFrom(lines, from) ==
    [i \in DOMAIN lines |->
        IF lines[i].kind = "entry" /\ lines[i].sequence >= from
        THEN lines[i].operation ELSE Nothing]

\* replay_operation_log over the entries read_operation_log found
Replayed(g, from) == ApplyAll(g, OperationsFrom(LogLines, from))

-----------------------------------------------------------------------------
Init ==
    /\ graph = Empty
    /\ snapshot = NoFile
    /\ log = <<>>
    /\ torn = NoLine
    /\ op = Idle
    /\ history = <<>>
    /\ cutSave = FALSE

LastSequence == Len(history)

AppendsWhole == \A i \in DOMAIN history : history[i].returned

\* append_operation, with the next sequence number
LogOperation(o) ==
    /\ op = Idle
    /\ LastSequence < IF AppendsWhole /\ ~cutSave THEN MaxOperations ELSE MaxWithCut
    /\ LET line == EntryLine(LastSequence + 1, o)
       IN log' = Append(log, IF torn = NoLine THEN line ELSE Joined(torn, line))
    /\ torn' = NoLine
    /\ history' = Append(history, [operation |-> o, returned |-> TRUE])
    /\ op' = [kind |-> "logged", operation |-> o]
    /\ UNCHANGED <<graph, snapshot, cutSave>>

ApplyOperation ==
    /\ op.kind = "logged"
    /\ graph' = Apply(graph, op.operation)
    /\ op' = Idle
    /\ UNCHANGED <<snapshot, log, torn, history, cutSave>>

\* The process dies while it appends.  The model leaves a cut entry to be joined
\* by a complete one before it cuts the next.
CrashInAppend(o) ==
    /\ op = Idle
    /\ torn = NoLine
    /\ LastSequence < MaxWithCut
    /\ \E at \in Cuts(o) : torn' = Cut(LastSequence + 1, o, at)
    /\ history' = Append(history, [operation |-> o, returned |-> FALSE])
    /\ op' = [kind |-> "down"]
    /\ UNCHANGED <<graph, snapshot, log, cutSave>>

\* save_snapshot empties the file before it writes.  The timestamp is the number
\* of the last operation the graph has, or the first it has not.
SaveBegin ==
    /\ op = Idle
    /\ \E timestamp \in {LastSequence, LastSequence + 1} :
          \E order \in SetToSeqs(DOMAIN graph.names) :
             op' = [kind |-> "saving", lines |-> SnapshotLines(graph, timestamp, order)]
    /\ snapshot' = <<>>
    /\ UNCHANGED <<graph, log, torn, history, cutSave>>

SaveEnd ==
    /\ op.kind = "saving"
    /\ snapshot' = op.lines
    /\ op' = Idle
    /\ UNCHANGED <<graph, log, torn, history, cutSave>>

\* A crash while saving leaves some lines, the last of them perhaps cut where a
\* number is missing; a line cut earlier has too few fields to count.
CrashInSave ==
    /\ op.kind = "saving"
    /\ LastSequence <= MaxWithCut
    /\ \E n \in 0 .. Len(op.lines) :
          \/ snapshot' = SubSeq(op.lines, 1, n)
          \/ snapshot' = Append(SubSeq(op.lines, 1, n), Bad)
    /\ op' = [kind |-> "down"]
    /\ cutSave' = TRUE
    /\ UNCHANGED <<graph, log, torn, history>>

Crash ==
    /\ op.kind \in {"idle", "logged"}
    /\ op' = [kind |-> "down"]
    /\ UNCHANGED <<graph, snapshot, log, torn, history, cutSave>>

\* recover_from_snapshot_and_log; before the first snapshot there is only the
\* log, replayed over a new graph.
Recover ==
    /\ op.kind = "down"
    /\ LogReadable
    /\ \/ /\ snapshot = NoFile
          /\ graph' = Replayed(Empty, 0)
       \/ /\ snapshot # NoFile
          /\ Load(snapshot).ok
          /\ graph' = Replayed(Restore(Load(snapshot)), Load(snapshot).timestamp)
    /\ op' = Idle
    /\ UNCHANGED <<snapshot, log, torn, history, cutSave>>

\* The call returns an error, and the process has no graph.
RecoverFails ==
    /\ op.kind = "down"
    /\ ~LogReadable \/ (snapshot # NoFile /\ ~Load(snapshot).ok)
    /\ op' = [kind |-> "failed"]
    /\ UNCHANGED <<graph, snapshot, log, torn, history, cutSave>>

Next ==
    \/ \E o \in Operations : LogOperation(o) \/ CrashInAppend(o)
    \/ ApplyOperation
    \/ SaveBegin \/ SaveEnd \/ CrashInSave
    \/ Crash \/ Recover \/ RecoverFails

Spec == Init /\ [][Next]_vars

-----------------------------------------------------------------------------
(* Properties *)

\* The graph that the operations of history numbered by K make.
Made(K) ==
    ApplyAll(Empty, [i \in DOMAIN history |-> IF i \in K THEN history[i].operation ELSE Nothing])

Returned == {i \in DOMAIN history : history[i].returned}

\* What is asked of the graph between two calls: it is the one that all
\* operations whose append returned make, with their names and in their order,
\* however often it was saved and recovered.  An append that did not return may
\* have taken effect, perhaps with part of a name.
Complete ==
    op = Idle =>
        \E K \in SUBSET DOMAIN history :
           LET made == Made(K)
           IN /\ Returned \subseteq K
              /\ graph.following = made.following
              /\ DOMAIN graph.names = DOMAIN made.names
              /\ \A u \in DOMAIN graph.names : graph.names[u] \in {made.names[u], CutName, RunOnName}

\* While no write is cut, crashes between any two calls and between logging and
\* applying cost nothing, and a recovery fails for nothing but a separator in the
\* name of a saved user.
NothingLost ==
    (AppendsWhole /\ ~cutSave) =>
        /\ Complete
        /\ op.kind = "failed" => HasPipedUser(snapshot)

\* An entry cut off at the end of the log costs no other operation, unless it
\* keeps the log from being read.
CutEndHarmless ==
    (~cutSave /\ \A i \in DOMAIN history : ~history[i].returned => i = Len(history)) => Complete

\* A snapshot cut off by a crash may cost users and edges but never brings any
\* back that later operations removed.
OnlyLoses ==
    (AppendsWhole /\ op = Idle) =>
        LET made == Made(Returned)
        IN /\ DOMAIN graph.names \subseteq DOMAIN made.names
           /\ \A u \in Users : ToSet(graph.following[u]) \subseteq ToSet(made.following[u])

\* A crash during an append costs no operation but the one that was appended.
TornAppendAlone == ~cutSave => Complete
=============================================================================
