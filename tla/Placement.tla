------------------------------ MODULE Placement -------------------------------
(***************************************************************************)
(* The placements of src/sharded.rs: which shard a user belongs to, what a  *)
(* constructor accepts, and the text a placement is saved as and read from. *)
(* Shards are 0 .. n - 1; communities are numbered from 1.                  *)
(***************************************************************************)
EXTENDS Integers, SequencesExt

CONSTANTS NoShard,  \* try_shard_for's None
          MaxId     \* the largest user ID (u64::MAX)

ASSUME PlacementAssumption == NoShard \notin Nat /\ MaxId \in Nat

Hash == [kind |-> "Hash"]

Community(size) == [kind |-> "Community", size |-> size]

BalancedCommunity(sizes, shards) == [kind |-> "BalancedCommunity", sizes |-> sizes, shards |-> shards]

\* The values of Placement.
Placements ==
    {Hash} \cup [kind : {"Community"}, size : Nat]
           \cup [kind : {"BalancedCommunity"}, sizes : Seq(Nat), shards : Seq(Nat)]

\* Users in the first c communities.
UpTo(sizes, c) == FoldLeft(LAMBDA a, b : a + b, 0, SubSeq(sizes, 1, c))

AllUsers(sizes) == UpTo(sizes, Len(sizes))

-----------------------------------------------------------------------------
\* with_placement(n, p) returns a graph.
Valid(p, n) ==
    /\ n > 0
    /\ p.kind = "Community" => p.size > 0
    /\ p.kind = "BalancedCommunity" =>
          /\ p.sizes # <<>>
          /\ 0 \notin ToSet(p.sizes)
          /\ Len(p.sizes) = Len(p.shards)
          /\ \A s \in ToSet(p.shards) : s < n
          /\ AllUsers(p.sizes) <= MaxId

\* Mutant of CommunityOf: the last user of a community goes to the next one.
CommunityOfBefore(sizes, u) ==
    LET before == {c \in DOMAIN sizes : u < UpTo(sizes, c)}
    IN IF before = {} THEN Len(sizes) ELSE CHOOSE c \in before : \A d \in before : c <= d

\* The first community whose end is not before u.
CommunityOf(sizes, u) ==
    CHOOSE c \in DOMAIN sizes : UpTo(sizes, c - 1) < u /\ u <= UpTo(sizes, c)

\* try_shard_for(u), on n shards of a valid placement
ShardFor(p, n, u) ==
    CASE u = 0 -> NoShard
      [] u # 0 /\ p.kind = "Hash" -> u % n
      [] u # 0 /\ p.kind = "Community" -> ((u - 1) \div p.size) % n
      [] u # 0 /\ p.kind = "BalancedCommunity" ->
            IF u <= AllUsers(p.sizes) THEN p.shards[CommunityOf(p.sizes, u)] ELSE NoShard

-----------------------------------------------------------------------------
(* placement_info and parse_placement_info; a text is a sequence of tokens *)

Word(text) == [text |-> text, number |-> 0]

Numeral(number) == [text |-> "", number |-> number]

Joined(numbers) ==
    FlattenSeq([i \in DOMAIN numbers |->
                   IF i = 1 THEN <<Numeral(numbers[i])>> ELSE <<Word(","), Numeral(numbers[i])>>])

\* Mutant of Info: the two lists are written in the other order.
InfoSwapped(p) ==
    CASE p.kind = "Hash" -> <<Word("Hash")>>
      [] p.kind = "Community" -> <<Word("Community:"), Numeral(p.size)>>
      [] p.kind = "BalancedCommunity" ->
            <<Word("BalancedCommunity:")>> \o Joined(p.shards) \o <<Word(":")>> \o Joined(p.sizes)

Info(p) ==
    CASE p.kind = "Hash" -> <<Word("Hash")>>
      [] p.kind = "Community" -> <<Word("Community:"), Numeral(p.size)>>
      [] p.kind = "BalancedCommunity" ->
            <<Word("BalancedCommunity:")>> \o Joined(p.sizes) \o <<Word(":")>> \o Joined(p.shards)

\* str::split
Fields(text, separator) ==
    FoldLeft(LAMBDA fields, token :
                IF token = Word(separator) THEN Append(fields, <<>>)
                ELSE Append(Front(fields), Append(Last(fields), token)),
             << <<>> >>, text)

IsNumber(text) == Len(text) = 1 /\ text[1].text = ""

AreNumbers(text) == \A field \in ToSet(Fields(text, ",")) : IsNumber(field)

Numbers(text) == [i \in DOMAIN Fields(text, ",") |-> Fields(text, ",")[i][1].number]

Unreadable == [kind |-> "unreadable"]

Parse(info) ==
    LET rest == Tail(info)
        parts == Fields(rest, ":")
    IN CASE info = <<Word("Hash")>> -> Hash
         [] Head(info) = Word("Community:") /\ IsNumber(rest) -> Community(rest[1].number)
         [] /\ Head(info) = Word("BalancedCommunity:")
            /\ Len(parts) = 2 /\ AreNumbers(parts[1]) /\ AreNumbers(parts[2]) ->
               BalancedCommunity(Numbers(parts[1]), Numbers(parts[2]))
         [] OTHER -> Unreadable
=============================================================================
