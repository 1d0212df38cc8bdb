------------------------------ MODULE UidRanges ------------------------------
(***************************************************************************)
(* UidRanges.cpp: the users of a VPN as a sorted vector of uid ranges.     *)
(*                                                                         *)
(* parseFrom builds the vector of a command's arguments, add merges it     *)
(* into the vector of the VPN and remove takes it out again; hasUid is a   *)
(* binary search in the result.                                            *)
(***************************************************************************)
EXTENDS Integers, Sequences, FiniteSets, TLC

CONSTANTS
    UidSpan,        \* uid_t has the values 0..UidSpan-1 (2^32 of them in the code)
    MaxNumber,      \* bound: the largest number written in an argument
    MaxArgs,        \* bound: arguments of one command
    MaxRanges       \* bound: ranges a VPN may hold

ASSUME UidRangesAssumption ==
    UidSpan \in Nat \ {0} /\ MaxNumber \in Nat /\ MaxArgs \in Nat /\ MaxRanges \in Nat

INVALID_UID == UidSpan - 1
Uid   == 0..(UidSpan - 1)
Range == Uid \X Uid

\* operator< of std::pair.
Less(a, b) == a[1] < b[1] \/ (a[1] = b[1] /\ a[2] < b[2])

\* std::lower_bound: the first position whose range is not less than the key.
lower_bound(v, key) == 1 + Cardinality({ k \in DOMAIN v : Less(v[k], key) })

\* Faulty variant: the end of the range is not part of it.
BugHasUidEnd(v, uid) ==
    LET k == lower_bound(v, <<uid, uid>>)
    IN  \/ k <= Len(v) /\ v[k][1] = uid
        \/ k > 1 /\ v[k - 1][2] > uid

\* Faulty variant: the start of the range at the lower bound is not compared.
BugHasUidStart(v, uid) ==
    LET k == lower_bound(v, <<uid, uid>>)
    IN  \/ k <= Len(v)
        \/ k > 1 /\ v[k - 1][2] >= uid

hasUid(v, uid) ==
    LET k == lower_bound(v, <<uid, uid>>)
    IN  \/ k <= Len(v) /\ v[k][1] = uid
        \/ k > 1 /\ v[k - 1][2] >= uid

\* std::inplace_merge of the old vector and the appended one.
add(v, other) ==
    LET merge[i \in 1..(Len(v) + 1), j \in 1..(Len(other) + 1)] ==
            IF i > Len(v) THEN SubSeq(other, j, Len(other))
            ELSE IF j > Len(other) THEN SubSeq(v, i, Len(v))
            ELSE IF Less(other[j], v[i]) THEN <<other[j]>> \o merge[i, j + 1]
            ELSE <<v[i]>> \o merge[i + 1, j]
    IN  merge[1, 1]

\* Faulty variant: all occurrences of a range are taken out.
BugRemove(v, other) == SelectSeq(v, LAMBDA r : r \notin { other[k] : k \in DOMAIN other })

\* std::set_difference: one occurrence is taken out for each one in other.
remove(v, other) ==
    LET difference[i \in 1..(Len(v) + 1), j \in 1..(Len(other) + 1)] ==
            IF i > Len(v) THEN <<>>
            ELSE IF j > Len(other) THEN SubSeq(v, i, Len(v))
            ELSE IF Less(v[i], other[j]) THEN <<v[i]>> \o difference[i + 1, j]
            ELSE IF Less(other[j], v[i]) THEN difference[i, j + 1]
            ELSE difference[i + 1, j + 1]
    IN  difference[1, 1]

\* An argument is "start" or "start-end"; strtoul's result is cut to a uid_t.
\* Any other text makes parseFrom fail.
Argument ==
    [form : {"single"}, start : 0..MaxNumber]
    \cup [form : {"range"}, start : 0..MaxNumber, end : 0..MaxNumber]
toUid(number) == number % UidSpan

rangeOf(arg) ==
    <<toUid(arg.start), toUid(IF arg.form = "single" THEN arg.start ELSE arg.end)>>

parses(arg) ==
    LET r == rangeOf(arg)
    IN  r[1] <= r[2] /\ r[1] # INVALID_UID /\ r[2] # INVALID_UID

\* parseFrom fails as a whole when one argument is wrong, and sorts otherwise.
parseFrom(args) ==
    IF \E k \in DOMAIN args : ~parses(args[k]) THEN [ok |-> FALSE, ranges |-> <<>>]
    ELSE [ok |-> TRUE, ranges |-> SortSeq([k \in DOMAIN args |-> rangeOf(args[k])], Less)]
-----------------------------------------------------------------------------
VARIABLES
    mRanges,    \* the vector of the VPN
    held        \* how often each range was added and not removed since

vars == <<mRanges, held>>

Count(v, r) == Cardinality({ k \in DOMAIN v : v[k] = r })

Init ==
    /\ mRanges = <<>>
    /\ held = [r \in Range |-> 0]

\* VirtualNetwork::addUsers and removeUsers, for arguments that parse.
addUsers(args) ==
    LET parsed == parseFrom(args)
    IN  /\ parsed.ok
        /\ Len(mRanges) + Len(args) <= MaxRanges
        /\ mRanges' = add(mRanges, parsed.ranges)
        /\ held' = [r \in Range |-> held[r] + Count(parsed.ranges, r)]

removeUsers(args) ==
    LET parsed == parseFrom(args)
    IN  /\ parsed.ok
        /\ mRanges' = remove(mRanges, parsed.ranges)
        /\ held' = [r \in Range |-> IF held[r] > Count(parsed.ranges, r)
                                    THEN held[r] - Count(parsed.ranges, r) ELSE 0]

Arguments == UNION { [1..n -> Argument] : n \in 1..MaxArgs }

Next == \E args \in Arguments : addUsers(args) \/ removeUsers(args)

Spec == Init /\ [][Next]_vars
-----------------------------------------------------------------------------
\* The vector holds valid ranges, and stays sorted through every sequence of
\* adds and removes: the binary search of hasUid, the merge and the difference
\* all rely on it.
SortedAndValid ==
    /\ mRanges \in Seq(Range)
    /\ \A k \in DOMAIN mRanges :
        /\ mRanges[k][1] <= mRanges[k][2] /\ mRanges[k][2] # INVALID_UID
        /\ k > 1 => ~Less(mRanges[k], mRanges[k - 1])

\* The vector is a bag: it holds each range as often as it was added and not
\* removed, so that a range that was added twice survives one removal.
VectorIsBag == \A r \in Range : Count(mRanges, r) = held[r]

Covered(uid) == \E k \in DOMAIN mRanges : uid \in mRanges[k][1]..mRanges[k][2]

\* No two ranges share a uid (a range may occur twice).
Disjoint ==
    \A j, k \in DOMAIN mRanges :
        mRanges[j] = mRanges[k] \/ mRanges[j][2] < mRanges[k][1] \/ mRanges[k][2] < mRanges[j][1]

\* hasUid finds the uid exactly when a range covers it, for ranges that do not
\* overlap.
HasUidOfDisjointRanges == Disjoint => \A uid \in Uid : hasUid(mRanges, uid) <=> Covered(uid)

\* hasUid looks at no range but the one before the place of the uid: it says yes
\* only for uids that are covered, also when ranges overlap.
HasUidIsSound == \A uid \in Uid : hasUid(mRanges, uid) => Covered(uid)

\* getNetworkForUser "Returns the NetId that a given UID would use if no network
\* is explicitly selected": the kernel has a rule for each range of the VPN, so
\* a uid that some range covers uses the VPN.
HasUidFindsCovered == \A uid \in Uid : Covered(uid) => hasUid(mRanges, uid)
=============================================================================
