--------------------------- MODULE IrnSackManager ----------------------------
(* The block list of IrnSackManager (m_data) and the two ways a sender uses   *)
(* it: AcknowledgeForLaps in mode NACK, and the IRN branch of ReceiveAck.     *)
(*                                                                            *)
(* The list is an ordered list of blocks of bytes; what it stands for, the    *)
(* set of selectively acknowledged bytes, is kept next to it as the history   *)
(* variable bytes, and the list operations are checked against it.            *)
EXTENDS Naturals, FiniteSets, SequencesExt

CONSTANT MaxSeq       \* bound: sequence numbers are 0..MaxSeq

ASSUME MaxSeqAssumption == MaxSeq \in Nat

VARIABLES
    m_data,           \* Seq([first, len]), the blocks
    snd_una,          \* first byte that is not acknowledged
    bytes             \* history: the bytes acknowledged at or after snd_una

sackVars == <<m_data, snd_una, bytes>>

Block(first, len) == [first |-> first, len |-> len]
End(b) == b.first + b.len
Bytes(b) == b.first..(End(b) - 1)
Range2(seq, sz) == seq..(seq + sz - 1)

-----------------------------------------------------------------------------
(* sack(seq, sz)                                                              *)

\* Mutant of Traverse: a block of the list that lies inside the new one ends the
\* insertion, and what the new block has beyond it is forgotten.
TraverseStopsInside(st, b) ==
    LET seqEnd == st.seq + st.sz
        Put(new) == [st EXCEPT !.out = @ \o new]
        Goto(next, new) == [st EXCEPT !.out = @ \o new, !.seq = next, !.sz = seqEnd - next]
        Leave(new, merge) ==
            [st EXCEPT !.out = @ \o new, !.sz = 0, !.over = TRUE, !.merge = merge]
        before == Block(st.seq, b.first - st.seq)
    IN
    IF st.over THEN Put(<<b>>)
    ELSE IF b.first <= st.seq /\ seqEnd <= End(b) THEN Leave(<<b>>, FALSE)
    ELSE IF st.seq < b.first /\ seqEnd <= b.first
         THEN Leave(<<Block(st.seq, st.sz), b>>, TRUE)
    ELSE IF b.first <= st.seq /\ st.seq <= End(b) THEN Goto(End(b), <<b>>)
    ELSE IF st.seq < b.first THEN Leave(<<before, b>>, TRUE)
    ELSE Put(<<b>>)

\* One turn of the insertion loop: block b of the list against what is left,
\* [seq, seq + sz), of the block to insert.  over: the loop has been left; merge:
\* the merging pass follows (a block found inside another returns without it).
Traverse(st, b) ==
    LET seqEnd == st.seq + st.sz
        Put(new) == [st EXCEPT !.out = @ \o new]
        Goto(next, new) == [st EXCEPT !.out = @ \o new, !.seq = next, !.sz = seqEnd - next]
        Leave(new, merge) ==
            [st EXCEPT !.out = @ \o new, !.sz = 0, !.over = TRUE, !.merge = merge]
        before == Block(st.seq, b.first - st.seq)
    IN
    IF st.over THEN Put(<<b>>)
    ELSE IF b.first <= st.seq /\ seqEnd <= End(b) THEN Leave(<<b>>, FALSE)
    ELSE IF st.seq < b.first /\ End(b) < seqEnd THEN Goto(End(b), <<before, b>>)
    ELSE IF st.seq < b.first /\ seqEnd <= b.first
         THEN Leave(<<Block(st.seq, st.sz), b>>, TRUE)
    ELSE IF b.first <= st.seq /\ st.seq <= End(b) THEN Goto(End(b), <<b>>)
    ELSE IF st.seq < b.first THEN Leave(<<before, b>>, TRUE)
    ELSE Put(<<b>>)

\* The merging pass: a block that starts where the one before it ends joins it.
Merge(list, b) ==
    IF list # <<>> /\ End(Last(list)) = b.first
    THEN Append(Front(list), Block(Last(list).first, Last(list).len + b.len))
    ELSE Append(list, b)

Inserted(list, seq, sz) ==
    LET st == FoldLeft(Traverse,
                       [seq |-> seq, sz |-> sz, out |-> <<>>, over |-> FALSE, merge |-> TRUE],
                       list)
    IN [st EXCEPT !.out = IF st.sz # 0 THEN Append(@, Block(st.seq, st.sz)) ELSE @]

Sack(list, seq, sz) ==
    LET st == Inserted(list, seq, sz) IN
    IF sz = 0 THEN list
    ELSE IF st.merge THEN FoldLeft(Merge, <<>>, st.out)
    ELSE st.out

\* Mutant of DiscardUpTo: a block that ends where the discarded range ends is kept.
DiscardUpToLeavesEmpty(list, cumAck) ==
    LET kept == SubSeq(list, Min({k \in 1..(Len(list) + 1) :
                                    k <= Len(list) => End(list[k]) >= cumAck}), Len(list))
    IN
    IF kept # <<>> /\ Head(kept).first < cumAck
    THEN <<Block(cumAck, End(Head(kept)) - cumAck)>> \o Tail(kept)
    ELSE kept

\* discardUpTo(cumAck): the blocks before the first that ends after it go, and what
\* that one has before it.
Kept(list, cumAck) ==
    SubSeq(list, Min({k \in 1..(Len(list) + 1) :
                        k <= Len(list) => End(list[k]) > cumAck}), Len(list))
DiscardUpTo(list, cumAck) ==
    LET kept == Kept(list, cumAck) IN
    IF kept # <<>> /\ Head(kept).first < cumAck
    THEN <<Block(cumAck, End(Head(kept)) - cumAck)>> \o Tail(kept)
    ELSE kept

\* checkFirstNackedBlockAndUpdateSndUna: snd_una moves over the front block when
\* that block starts there.
NextUna(una, list) ==
    IF list # <<>> /\ Head(list).first = una THEN End(Head(list)) ELSE una

BlockExists(list, seq, sz) ==
    \E k \in DOMAIN list : list[k].first <= seq /\ seq + sz <= End(list[k])

GetSackBufferOverhead(list) == FoldLeft(LAMBDA n, b : n + b.len, 0, list)

-----------------------------------------------------------------------------
SackInit == m_data = <<>> /\ snd_una = 0 /\ bytes = {}

\* The reference: all acknowledged bytes from una on are held, and those that
\* follow una without a gap are passed over.
Hold(una, all) ==
    LET next == CHOOSE s \in una..(MaxSeq + 1) : s \notin all /\ una..(s - 1) \subseteq all
    IN bytes' = {s \in all : s >= next}

\* AcknowledgeForLaps (mode NACK): the ACK names one packet, at or after snd_una.
AcknowledgeForLaps(nackSeq, nackSize) ==
    LET list == Sack(m_data, nackSeq, nackSize) IN
    /\ snd_una <= nackSeq /\ nackSize > 0
    /\ snd_una' = NextUna(snd_una, list)
    /\ m_data' = DiscardUpTo(list, snd_una')
    /\ Hold(snd_una, bytes \cup Range2(nackSeq, nackSize))

\* ReceiveAck (mode IRN): the cumulative acknowledgement (Acknowledge), then the
\* packet the NACK names, which lies beyond it.  nackSize = 0: a pure ACK.  Delayed
\* ones may be older than snd_una; the flow is cut into fixed packets, so a packet
\* lies on one side of snd_una, and the receiver misses the byte at ack.
ReceiveAckIrn(ack, nackSeq, nackSize) ==
    LET una == IF ack > snd_una THEN ack ELSE snd_una
        list == Sack(m_data, nackSeq, nackSize)
    IN
    /\ ack \notin bytes
    /\ nackSize > 0 => ack < nackSeq /\ (una <= nackSeq \/ nackSeq + nackSize <= una)
    /\ snd_una' = NextUna(una, list)
    /\ m_data' = DiscardUpTo(list, snd_una')
    /\ Hold(una, {s \in bytes \cup Range2(nackSeq, nackSize) : s >= una})

SackNext ==
    \E seq \in 0..MaxSeq : \E sz \in 0..(MaxSeq - seq) :
        \/ AcknowledgeForLaps(seq, sz)
        \/ \E ack \in 0..MaxSeq : ReceiveAckIrn(ack, seq, sz)

SackSpec == SackInit /\ [][SackNext]_sackVars

-----------------------------------------------------------------------------
(* Properties                                                                 *)

\* The blocks are the maximal runs of acknowledged bytes after snd_una, in order:
\* not empty, not overlapping, not adjacent (the assertions of the merging pass),
\* whatever blocks arrive in whatever order; and the byte at snd_una is in none.
Canonical ==
    /\ \A k \in DOMAIN m_data : m_data[k].len > 0 /\ m_data[k].first > snd_una
    /\ \A k \in DOMAIN m_data \ {1} : End(m_data[k - 1]) < m_data[k].first

\* The list holds exactly the acknowledged bytes, so what is asked of it is exact:
\* the size of the SACK buffer, which GetOnTheFlyForLaps subtracts from the bytes
\* in flight, and whether a packet has been acknowledged already.
Exact ==
    /\ UNION {Bytes(m_data[k]) : k \in DOMAIN m_data} = bytes
    /\ GetSackBufferOverhead(m_data) = Cardinality(bytes)
    /\ \A seq \in 0..MaxSeq : \A sz \in 1..(MaxSeq - seq) :
          BlockExists(m_data, seq, sz) <=> Range2(seq, sz) \subseteq bytes

=============================================================================
