---- MODULE RuntimeMetrics ----
(***************************************************************************)
(* The runtime metrics: the native tracker counts the spans that are       *)
(* unfinished, and those that are finished and not collected yet; native   *)
(* histograms count the turns of the event loop and the pauses of the      *)
(* collector; counters count what the scope manager sees.  An interval     *)
(* reads them all into messages, and the StatsD client packs these into    *)
(* datagrams that leave when its host was looked up.                       *)
(*                                                                         *)
(* The interval runs alone, but for the collector: reading allocates, so   *)
(* the collector may pause the process and free spans between two reads.   *)
(***************************************************************************)
EXTENDS Integers, FiniteSets, Sequences, SequencesExt

CONSTANTS
    Span, Name, NameOf,  \* spans and their names
    Tag,                 \* what counters are kept of
    SizeOf, Limit,       \* bytes of a message; the limit of a datagram
    Width,               \* 2^64, the range of an unsigned counter
    MaxTurns, MaxPauses, MaxCount, MaxLookups

Kind == {"finished", "unfinished"}
Stat == {"counter", "turns", "pauses", "total", "name"}

ASSUME MetricsAssumption ==
    /\ IsFiniteSet(Span) /\ IsFiniteSet(Name) /\ NameOf \in [Span -> Name]
    /\ Width \in Nat /\ Cardinality(Span) < Width
    /\ SizeOf \in [Stat -> Nat \ {0}] /\ Limit \in Nat /\ MaxCount \in Nat

VARIABLES
    native,   \* the native module could be loaded
    handle,   \* what became of the handle of each span
    total,    \* spans of each kind
    byName,   \* and by their names
    counters, \* of the tags that were counted so far
    loop,     \* the histogram of turns: how many it has
    pauses,   \* the histogram of pauses
    step,     \* how far the interval is: idle, pauses, names
    read,     \* what it has read
    lookups,  \* batches whose host is being looked up
    turned, paused,    \* turns and pauses that there were (history)
    gone      \* turns and pauses in batches that were sent or lost (history)

client == <<lookups, gone>>
tracker == <<handle, total, byName>>
vars == <<native, handle, total, byName, counters, loop, pauses, step, read, lookups,
          turned, paused, gone>>

None == [k \in Kind |-> 0]
Unread == [turns |-> 0, pauses |-> 0, total |-> None]

\* After start().
Init ==
    /\ native \in BOOLEAN
    /\ handle = [s \in Span |-> "none"]
    /\ total = None /\ byName = [n \in Name |-> None]
    /\ counters = <<>> /\ loop = 0 /\ pauses = 0
    /\ step = "idle" /\ read = Unread /\ lookups = <<>>
    /\ turned = 0 /\ paused = 0 /\ gone = [turns |-> 0, pauses |-> 0]

\* Mutant of Counted: the collector leaves the counters of the names alone.
CountedByTotal(s, change) ==
    LET Changed(c) == [k \in Kind |-> (c[k] + change[k]) % Width]
    IN /\ total' = Changed(total)
       /\ byName' = IF \E k \in Kind : change[k] = 1
                    THEN [byName EXCEPT ![NameOf[s]] = Changed(@)] ELSE byName

\* The counters of s change by what is added to each kind.
Counted(s, change) ==
    LET Changed(c) == [k \in Kind |-> (c[k] + change[k]) % Width]
    IN /\ total' = Changed(total)
       /\ byName' = [byName EXCEPT ![NameOf[s]] = Changed(@)]

\* A span is started and tracked.
Track(s) ==
    /\ step = "idle" /\ handle[s] = "none"
    /\ IF native
       THEN /\ handle' = [handle EXCEPT ![s] = "unfinished"]
            /\ Counted(s, [finished |-> 0, unfinished |-> 1])
       ELSE /\ handle' = [handle EXCEPT ![s] = "noop"]
            /\ UNCHANGED <<total, byName>>
    /\ UNCHANGED <<native, counters, loop, pauses, step, read, turned, paused, client>>

Finish(s) ==
    /\ step = "idle" /\ handle[s] = "unfinished"
    /\ handle' = [handle EXCEPT ![s] = "finished"]
    /\ Counted(s, [finished |-> 1, unfinished |-> -1])
    /\ UNCHANGED <<native, counters, loop, pauses, step, read, turned, paused, client>>

\* Mutant of Collected: the flag of the handle is not looked at.
CollectedUnfinished(s) == "unfinished"

\* What a collected span was counted as.
Collected(s) == handle[s]

\* The callback of the collector for the context of a span that nobody holds.
Collect(s) ==
    /\ handle[s] \in Kind
    /\ handle' = [handle EXCEPT ![s] = "freed"]
    /\ Counted(s, [k \in Kind |-> IF k = Collected(s) THEN -1 ELSE 0])
    /\ UNCHANGED <<native, counters, loop, pauses, step, read, turned, paused, client>>

\* A counter of async resources goes up or down.
Count(t, by) ==
    LET old == IF t \in DOMAIN counters THEN counters[t] ELSE 0
    IN /\ step = "idle" /\ old + by \in 0 .. MaxCount
       /\ counters' = [u \in DOMAIN counters \cup {t} |->
                        IF u = t THEN old + by ELSE counters[u]]
       /\ UNCHANGED <<native, loop, pauses, step, read, turned, paused, tracker, client>>

Turn ==
    /\ native /\ step = "idle" /\ turned < MaxTurns
    /\ turned' = turned + 1 /\ loop' = loop + 1
    /\ UNCHANGED <<native, counters, pauses, step, read, paused, tracker, client>>

\* The collector runs, which may be while its histogram is read.
Pause ==
    /\ native /\ paused < MaxPauses
    /\ paused' = paused + 1 /\ pauses' = pauses + 1
    /\ UNCHANGED <<native, counters, loop, step, read, turned, tracker, client>>

----------------------------------------------------------------------------
\* The client.

Message(stat, of, value) == [stat |-> stat, of |-> of, value |-> value]

\* The sum of a sequence of numbers.
Total(values) ==
    LET upTo[i \in 0 .. Len(values)] == IF i = 0 THEN 0 ELSE upTo[i - 1] + values[i]
    IN upTo[Len(values)]

Bytes(messages) == Total([i \in DOMAIN messages |-> SizeOf[messages[i].stat]])

Enqueued(c) ==
    IF c.buffer = <<>> THEN c
    ELSE [queue |-> Append(c.queue, c.buffer), buffer |-> <<>>]

\* Mutant of Written: the message that is added is not counted.
WrittenOver(c, m) ==
    LET room == IF Bytes(c.buffer) > Limit THEN Enqueued(c) ELSE c
    IN [room EXCEPT !.buffer = Append(@, m)]

\* The buffer is put in the queue if the message would make it too long.
Written(c, m) ==
    LET room == IF Bytes(c.buffer) + SizeOf[m.stat] > Limit THEN Enqueued(c) ELSE c
    IN [room EXCEPT !.buffer = Append(@, m)]

\* The messages are written one after the other, and the client is flushed.
Datagrams(messages) ==
    LET after[i \in 0 .. Len(messages)] ==
            IF i = 0 THEN [queue |-> <<>>, buffer |-> <<>>]
            ELSE Written(after[i - 1], messages[i])
    IN Enqueued(after[Len(messages)]).queue

\* What was captured is written and flushed: nothing else writes, so that the
\* client is empty before and after.
Captured(messages) ==
    lookups' = IF messages = <<>> THEN lookups
               ELSE Append(lookups, [messages |-> messages, datagrams |-> Datagrams(messages)])

CounterMessages == [i \in 1 .. Cardinality(DOMAIN counters) |->
    LET t == SetToSeq(DOMAIN counters)[i] IN Message("counter", t, counters[t])]

\* Messages of a number for each member of S.
Each(stat, S, value) ==
    [i \in 1 .. Cardinality(S) |->
        LET x == SetToSeq(S)[i] IN Message(stat, x, value[x])]

\* The interval without the native module.
Tick ==
    /\ ~native /\ Len(lookups) < MaxLookups
    /\ Captured(CounterMessages)
    /\ UNCHANGED <<native, counters, loop, pauses, step, read, turned, paused, gone, tracker>>

\* With it: stats() reads and resets the turns, and reads the pauses;
TickNative ==
    /\ native /\ step = "idle" /\ Len(lookups) < MaxLookups
    /\ read' = [read EXCEPT !.turns = loop, !.pauses = pauses]
    /\ loop' = 0
    /\ step' = "pauses"
    /\ UNCHANGED <<native, counters, pauses, turned, paused, tracker, client>>

\* Mutant of Reset: what was read is read again.
ResetNever == pauses

Reset == 0

\* resets the pauses, also one that came while they were read, and reads the
\* totals of the spans;
ReadTotals ==
    /\ step = "pauses"
    /\ pauses' = Reset
    /\ read' = [read EXCEPT !.total = total]
    /\ step' = "names"
    /\ UNCHANGED <<native, counters, loop, turned, paused, tracker, client>>

\* then their names, and all is reported; the message of a name stands for
\* one of each kind.  The names are read at once here.  In the code one is read
\* after the other, so that spans freed in between make later ones smaller.
ReadNames ==
    /\ step = "names"
    /\ Captured(CounterMessages
                \o <<Message("turns", "sum", read.turns), Message("pauses", "sum", read.pauses)>>
                \o Each("total", Kind, read.total)
                \o Each("name", Name, [n \in Name |-> byName[n]]))
    /\ step' = "idle" /\ read' = Unread
    /\ UNCHANGED <<native, counters, loop, pauses, turned, paused, gone, tracker>>

SumOf(stat, messages) ==
    Total([i \in DOMAIN messages |->
            IF messages[i].stat = stat THEN messages[i].value ELSE 0])

\* The lookup of a batch answers, and its datagrams are sent; or it fails, and
\* they are lost.
Lookup(i) ==
    LET sent == FlattenSeq(lookups[i].datagrams)
    IN /\ lookups' = RemoveAt(lookups, i)
       /\ gone' = [turns  |-> gone.turns + SumOf("turns", sent),
                   pauses |-> gone.pauses + SumOf("pauses", sent)]
       /\ UNCHANGED <<native, counters, loop, pauses, step, read, turned, paused, tracker>>

Next ==
    \/ Turn \/ Pause \/ Tick \/ TickNative \/ ReadTotals \/ ReadNames
    \/ \E s \in Span : Track(s) \/ Finish(s) \/ Collect(s)
    \/ \E t \in Tag, by \in {1, -1} : Count(t, by)
    \/ \E i \in DOMAIN lookups : Lookup(i)

Spec == Init /\ [][Next]_vars

----------------------------------------------------------------------------
\* Properties.

Spans(k) == {s \in Span : handle[s] = k}

\* The unsigned counters of the tracker are what the collector has left: in
\* any order of tracking, finishing and collecting, of finished spans and of
\* others, none is counted twice and no counter goes below zero.
SpansCounted ==
    \A k \in Kind : /\ total[k] = Cardinality(Spans(k))
                    /\ \A n \in Name :
                        byName[n][k] = Cardinality({s \in Spans(k) : NameOf[s] = n})

\* A report names at most the spans that its totals have, though spans may be
\* collected between the two.
NamesInTotals ==
    \A i \in DOMAIN lookups : \A k \in Kind :
        LET messages == lookups[i].messages
            named == [j \in DOMAIN messages |->
                        IF messages[j].stat = "name" THEN messages[j].value[k] ELSE 0]
        IN \A j \in DOMAIN messages :
            messages[j].stat = "total" /\ messages[j].of = k
                => Total(named) <= messages[j].value

\* Each turn of the loop is in the histogram or in one report, and no pause is
\* in two, however they fall between the reads of the interval.
Reported(stat) ==
    Total([i \in DOMAIN lookups |-> SumOf(stat, FlattenSeq(lookups[i].datagrams))])

CountedOnce ==
    /\ turned = loop + read.turns + Reported("turns") + gone.turns
    /\ Reported("pauses") + gone.pauses
        + (IF step = "names" THEN read.pauses + pauses ELSE pauses) <= paused

\* The datagrams of a report hold all its messages in order, and none is over
\* the limit unless it is one message.
Packed ==
    \A i \in DOMAIN lookups :
        LET b == lookups[i]
        IN /\ FlattenSeq(b.datagrams) = b.messages
           /\ \A j \in DOMAIN b.datagrams :
                Bytes(b.datagrams[j]) <= Limit \/ Len(b.datagrams[j]) = 1
====
