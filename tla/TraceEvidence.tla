---------------------------- MODULE TraceEvidence ----------------------------
(***************************************************************************)
(* A child's native trace as the daemon reads it: the bounded windows that *)
(* reviews are built from (src/src/supervision/trace-source.ts,            *)
(* devin-trace.ts, src/src/transcript-delta.ts; the live store is in       *)
(* DevinStore) and the scan of its tail that a lane's retirement rests on  *)
(* (trace-tail.ts).                                                        *)
(*                                                                         *)
(* Bytes are abstracted to records: a record fits a window, is too long    *)
(* for any, or is malformed, and a window holds Window records.  A record  *)
(* has an identity of its own, so an anchor, the hash of what lies before  *)
(* a cursor, is the identity of the last record before it.                 *)
(***************************************************************************)
EXTENDS DevinStore

CONSTANTS
    Screen,         \* lines a terminal read shows
    Budget,         \* TRACE_TAIL_BUDGET_BYTES, in records
    Slack,          \* TRACE_TAIL_SLACK_MS, in ticks
    MaxTicks        \* bound: the time stamps of a trace

ASSUME TraceAssumption ==
    /\ Screen \in Nat \ {0} /\ MaxTicks \in Nat
    /\ Budget \in Nat \ {0} /\ Slack \in Nat \ {0}

VARIABLE trace      \* the child's trace: its source, its records, the one being written

(* selectTraceSource; a Devin cursor stays with the backend that minted it. *)
Sources == {"pi-jsonl", "devin-session", "devin-store", "tmux-fallback"}
Sizes == {"fits", "long", "bad"}

(* What a record is; of a terminal line, its text. *)
Kinds == {"user", "other", "compaction", "drift"}

(* A time of 0 is a time stamp that is missing. *)
Entry == [id: 1..MaxRecords, size: Sizes, kind: Kinds, at: 0..MaxTicks]

TraceTypeOK ==
    /\ trace.source \in Sources
    /\ trace.records \in Seq(Entry)
    /\ trace.tail \in {"none", "fits", "long"}
    /\ trace.written \in 0..MaxRecords

TraceInit(source) == trace = [source |-> source, records |-> <<>>, tail |-> "none", written |-> 0]

Latest(n, s) == SubSeq(s, IF Len(s) > n THEN Len(s) - n + 1 ELSE 1, Len(s))
IdsOf(s) == {s[i].id : i \in 1..Len(s)}

-----------------------------------------------------------------------------
(* The agent writes its trace. *)

(* Records come in the order of their time stamps but for less than the slack. *)
InOrder(at) == at = 0 \/ \A i \in 1..Len(trace.records) : trace.records[i].at < at + Slack

Appended(size, kind, at) ==
    [trace EXCEPT !.tail = "none", !.written = @ + 1,
                  !.records = Append(@, [id |-> trace.written + 1, size |-> size, kind |-> kind, at |-> at])]

WriteRecord(size, kind, at) ==
    /\ trace.tail = "none" /\ trace.written < MaxRecords
    /\ InOrder(at)
    /\ trace' = Appended(size, kind, at)

(* A record of a log that is flushed in two parts. *)
BeginRecord(size) ==
    /\ trace.source = "pi-jsonl"
    /\ trace.tail = "none" /\ trace.written < MaxRecords
    /\ trace' = [trace EXCEPT !.tail = size]

EndRecord(kind) == trace.tail # "none" /\ trace' = Appended(trace.tail, kind, 0)

(* A rollback, a compaction or a cleared screen starts the trace afresh. *)
RewriteTrace ==
    /\ trace.records # <<>>
    /\ trace' = [trace EXCEPT !.records = <<>>, !.tail = "none"]

-----------------------------------------------------------------------------
(* Windows of a structured source. *)

CursorAt(n) ==
    [NoCursor EXCEPT !.offset = n, !.anchor = IF n = 0 THEN <<>> ELSE <<trace.records[n].id>>]

(* What lies before the cursor is what lay there when it was minted. *)
Extends(from) ==
    \/ from.offset = 0
    \/ from.offset <= Len(trace.records) /\ from.anchor = <<trace.records[from.offset].id>>

(* The records of the next window, up to the first that is too long. *)
InWindow(from) ==
    {i \in (from.offset + 1)..Len(trace.records) :
        /\ i <= from.offset + Window
        /\ \A j \in (from.offset + 1)..i : trace.records[j].size # "long"}

(* One malformed record fails its window whole; a record too long for any is  *)
(* reported and stepped over once it is complete.                             *)
NextWindow(from) ==
    LET next == from.offset + 1
        in == InWindow(from)
        there == next <= Len(trace.records)
    IN IF there /\ trace.records[next].size = "long"
       THEN SteppedOver(CursorAt(next), {trace.records[next].id})
       ELSE IF ~there /\ trace.tail = "long" THEN Failed(from, "record_exceeds_budget")
       ELSE IF \E i \in in : trace.records[i].size = "bad" THEN Failed(from, "source_malformed")
       ELSE Got(CursorAt(from.offset + Cardinality(in)), {trace.records[i].id : i \in in})

(* readPi: an unterminated record is left for a later window. *)
ReadPi(from) == IF ~Extends(from) THEN Failed(from, "source_rewritten") ELSE NextWindow(from)

(* readDevin and the transcript reader; the document is replaced whole. *)
ReadDevin(from) == IF ~Extends(from) THEN Failed(from, "source_rewritten") ELSE NextWindow(from)

-----------------------------------------------------------------------------
(* Windows of a terminal. *)

TextOf(s) == [i \in 1..Len(s) |-> s[i].kind]

(* deltaLines: the previous read is a prefix of this one, or its end is this  *)
(* one's beginning, as much as can be; else only the common prefix is old.    *)
DeltaLines(previous, current) ==
    LET p == TextOf(previous)
        c == TextOf(current)
        fit == {k \in 1..Len(p) : k <= Len(c)}
        overlaps == {k \in fit : SubSeq(p, Len(p) - k + 1, Len(p)) = SubSeq(c, 1, k)}
        commons == {k \in fit \cup {0} : SubSeq(p, 1, k) = SubSeq(c, 1, k)}
        Most(S) == CHOOSE k \in S : \A j \in S : j <= k
        after(k) == SubSeq(current, k + 1, Len(current))
    IN IF Len(p) \in commons THEN after(Len(p))
       ELSE IF overlaps # {} THEN after(Most(overlaps))
       ELSE after(Most(commons))

(* readTerminalWindow: of an oversized delta the newest lines are kept. *)
ReadTerminalWindow(from) ==
    LET lines == Latest(Screen, trace.records) IN
    IF \E i \in 1..Len(lines) : lines[i].size = "long" THEN Failed(from, "record_exceeds_budget")
    ELSE Got([NoCursor EXCEPT !.lines = lines], IdsOf(Latest(Window, DeltaLines(from.lines, lines))))

(* createTraceSource.read; a source may also be unreadable. *)
ReadTrace(from) ==
    CASE trace.source = "pi-jsonl" -> ReadPi(from)
      [] trace.source = "devin-session" -> ReadDevin(from)
      [] trace.source = "devin-store" -> ReadStore(from)
      [] trace.source = "tmux-fallback" -> ReadTerminalWindow(from)

-----------------------------------------------------------------------------
(* The tail scan. *)

(* claudeTurn, piTurn, devinTurn: a record the scan cannot place. *)
Unplaced(e, anchor) ==
    CASE e.kind = "drift" -> TRUE
      [] e.kind = "compaction" -> e.at = 0 \/ e.at >= anchor
      [] e.kind = "user" -> e.at = 0
      [] OTHER -> FALSE

IsFollowUp(e, anchor) == e.kind = "user" /\ e.at >= anchor /\ e.at # 0

(* Mutant of Precedes: the first record older than the anchor ends the scan. *)
PrecedesAtAll(e, anchor) == e.at # 0 /\ e.at < anchor

(* A record this old proves everything before it older than the anchor. *)
Precedes(e, anchor) == e.at # 0 /\ e.at + Slack <= anchor

(* scanBackwards: the newest record that decides. *)
ScanBackwards(s, anchor) ==
    LET decides == {i \in 1..Len(s) : Unplaced(s[i], anchor) \/ IsFollowUp(s[i], anchor)
                                         \/ Precedes(s[i], anchor)}
        newest == CHOOSE i \in decides : \A j \in decides : j <= i
    IN IF decides = {} THEN "none"
       ELSE IF Unplaced(s[newest], anchor) THEN "ambiguous"
       ELSE IF IsFollowUp(s[newest], anchor) THEN "user_turn"
       ELSE "reached_slack"

Malformed(s) == \E i \in 1..Len(s) : s[i].size = "bad"

(* scanJsonl: a tail that starts within the file drops its first record, and  *)
(* must reach the slack.                                                      *)
ScanJsonl(anchor, history) ==
    LET partial == Len(trace.records) > Budget
        tail == IF partial THEN Tail(Latest(Budget, trace.records)) ELSE trace.records
        scan == ScanBackwards(tail, anchor)
    IN IF ~Extends(history) THEN "source_rewritten"
       ELSE IF trace.tail # "none" THEN "pending_tail"
       ELSE IF Malformed(tail) THEN "source_malformed"
       ELSE IF scan = "reached_slack" THEN "none"
       ELSE IF scan = "none" /\ partial THEN "ambiguous" ELSE scan

(* scanDevin: the whole document, or nothing. *)
ScanDevin(anchor, history) ==
    IF Len(trace.records) > Budget THEN "source_exceeds_budget"
    ELSE IF ~Extends(history) THEN "source_rewritten"
    ELSE IF Malformed(trace.records) THEN "source_malformed"
    ELSE LET scan == ScanBackwards(trace.records, anchor) IN IF scan = "reached_slack" THEN "none" ELSE scan

(* tailScan *)
TailScan(anchor, history) ==
    IF trace.source = "devin-session" THEN ScanDevin(anchor, history) ELSE ScanJsonl(anchor, history)

(* captureTraceHistory at a moment when the trace had n records. *)
HistoryOf(n) == CursorAt(n)
=============================================================================
