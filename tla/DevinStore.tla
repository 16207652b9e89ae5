------------------------------ MODULE DevinStore ------------------------------
(***************************************************************************)
(* The windows of a trace, and the reader of Devin's live session store    *)
(* (src/src/supervision/trace-source.ts, devin-sessions-db.ts).            *)
(*                                                                         *)
(* The store is external: a forest of message nodes, numbered as they come,*)
(* of which the committed head's ancestry is the conversation.  Devin adds *)
(* nodes to it or beside it, moves the head back, and rewrites a node in   *)
(* place.  A read is one transaction.                                      *)
(***************************************************************************)
EXTENDS Naturals, Sequences, FiniteSets

CONSTANTS
    Window,         \* TRACE_WINDOW_MAX_BYTES, in records or steps
    MaxRecords      \* bound: records, or nodes, ever written

ASSUME WindowAssumption == Window \in Nat \ {0} /\ MaxRecords \in Nat

VARIABLE store      \* the message nodes and the committed head

(* TraceWindow and TraceCursor: a failure has no events and keeps the cursor. *)
NoCursor == [offset |-> 0, anchor |-> <<>>, lines |-> <<>>]
Got(to, events) == [failure |-> "none", to |-> to, events |-> events, skipped |-> {}]
Failed(from, why) == [Got(from, {}) EXCEPT !.failure = why]

(* A record that fits no window is reported and stepped over. *)
SteppedOver(to, skipped) ==
    [Got(to, {}) EXCEPT !.failure = "record_exceeds_budget", !.skipped = skipped]

-----------------------------------------------------------------------------
(* The store. *)

(* An assistant's message with or without a tool call, a tool's result, or    *)
(* another's message; "huge" is over the raw cap of one step.                 *)
Roles == {"user", "agent", "call", "tool"}
Node == [parent: 0..MaxRecords, role: Roles, size: {"fits", "long", "huge"}, edition: 0..1]

StoreTypeOK ==
    /\ store.nodes \in Seq(Node)
    /\ store.head \in 0..Len(store.nodes)
    /\ \A n \in 1..Len(store.nodes) : store.nodes[n].parent < n

StoreInit == store = [nodes |-> <<>>, head |-> 0]

(* The nodes from the root to n. *)
ChainTo(n) ==
    LET Chain[i \in 0..Len(store.nodes)] ==
          IF i = 0 THEN <<>> ELSE Append(Chain[store.nodes[i].parent], i)
    IN Chain[n]

NodesOf(s) == {s[i] : i \in 1..Len(s)}

(* A message is committed, or drafted beside the conversation. *)
AddNode(parent, role, size) ==
    /\ Len(store.nodes) < MaxRecords
    /\ store' = [nodes |-> Append(store.nodes,
                                  [parent |-> parent, role |-> role, size |-> size, edition |-> 0]),
                 head |-> IF parent = store.head THEN Len(store.nodes) + 1 ELSE store.head]

(* The conversation is rolled back. *)
RevertHead(n) == n \in NodesOf(ChainTo(store.head)) \cup {0} /\ store' = [store EXCEPT !.head = n]

EditNode(n) == store.nodes[n].edition = 0 /\ store' = [store EXCEPT !.nodes[n].edition = 1]

-----------------------------------------------------------------------------
(* The reader. *)

(* rollAnchor, recomputeAnchor: what the consumed nodes say. *)
AnchorOf(n) ==
    LET chain == ChainTo(n)
    IN [i \in 1..Len(chain) |-> <<chain[i], store.nodes[chain[i]].edition>>]

StoreCursor(n) == [NoCursor EXCEPT !.offset = n, !.anchor = AnchorOf(n)]

(* verifyPrefix *)
PrefixHolds(from) ==
    from.offset <= Len(store.nodes) /\ AnchorOf(from.offset) = from.anchor

(* chainSegment, for a cursor that is an ancestor of the head. *)
IsAncestor(n) == n = 0 \/ n \in NodesOf(ChainTo(store.head))
Segment(n) ==
    LET chain == ChainTo(store.head)
    IN SubSeq(chain, 1 + Len(ChainTo(n)), Len(chain))

(* The steps of a segment: a message, and the tools' results that follow it. *)
StepOf(segment, k) ==
    {segment[i] : i \in {j \in 1..Len(segment) :
        k = Cardinality({h \in 1..j : store.nodes[segment[h]].role # "tool"})}}
Steps(segment) == Cardinality({i \in 1..Len(segment) : store.nodes[segment[i]].role # "tool"})

Oversized(step) == \E n \in step : store.nodes[n].size = "long"

(* An assistant's last step whose call has no result yet is left for later. *)
Unresolved(step) ==
    /\ \E n \in step : store.nodes[n].role = "call"
    /\ \A n \in step : store.nodes[n].role # "tool"

(* flush: the step goes into the window. *)
Emitted(segment, k) ==
    /\ k <= Window /\ ~Oversized(StepOf(segment, k))
    /\ k = Steps(segment) => ~Unresolved(StepOf(segment, k))

(* A node no step can take: a result without a call before it, or one that is *)
(* over the raw cap.                                                          *)
Orphaned(step) ==
    /\ \E n \in step : store.nodes[n].role = "tool"
    /\ \A n \in step : store.nodes[n].role \notin {"agent", "call"}
Huge(step) == \E n \in step : store.nodes[n].size = "huge"

Greatest(S) == CHOOSE n \in S : \A k \in S : k <= n

(* readCommittedChain: steps are taken until one does not fit; whatever was   *)
(* reached and cannot be taken fails the window whole.                        *)
ReadStore(from) ==
    LET segment == Segment(from.offset)
        taken == {k \in 1..Steps(segment) : \A j \in 1..k : Emitted(segment, j)}
        reached == {0} \cup taken \cup ({Cardinality(taken) + 1} \cap 1..Steps(segment))
        nodes == UNION {StepOf(segment, k) : k \in taken}
        first == StepOf(segment, 1)
    IN IF ~PrefixHolds(from) \/ ~IsAncestor(from.offset) THEN Failed(from, "source_rewritten")
       ELSE IF \E k \in reached : Orphaned(StepOf(segment, k)) THEN Failed(from, "source_malformed")
       ELSE IF \E k \in reached : Huge(StepOf(segment, k)) THEN Failed(from, "source_exceeds_budget")
       ELSE IF taken = {} /\ Oversized(first) /\ ~(Steps(segment) = 1 /\ Unresolved(first))
       THEN SteppedOver(StoreCursor(Greatest(first)), first)
       ELSE Got(IF taken = {} THEN from ELSE StoreCursor(Greatest(nodes)), nodes)
=============================================================================
