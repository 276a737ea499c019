------------------------------- MODULE QuietRows -------------------------------
(***************************************************************************)
(* The compact display of tool calls (pi-quiet): an index of the rows of   *)
(* the transcript folds neighbours of one kind into a group, of which only *)
(* the last row is drawn.                                                  *)
(*                                                                         *)
(* Tools of one message run side by side, so rows settle in any order, and *)
(* pi draws a row whenever it likes: before its tool has started, and some *)
(* time after the index has said that it must be drawn again.              *)
(***************************************************************************)
EXTENDS Naturals, Sequences, FiniteSets

CONSTANTS
    Calls,          \* tool calls
    Foldable,       \* kinds of tools that fold: file, search, dir, other
    Solo,           \* the others: commands, edits, and foreign tools without a hook
    Prose,          \* a message of the user or the assistant
    MaxRows         \* bound on the transcript

VARIABLES
    rows,           \* CompactionIndex.rows, in the order of the transcript
    plan,           \* CompactionIndex.plan: the part each call plays
    drawn,          \* what each row shows, or Undrawn
    redraw          \* rows whose invalidator was called and that pi has not drawn yet

quietVars == <<rows, plan, drawn, redraw>>

Undrawn == [role |-> "none", members |-> {}]

QuietInit ==
    /\ rows = <<>>
    /\ plan = [c \in Calls |-> [role |-> "singleton", members |-> {c}]]
    /\ drawn = [c \in Calls |-> Undrawn]
    /\ redraw = {}

-----------------------------------------------------------------------------
(* compaction.ts: planCompaction *)

\* canJoinGroup: settled, with success or a soft failure, and of a kind that folds.
Joins(r) == r.id # Prose /\ r.settled /\ r.ok /\ r.kind \in Foldable

\* Row i belongs to the same run as the row before it.
Follows(s, i) ==
    i \in 2..Len(s) /\ Joins(s[i - 1]) /\ Joins(s[i]) /\ s[i - 1].kind = s[i].kind

RowOf(s, c) == {i \in 1..Len(s) : s[i].id = c}
Single(c) == [role |-> "singleton", members |-> {c}]

\* The scan: the rows from the one where a run begins to the one where it ends; the last
\* carries the group.  A call without a row stands alone, as in roleOf.
Plan(s) ==
    LET begin[i \in 1..Len(s)] == IF Follows(s, i) THEN begin[i - 1] ELSE i
        end[i \in 1..Len(s)] == IF Follows(s, i + 1) THEN end[i + 1] ELSE i
        RoleOf(i) ==
            [role |-> IF begin[i] = end[i] THEN "singleton" ELSE IF end[i] = i THEN "carrier" ELSE "hidden",
             members |-> {s[j].id : j \in begin[i]..end[i]}]
    IN [c \in Calls |-> IF RowOf(s, c) = {} THEN Single(c) ELSE RoleOf(CHOOSE i \in RowOf(s, c) : TRUE)]

\* Mutant: only a change of role is drawn again.
RepaintMutant(before, after) == before.role # after.role

\* paintRoleChanged: a carrier is drawn again when its members change.
Repaint(before, after) ==
    \/ before.role # after.role
    \/ after.role = "carrier" /\ before.members # after.members

\* replan: the invalidators of the changed rows are called, where a row was drawn.
Replan ==
    /\ plan' = Plan(rows')
    /\ redraw' = redraw \cup {c \in Calls :
                    drawn[c] # Undrawn /\ RowOf(rows', c) # {} /\ Repaint(plan[c], plan'[c])}

-----------------------------------------------------------------------------
(* The events of pi that index.ts listens to. *)

Row(c, kind) == [id |-> c, kind |-> kind, settled |-> FALSE, ok |-> FALSE]
SettledRow(c, kind, ok) == [id |-> c, kind |-> kind, settled |-> TRUE, ok |-> ok]
Splitter == [id |-> Prose, kind |-> Solo, settled |-> TRUE, ok |-> FALSE]

\* message_start of the user or the assistant: no group reaches across.
Message ==
    /\ Len(rows) < MaxRows
    /\ rows' = Append(rows, Splitter)
    /\ Replan /\ UNCHANGED drawn

\* tool_execution_start: a row of its own; a row that has settled stays so.
Start(c) ==
    /\ IF RowOf(rows, c) = {}
       THEN Len(rows) < MaxRows /\ \E k \in Foldable \cup {Solo} : rows' = Append(rows, Row(c, k))
       ELSE UNCHANGED rows
    /\ Replan /\ UNCHANGED drawn

\* tool_execution_end, with success or a soft failure, or with an error.  A row that a
\* reload has removed comes back at the end.
Settle(c) ==
    /\ \E k \in Foldable \cup {Solo}, ok \in BOOLEAN :
        \/ \E i \in RowOf(rows, c) :
               /\ ~rows[i].settled /\ k = rows[i].kind
               /\ rows' = [rows EXCEPT ![i] = SettledRow(c, k, ok)]
        \/ RowOf(rows, c) = {} /\ Len(rows) < MaxRows /\ rows' = Append(rows, SettledRow(c, k, ok))
    /\ Replan /\ UNCHANGED drawn

\* rowsFromMessages: the messages of the session have results of finished calls only.  What
\* is read are those rows, in their order.
Kept == {i \in 1..Len(rows) : rows[i].settled}
Reloaded(new) ==
    \E q \in [1..Cardinality(Kept) -> Kept] :
        /\ \A i, j \in DOMAIN q : i < j => q[i] < q[j]
        /\ new = [i \in DOMAIN q |-> rows[q[i]]]

\* session_start: the index is built from the session's messages.  Nobody is told: pi
\* builds the whole transcript anew.
Rebuild ==
    /\ rows # <<>>
    /\ Reloaded(rows')
    /\ plan' = Plan(rows')
    /\ drawn' = [c \in Calls |-> Undrawn]
    /\ redraw' = {}

\* renderCall: pi draws a row as the plan has it by then.
Draw(c) ==
    /\ drawn[c] # plan[c]
    /\ drawn' = [drawn EXCEPT ![c] = plan[c]]
    /\ redraw' = redraw \ {c}
    /\ UNCHANGED <<rows, plan>>

QuietNext ==
    \/ \E c \in Calls : Start(c) \/ Settle(c) \/ Draw(c)
    \/ Message \/ Rebuild

-----------------------------------------------------------------------------

\* What a row shows, its part in the group and as a carrier the number of members, is what
\* the plan says, or the row was told to be drawn again.
DrawnIsCurrent ==
    \A c \in Calls : drawn[c] # Undrawn /\ c \notin redraw =>
        /\ drawn[c].role = plan[c].role
        /\ plan[c].role = "carrier" => drawn[c].members = plan[c].members

=============================================================================
