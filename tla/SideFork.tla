------------------------------- MODULE SideFork -------------------------------
(***************************************************************************)
(* What a side chat is told of the main conversation (fork-surgery.ts): it *)
(* may be opened at any time, in the middle of the main agent's tool calls *)
(* too, and a model's gateway takes only a history in which every call has *)
(* its result.                                                             *)
(***************************************************************************)
EXTENDS Lists

CONSTANTS MaxCalls, MaxMessages     \* bounds on the main conversation

ASSUME ForkAssumption == MaxCalls \in Nat /\ MaxMessages \in Nat

VARIABLES
    log,            \* the messages of the main session
    cite            \* those the side chat was opened with

forkVars == <<log, cite>>

Prompt == [role |-> "user", calls |-> {}]
Assistant(calls) == [role |-> "assistant", calls |-> calls]
Result(c) == [role |-> "result", calls |-> {c}]
Synthesized(c) == [role |-> "running", calls |-> {c}]

ForkInit == log = <<>> /\ cite = <<>>

CallsOf(s) == UNION {s[i].calls : i \in {j \in 1..Len(s) : s[j].role = "assistant"}}
Answered(s) == UNION {s[i].calls : i \in {j \in 1..Len(s) : s[j].role \in {"result", "running"}}}

-----------------------------------------------------------------------------
(* forkSurgery *)

\* A tool result, or a message of the assistant with calls.
Exchange(m) == m.role = "result" \/ (m.role = "assistant" /\ m.calls # {})

\* Where the trailing messages of the user begin.
CutAt(s) == CHOOSE n \in 0..Len(s) :
    /\ n > 0 => s[n].role # "user"
    /\ \A i \in n + 1..Len(s) : s[i].role = "user"

\* Where the exchange before them begins.
ExchangeAt(s) == CHOOSE n \in 0..CutAt(s) :
    /\ n > 0 => ~Exchange(s[n])
    /\ \A i \in n + 1..CutAt(s) : Exchange(s[i])

\* Mutant: every call of the exchange is given a result.
DanglingMutant(s, region) == CallsOf(region)

\* The calls of the exchange that have no result anywhere.
Dangling(s, region) == CallsOf(region) \ Answered(s)

\* The trailing messages of the user are cut, and the one that led to the exchange; calls
\* that still run are given a result that says so, results without a call go.
Surgery(s) ==
    LET end == CutAt(s)
        start == ExchangeAt(s)
        carry == IF start > 0 /\ s[start].role = "user" THEN start - 1 ELSE start
        called == {i \in start + 1..end : s[i].role = "result" => s[i].calls \subseteq CallsOf(s)}
        running == InOrder(Dangling(s, SubSeq(s, start + 1, end)))
    IN SubSeq(s, 1, carry) \o Taken(s, called)
         \o [i \in 1..Len(running) |-> Synthesized(running[i])]

Fork == log # <<>> /\ cite = <<>> /\ cite' = Surgery(log) /\ UNCHANGED log

-----------------------------------------------------------------------------
(* The main agent (external). *)

Running == CallsOf(log) \ Answered(log)
Tells(m) == Len(log) < MaxMessages /\ log' = Append(log, m) /\ UNCHANGED cite

\* A message that is sent while tools run is queued until they have answered.
Asks == Running = {} /\ Tells(Prompt)

\* The assistant answers the user or the results, with calls or with text.
Answers ==
    /\ Running = {} /\ log # <<>>
    /\ \E n \in 0..2 :
        LET next == Cardinality(CallsOf(log))
        IN next + n <= MaxCalls /\ Tells(Assistant(next + 1..next + n))

\* Tools run side by side and may end in any order.
Returns == \E c \in Running : Tells(Result(c))

ForkNext == Fork \/ Asks \/ Answers \/ Returns

-----------------------------------------------------------------------------

\* A history a gateway takes: the results of all calls of a message, one each, come right
\* after it and nowhere else, and the last word is not the user's.
IsLegal(s) ==
    /\ \A i \in 1..Len(s) : s[i].role = "assistant" =>
        LET after == SubSeq(s, i + 1, i + Cardinality(s[i].calls))
        IN /\ Len(s) >= i + Cardinality(s[i].calls)
           /\ Answered(after) = s[i].calls
    /\ Cardinality({i \in 1..Len(s) : s[i].role \in {"result", "running"}}) = Cardinality(CallsOf(s))
    /\ s # <<>> => s[Len(s)].role # "user"

\* The history of a side chat is one a gateway takes, whenever it was opened.
CiteIsLegal == IsLegal(cite)

\* fork-surgery.ts:27: "Tail cuts keep the btw request a token prefix of the main
\* request": without the results that were made up, what is cited is how the main
\* conversation begins.
CiteIsPrefix ==
    LET Real(m) == m.role # "running"
        real == SelectSeq(cite, Real)
    IN SubSeq(log, 1, Len(real)) = real

=============================================================================
