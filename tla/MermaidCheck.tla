----------------------------- MODULE MermaidCheck -----------------------------
(***************************************************************************)
(* The validation of diagrams (pi-better-mermaid): a call is linted, drawn *)
(* by a command line tool, and counted.  A session that fails three times  *)
(* with one intent is told to stop and think again.                        *)
(*                                                                         *)
(* Calls of one message run side by side.  The counter of a session is an  *)
(* object that a call takes before its awaits and writes after them, when  *)
(* another call may have put a new object in its place; an object is named *)
(* by the call that made it.                                               *)
(***************************************************************************)
EXTENDS Naturals, Sequences, FiniteSets

CONSTANTS
    Drafts,         \* calls of the tool
    Chats,          \* sessions
    Intents,
    NoDraft,
    MaxFailures     \* 3 in the code

ASSUME MermaidAssumption ==
    /\ IsFiniteSet(Drafts) /\ NoDraft \notin Drafts
    /\ MaxFailures \in Nat \ {0}

VARIABLES
    draftAt,        \* where each call is
    draftOf,        \* its session and intent
    counter,        \* stateBySession: the object of each session, or NoDraft
    held,           \* the object each call holds
    failures,       \* the failed calls counted in each object
    probe,          \* of the tool's version: "none", "running", "ok" or "bad"
    seen,           \* history: what had reset the counter when a call was submitted
    blamed          \* history: the failures that a stop was said for

mermaidVars == <<draftAt, draftOf, counter, held, failures, probe, seen, blamed>>

MermaidInit ==
    /\ draftAt = [d \in Drafts |-> "idle"]
    /\ draftOf \in [Drafts -> Chats \X Intents]
    /\ counter = [c \in Chats |-> NoDraft]
    /\ held = [d \in Drafts |-> NoDraft]
    /\ failures = [d \in Drafts |-> <<>>]
    /\ probe = "none"
    /\ seen = [d \in Drafts |-> {}]
    /\ blamed = [d \in Drafts |-> {}]

Chat(d) == draftOf[d][1]

\* What has reset the counter of d's session so far: the calls that passed, and those
\* that were submitted with another intent.
Resets(d) ==
    {e \in Drafts : /\ Chat(e) = Chat(d)
                    /\ draftAt[e] = "passed" \/ (draftAt[e] # "idle" /\ draftOf[e] # draftOf[d])}

\* fail: the failure is counted where the call began; the third empties the object.
Count(d) ==
    LET all == Append(failures[held'[d]], d)
    IN IF Len(all) < MaxFailures
       THEN /\ failures' = [failures EXCEPT ![held'[d]] = all]
            /\ draftAt' = [draftAt EXCEPT ![d] = "failed"]
            /\ UNCHANGED blamed
       ELSE /\ failures' = [failures EXCEPT ![held'[d]] = <<>>]
            /\ draftAt' = [draftAt EXCEPT ![d] = "exhausted"]
            /\ blamed' = [blamed EXCEPT ![d] = {all[i] : i \in 1..Len(all)}]

\* The object of the session, or a new one for a new intent.
Take(d) ==
    LET o == counter[Chat(d)]
    IN IF o # NoDraft /\ draftOf[o] = draftOf[d]
       THEN held' = [held EXCEPT ![d] = o] /\ UNCHANGED counter
       ELSE held' = [held EXCEPT ![d] = d] /\ counter' = [counter EXCEPT ![Chat(d)] = d]

Goes(d, s) == draftAt' = [draftAt EXCEPT ![d] = s]

\* execute up to its first await.  A lint violation fails the call at once.  The first
\* call of the process asks for the version; others go by what is known of it, which is
\* nothing while that call still asks.
Submit(d) ==
    /\ draftAt[d] = "idle"
    /\ Take(d)
    /\ seen' = [seen EXCEPT ![d] = Resets(d)]
    /\ \/ Count(d) /\ UNCHANGED probe
       \/ /\ \/ probe = "none" /\ probe' = "running" /\ Goes(d, "probe")
             \/ probe = "ok" /\ UNCHANGED probe /\ Goes(d, "render")
             \/ probe \in {"running", "bad"} /\ UNCHANGED probe /\ Goes(d, "unavailable")
          /\ UNCHANGED <<failures, blamed>>
    /\ UNCHANGED draftOf

\* mmdc --version has answered, or failed, or was aborted with its call: for good.
Probed(d) ==
    /\ draftAt[d] = "probe"
    /\ \/ probe' = "ok" /\ Goes(d, "render")
       \/ probe' = "bad" /\ Goes(d, "unavailable")
    /\ UNCHANGED <<draftOf, counter, held, failures, seen, blamed>>

\* Mutant: the counter outlives a pass.
PassMutant(d) ==
    /\ draftAt[d] = "render"
    /\ Goes(d, "passed")
    /\ UNCHANGED <<draftOf, counter, held, failures, probe, seen, blamed>>

\* A diagram was drawn: the counter of the session goes.  Calls that began before keep it.
Pass(d) ==
    /\ draftAt[d] = "render"
    /\ Goes(d, "passed")
    /\ counter' = [counter EXCEPT ![Chat(d)] = NoDraft]
    /\ UNCHANGED <<draftOf, held, failures, probe, seen, blamed>>

\* mmdc reports an error, or what it drew is its error page.
Fail(d) ==
    /\ draftAt[d] = "render"
    /\ UNCHANGED held /\ Count(d)
    /\ UNCHANGED <<draftOf, counter, probe, seen>>

\* mmdc was killed, by an abort or after a minute: there is no file to read.
Throw(d) ==
    /\ draftAt[d] = "render" /\ Goes(d, "threw")
    /\ UNCHANGED <<draftOf, counter, held, failures, probe, seen, blamed>>

MermaidNext ==
    \E d \in Drafts : Submit(d) \/ Probed(d) \/ Pass(d) \/ Fail(d) \/ Throw(d)

-----------------------------------------------------------------------------

\* "Stop" is said for three failures that belong together: of one session and one intent,
\* none of which another stop was said for.  No diagram of the session had passed, and no
\* other intent had come, between the first and the last of their submissions.
ExhaustedAfterThree ==
    /\ \A d \in Drafts : draftAt[d] = "exhausted" =>
        /\ d \in blamed[d] /\ Cardinality(blamed[d]) = MaxFailures
        /\ \A e \in blamed[d] :
            /\ draftOf[e] = draftOf[d] /\ seen[e] = seen[d]
            /\ e = d \/ draftAt[e] = "failed"
    /\ \A d, e \in Drafts : d # e => blamed[d] \cap blamed[e] = {}

=============================================================================
