----------------------------- MODULE ScopeChoice -----------------------------
(***************************************************************************)
(* The scope of a commit (gcm -p) and of a release (gbump -p): a name is   *)
(* taken for a package, or for a single-file tool of a package, if it      *)
(* resembles its name, and a guess has to be confirmed (lib.mjs).          *)
(***************************************************************************)
EXTENDS Names

VARIABLES
    packages,       \* packages/* with a package.json
    tools,          \* package -> names of the .ts files in its root
    cross,          \* scopes that are no packages: of gcm only
    wanted,         \* the argument
    assent,         \* -y was given
    tty,            \* a terminal to ask at
    scopeAt,        \* "asked", "guessing", "failed" or "chosen"
    scope           \* the scope that was chosen, or Missing

scopeInput == <<packages, tools, cross, wanted, assent, tty>>
scopeVars == <<scopeInput, scopeAt, scope>>

\* How long the longest way to read n as letters of c in their order is: all of n, or not.
Scattered(n, c) ==
    LET at[i \in 0..Len(n)] ==
          IF i = 0 THEN 0
          ELSE LET later == {j \in at[i - 1] + 1..Len(c) : c[j] = n[i]}
               IN IF later = {} THEN Len(c) ELSE CHOOSE j \in later : \A k \in later : j <= k
        found[i \in 0..Len(n)] ==
          i = 0 \/ (found[i - 1] /\ \E j \in at[i - 1] + 1..Len(c) : c[j] = n[i])
    IN found[Len(n)]

\* fuzzyScore, in percent: equal, a part, or the letters in their order; a prefix is a part.
Score(n, c) ==
    CASE n = c -> 100
      [] n # c /\ Within(n, c) -> 85
      [] ~Within(n, c) /\ Scattered(n, c) -> 50 + ((10 * Len(n)) \div Len(c))
      [] OTHER -> 0

Highest(S) == CHOOSE m \in S : \A k \in S : k <= m

\* Array.sort of names: at their first difference, or where m ends.
Before(m, n) ==
    \E k \in 1..Len(n) :
        /\ k <= Len(m) + 1 /\ \A i \in 1..k - 1 : m[i] = n[i]
        /\ k <= Len(m) => m[k] < n[k]

\* bareRootToolScopes: a name that several packages have for a tool is the first one's.
ToolsOf(s) == {t \in tools[s] : \A p \in packages \ {s} : t \in tools[p] => Before(s, p)}

\* fuzzyScopeCandidates: a tool counts for its package, with its name or its file, a scope
\* once with its best score.
Ts == <<0>>
Rank(s) ==
    Highest({Score(wanted, s)} \cup
        IF s \in packages THEN UNION {{Score(wanted, t), Score(wanted, t \o Ts)} : t \in ToolsOf(s)} ELSE {})

Known == packages \cup cross
Candidates == {s \in Known : Rank(s) >= 50}

\* The best of the candidates, of two equal ones the shorter name.
Leads(s, t) == Rank(s) > Rank(t) \/ (Rank(s) = Rank(t) /\ Len(s) <= Len(t))
Leaders == {s \in Candidates : \A t \in Candidates : Leads(s, t)}

\* Mutant: -y takes the best of several candidates.
SettledMutant == IF assent THEN Leaders ELSE {}

\* Where nobody can be asked, a guess counts with -y if it is the only one.
Settled == IF assent /\ Cardinality(Candidates) = 1 THEN Candidates ELSE {}

Takes(s) == scopeAt' = "chosen" /\ scope' = s /\ UNCHANGED scopeInput
Without(state) == scopeAt' = state /\ UNCHANGED <<scopeInput, scope>>

\* resolvePackageScope: an exact name is taken, a guess is to be confirmed.
Choose ==
    /\ scopeAt = "asked"
    /\ \/ wanted \in Known /\ Takes(wanted)
       \/ wanted \notin Known /\ Candidates # {} /\ tty /\ Without("guessing")
       \/ wanted \notin Known /\ ~tty /\ \E s \in Settled : Takes(s)
       \/ wanted \notin Known /\ (tty => Candidates = {}) /\ (~tty => Settled = {}) /\ Without("failed")

\* The user accepts the first, or gives the number or the full name of another, or cancels.
Confirm ==
    /\ scopeAt = "guessing"
    /\ \/ \E s \in Leaders \cup IF Cardinality(Candidates) > 1 THEN Known ELSE {} : Takes(s)
       \/ Without("failed")

ScopeNext == Choose \/ Confirm

-----------------------------------------------------------------------------

\* A release or a commit never goes to a scope by a silent guess: without a terminal it is
\* the name that was given, or, with -y, a scope beside which no other resembles it but by
\* the name of a tool that the chosen package has too.
NoSilentGuess ==
    ~tty /\ scopeAt = "chosen" =>
        /\ scope \in Known
        /\ scope # wanted =>
            assent /\ \A s \in Known \ {scope} :
                /\ ~Within(wanted, s)
                /\ s \in packages => \A t \in tools[s] :
                     Within(wanted, t) => scope \in packages /\ t \in tools[scope]

=============================================================================
