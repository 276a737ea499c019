-------------------------------- MODULE Names --------------------------------
\* Names that are matched by their parts: a name is a sequence of letters, of which upper
\* and lower case are not told apart.  The empty sequence is a name that is missing.
EXTENDS Lists

Missing == <<>>

\* String.includes: n is a part of c.
Within(n, c) == \E i \in 0..Len(c) : i + Len(n) <= Len(c) /\ SubSeq(c, i + 1, i + Len(n)) = n

\* Array.find, of names at some places
FirstAt(names, I) == IF I = {} THEN Missing ELSE names[Least(I)]

=============================================================================
