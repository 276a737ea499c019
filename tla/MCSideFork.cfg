\* What the comment on the cut says of the request to the model.
SPECIFICATION Spec
CONSTANTS
    MaxCalls = 4
    MaxMessages = 8
INVARIANTS
    CiteIsPrefix
\* The conversation is bounded.
CHECK_DEADLOCK FALSE
