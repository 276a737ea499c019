------------------------------ MODULE MCChatView ------------------------------
\* The view of one side chat, for the question whether its bottom is followed.
EXTENDS ChatView

\* A wheel or Shift+Up/Down scrolls by three lines, a wheel in full screen by one.
ScrollSteps == {-3, 1}

=============================================================================
