----------------------------- MODULE MCExamples -----------------------------
EXTENDS Examples

\* "W."
MCText == <<87, 46>>

\* "W"
MCLetter == <<87>>

\* the second host gets a whole lap
MCReports == <<1, 62>>

=============================================================================
