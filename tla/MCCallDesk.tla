----------------------------- MODULE MCCallDesk -----------------------------
\* Five calls of different outcomes; a walk reads at most two pages of two.
EXTENDS CallDesk

MCDisposition == <<"NONE", "NO_ANSWER", "DISQUALIFIED", "NONE", "TRANSFERRED">>
MCQualification == <<"NONE", "NONE", "DISQUALIFIED", "NO_ANSWER", "QUALIFIED">>
=============================================================================
