------------------------------- MODULE MCReview -------------------------------
\* Small instances of Review for TLC: two fields below the floor and a budget of
\* one, so that it is exceeded as soon as it can be. Nothing is bounded: a pass
\* may roll back and run again for ever.
EXTENDS Review

\* One worker brings both fields, or two bring one each and race with each other.
MCSmallExtractions == {{1}, {2}, {1, 2}}

\* For the race of a pass with a reviewer one worker is enough.
MCOneExtraction == {{1, 2}}
===============================================================================
