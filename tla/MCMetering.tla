---- MODULE MCMetering ----
EXTENDS Metering, TLC
\* A tone that stands clear over junk, and music without either.
MCContents == {[tone |-> 2, above |-> TRUE, step |-> 1, vetoed |-> FALSE], [tone |-> 0, above |-> TRUE, step |-> 1, vetoed |-> TRUE]}
====
