----------------------------- MODULE MCRateLimit ------------------------------
EXTENDS RateLimit

\* A sign-in's window outlasts an LLM route's, which admits more.
MCLimit == [k \in Keys |-> IF k \in Auth THEN 1 ELSE 2]
MCWindow == [k \in Keys |-> IF k \in Auth THEN 3 ELSE 2]
=============================================================================
