---- MODULE MCIntelligenceIndex ----
EXTENDS IntelligenceIndex

\* Edition 2 has the two rows of edition 1 on other pages, one with another score;
\* edition 3 is a new version of the index; edition 4 is that version cut to one page.
MCEditions == {1, 2, 3, 4}
MCPages(e) == IF e = 4 THEN 1 ELSE 2
MCVersion(e) == IF e > 2 THEN 2 ELSE 1
MCRows(e, p) ==
    IF e > 2 THEN {[id |-> IF p = 1 THEN "a" ELSE "c", score |-> 3]}
    ELSE IF e = p THEN {[id |-> "a", score |-> 1]}
    ELSE {[id |-> "b", score |-> e]}
====
