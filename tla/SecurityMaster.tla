--------------------------- MODULE SecurityMaster ---------------------------
(***************************************************************************)
(* What the security_master promises whoever reads it, with no runs, no    *)
(* statements and no locks in it: a table that changes only by one whole   *)
(* answer of the venue at a time.  The instruments of the answer, and the  *)
(* index, are then in it with the terms the answer gives, each described   *)
(* once; those that were in it keep their ids; the others are as they were.*)
(***************************************************************************)
EXTENDS Integers

CONSTANTS Options, Futures, Index, Versions

VARIABLE rows               \* symbol -> [id, type, tick, subtypes]

Instruments == Options \cup Futures

(* Answers of the venue: the terms of some of its instruments. *)
Answers == UNION {[S -> Versions] : S \in SUBSET Instruments}

KindOf(s) == CASE s = Index -> "currency"
               [] s \in Options -> "option"
               [] OTHER -> "future"

(* The terms of the index are the program's own. *)
Terms(answer, s) == IF s = Index THEN 0 ELSE answer[s]

Describes(row, kind, terms) ==
    /\ row.type = kind
    /\ row.tick = terms
    /\ row.subtypes = {<<kind, terms>>}

Empty == DOMAIN rows = {}

Upsert(answer) ==
    LET named == DOMAIN answer \cup {Index}
    IN  /\ DOMAIN rows' = DOMAIN rows \cup named
        /\ \A s \in named : Describes(rows'[s], KindOf(s), Terms(answer, s))
        /\ \A s \in DOMAIN rows : rows'[s].id = rows[s].id
        /\ \A s \in DOMAIN rows \ named : rows'[s] = rows[s]
        /\ \A s, t \in DOMAIN rows' : rows'[s].id = rows'[t].id => s = t

Next == \E answer \in Answers : Upsert(answer)

Spec == Empty /\ [][Next]_rows

=============================================================================
