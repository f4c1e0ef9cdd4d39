---------------------------- MODULE ReviewLedger -----------------------------
(***************************************************************************)
(* What a run of the review graph promises about the reports it collects,  *)
(* whatever becomes of them on the way: reports are joined into claims, a  *)
(* claim is never split, and one that goes away is counted as retracted or *)
(* as suppressed, unless it is about nothing that was reviewed.  ReviewJob *)
(* relies on the end of it: one result, or an exception.                   *)
(***************************************************************************)
EXTENDS Naturals, FiniteSets

VARIABLES
    state,          \* "open", "checking", "done" or "raised"
    claims,         \* the sets of reports that stand for one finding each
    foreign,        \* the reports about files that were not reviewed
    retracted,      \* how many claims were judged wrong
    suppressed      \* how many claims were held back

ledger == <<state, claims, foreign, retracted, suppressed>>

Init ==
    /\ state = "open"
    /\ claims = {} /\ foreign = {}
    /\ retracted = 0 /\ suppressed = 0

\* Reports come in, each a claim of its own.
Collect ==
    /\ state = "open" /\ UNCHANGED state
    /\ claims \subseteq claims'
    /\ \A c \in claims' \ claims : Cardinality(c) = 1 /\ c \cap UNION claims = {}
    /\ foreign \subseteq foreign' /\ foreign' \ foreign \subseteq UNION claims'
    /\ UNCHANGED <<retracted, suppressed>>

Joined == \A c \in claims' : \E parts \in SUBSET claims : parts # {} /\ c = UNION parts
Apart == \A c, d \in claims' : c # d => c \cap d = {}

\* Claims are joined, and what goes is counted, for what it was when it went.
Account ==
    /\ \/ state = "open" /\ state' \in {"checking", "done"}
       \/ state = "checking" /\ state' \in {"checking", "done"}
    /\ Joined /\ Apart
    /\ (UNION claims') \cap foreign = {}
    /\ LET gone == {c \in claims : c \cap UNION claims' = {} /\ ~(c \subseteq foreign)}
           counted == (retracted' - retracted) + (suppressed' - suppressed)
       IN  /\ retracted <= retracted' /\ suppressed <= suppressed'
           /\ counted <= Cardinality(gone)
           /\ counted = 0 <=> gone = {}
           /\ suppressed' # suppressed => state' = "done"
    /\ UNCHANGED foreign

Raise ==
    /\ state \in {"open", "checking"} /\ state' = "raised"
    /\ UNCHANGED <<claims, foreign, retracted, suppressed>>

Next == Collect \/ Account \/ Raise

Spec == Init /\ [][Next]_ledger
=============================================================================
