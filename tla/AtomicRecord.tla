---------------------------- MODULE AtomicRecord ----------------------------
(***************************************************************************)
(* What the transition journal promises its callers: one record that is    *)
(* read atomically and replaced only by a caller that still holds its      *)
(* current value -- compare-and-swap with a revision that grows by one.    *)
(***************************************************************************)
EXTENDS Naturals

CONSTANTS Writers,   \* the concurrent callers
          Values,    \* the states of the record (a status, in the real records)
          Legal,     \* the legal-transition table, a set of pairs of Values
          InitVal    \* the value the record is created with

NoRecord == [rev |-> 0, val |-> "none"]

VARIABLES rec,       \* the current record
          seen       \* the record each caller holds, or NoRecord

vars == <<rec, seen>>

Init == /\ rec = [rev |-> 0, val |-> InitVal]
        /\ seen = [w \in Writers |-> NoRecord]

\* A caller reads the current record.
Read(w) == /\ seen' = [seen EXCEPT ![w] = rec]
           /\ UNCHANGED rec

\* A caller holding the current record replaces it by a legal successor.
Swap(w, v) ==
    /\ seen[w] = rec
    /\ <<rec.val, v>> \in Legal
    /\ rec' = [rev |-> rec.rev + 1, val |-> v]
    /\ seen' = [seen EXCEPT ![w] = rec']

\* A caller drops what it holds: a conflict was reported, or it crashed.
Forget(w) == /\ seen' = [seen EXCEPT ![w] = NoRecord]
             /\ UNCHANGED rec

Next == \E w \in Writers :
            \/ Read(w)
            \/ \E v \in Values : Swap(w, v)
            \/ Forget(w)

Spec == Init /\ [][Next]_vars
=============================================================================
