---------------------- MODULE TransitionJournalProofs ----------------------
(***************************************************************************)
(* The transition journal is safe for any number of writers, any set of    *)
(* record values, any transition table and any number of revisions, and it *)
(* implements the atomic compare-and-swap record.                          *)
(***************************************************************************)
EXTENDS TransitionJournal, TLAPS

Published == journal \cup {Initial}

\* The parts of the inductive invariant.  DownClosed and HasLatest say without
\* induction over revisions that the journal has no gap and has a newest entry.
Unique == \A s, t \in journal : s.rev = t.rev => s = t
DownClosed == \A s \in journal : s.rev > 0 /\ \A r \in 1 .. s.rev : RevisionTaken(r)
HasLatest == journal # {} => \E s \in journal : \A t \in journal : t.rev <= s.rev

\* Everything a writer has read is, or was, the current record.
ReadsPublished ==
    /\ projection \in Published
    /\ \A w \in Writers :
          /\ pc[w] \in {"reading", "rechecking"} => projSeen[w] \in Published
          /\ pc[w] \in {"holding", "rechecking", "staged", "published"} => held[w] \in Published

\* What a writer is about to publish answers the record it holds.
FreshAnswersHeld ==
    \A w \in Writers :
        /\ pc[w] \in {"staged", "published"} =>
              /\ fresh[w] \in Record
              /\ fresh[w].rev = held[w].rev + 1
              /\ <<held[w].val, fresh[w].val>> \in Legal
        /\ pc[w] = "published" => fresh[w] \in journal

IInv == /\ TypeOK /\ Unique /\ DownClosed /\ HasLatest
        /\ ReadsPublished /\ FreshAnswersHeld
        /\ NoLostUpdate /\ AcknowledgedIsDurable

-----------------------------------------------------------------------------
\* The record every journal starts from is a record, and differs from the
\* sentinel "holds nothing".
LEMMA RecordFacts ==
    /\ Initial \in Record
    /\ NoRecord \notin Record
    /\ \A r \in Record : r.rev \in Nat /\ r.val \in Values
BY JournalAssumption DEF Initial, NoRecord, Record

\* The current record is published, no snapshot is newer, and a published
\* record with its revision is that record (LatestSnapshot, readLatestTransition).
LEMMA LatestFacts ==
    ASSUME IInv
    PROVE  /\ Latest \in Published
           /\ Latest \in Record
           /\ journal # {} => Latest \in journal /\ Latest = LatestSnapshot
           /\ journal = {} => Latest = Initial
           /\ \A t \in Published : t.rev <= Latest.rev
           /\ \A t \in Published : t.rev = Latest.rev => t = Latest
<1>1. CASE journal = {}
  BY <1>1, RecordFacts DEF Latest, ReadResult, Published
<1>2. CASE journal # {}
  <2>1. \E s \in journal : \A t \in journal : t.rev <= s.rev
    BY <1>2 DEF IInv, HasLatest
  <2>2. LatestSnapshot \in journal /\ \A t \in journal : t.rev <= LatestSnapshot.rev
    BY <2>1 DEF LatestSnapshot
  <2>3. Latest = LatestSnapshot
    BY <1>2 DEF Latest, ReadResult
  <2>4. Latest \in Record /\ Latest.rev > 0 /\ Initial.rev = 0
    BY <2>2, <2>3 DEF IInv, TypeOK, DownClosed, Initial
  <2>5. Latest.rev \in Nat
    BY <2>4 DEF Record
  <2> QED
    BY <1>2, <2>2, <2>3, <2>4, <2>5 DEF IInv, Unique, Published
<1> QED BY <1>1, <1>2

\* A read returns the current record: with an empty journal the projection it
\* loaded can only be the initial record.
LEMMA ReadReturnsLatest ==
    ASSUME IInv, NEW w \in Writers, pc[w] \in {"reading", "rechecking"}
    PROVE  ReadResult(projSeen[w]) = Latest
BY LatestFacts DEF IInv, ReadsPublished, Published, ReadResult

\* The writer whose rename succeeds held the current record, and what it
\* publishes becomes the current record: the rename is a compare-and-swap.
LEMMA PublishSwaps ==
    ASSUME IInv, NEW w \in Writers, Publish(w)
    PROVE  /\ held[w] = Latest
           /\ journal' = journal \cup {fresh[w]}
           /\ \A t \in journal : t.rev < fresh[w].rev
           /\ Latest' = fresh[w]
<1>1. /\ pc[w] = "staged" /\ ~RevisionTaken(fresh[w].rev)
      /\ journal' = journal \cup {fresh[w]}
  BY DEF Publish
<1>2. /\ held[w] \in Published
      /\ fresh[w] \in Record
      /\ fresh[w].rev = held[w].rev + 1
  BY <1>1 DEF IInv, ReadsPublished, FreshAnswersHeld
<1>3. held[w] \in Record /\ held[w].rev \in Nat /\ fresh[w].rev \in Nat
  BY <1>2, RecordFacts DEF IInv, TypeOK, Published
<1>4. \A t \in journal : t.rev \in Nat
  BY RecordFacts DEF IInv, TypeOK
<1>5. ASSUME NEW t \in journal PROVE t.rev < fresh[w].rev
  <2> SUFFICES ASSUME t.rev >= fresh[w].rev PROVE FALSE
    BY <1>3, <1>4
  <2>1. fresh[w].rev \in 1 .. t.rev
    BY <1>2, <1>3, <1>4
  <2>2. RevisionTaken(fresh[w].rev)
    BY <2>1 DEF IInv, DownClosed
  <2> QED BY <1>1, <2>2
<1>6. held[w].rev = Latest.rev
  <2>1. held[w].rev <= Latest.rev
    BY <1>2, LatestFacts
  <2>2. CASE journal = {}
    BY <1>2, <2>2, LatestFacts DEF Published
  <2>3. CASE journal # {}
    <3>1. Latest.rev < fresh[w].rev /\ Latest.rev \in Nat
      BY <2>3, <1>5, <1>4, LatestFacts
    <3> QED BY <3>1, <2>1, <1>2, <1>3
  <2> QED BY <2>2, <2>3
<1>7. held[w] = Latest
  BY <1>2, <1>6, LatestFacts
<1>8. Latest' = fresh[w]
  <2>1. journal' # {} /\ fresh[w] \in journal'
    BY <1>1
  <2>2. \A t \in journal' : t.rev <= fresh[w].rev
    BY <1>1, <1>3, <1>4, <1>5
  <2>3. \A s \in journal' : (\A t \in journal' : t.rev <= s.rev) => s = fresh[w]
    BY <1>1, <1>3, <1>4, <1>5, <2>1
  <2>4. (CHOOSE s \in journal' : \A t \in journal' : t.rev <= s.rev) = fresh[w]
    BY <2>1, <2>2, <2>3
  <2> QED BY <2>1, <2>4 DEF Latest, ReadResult, LatestSnapshot
<1> QED BY <1>1, <1>5, <1>7, <1>8

-----------------------------------------------------------------------------
\* The initial state, in which only the projection exists, satisfies the
\* inductive invariant.
LEMMA InitInv == Init => IInv
<1> SUFFICES ASSUME Init PROVE IInv
  OBVIOUS
<1>1. TypeOK
  BY RecordFacts DEF Init, TypeOK, PC
<1> QED
  BY <1>1 DEF Init, IInv, Unique, DownClosed, HasLatest, ReadsPublished, Published,
              FreshAnswersHeld, NoLostUpdate, AcknowledgedIsDurable

\* Steps that leave the journal alone preserve what the invariant says of it.
LEMMA JournalUnchanged ==
    ASSUME IInv, journal' = journal
    PROVE  Unique' /\ DownClosed' /\ HasLatest' /\ Published' = Published
BY DEF IInv, Unique, DownClosed, HasLatest, RevisionTaken, Published

\* A call that ends with an error, or a crash, preserves the invariant.
LEMMA ResetInv ==
    ASSUME IInv, NEW w \in Writers, Reset(w)
    PROVE  IInv'
<1>1. TypeOK'
  BY DEF IInv, TypeOK, Reset, PC
<1>2. Unique' /\ DownClosed' /\ HasLatest' /\ Published' = Published
  BY JournalUnchanged DEF Reset
<1>3. ReadsPublished'
  BY <1>2 DEF IInv, TypeOK, ReadsPublished, Reset
<1>4. FreshAnswersHeld'
  BY DEF IInv, TypeOK, FreshAnswersHeld, Reset
<1>5. NoLostUpdate' /\ AcknowledgedIsDurable'
  BY DEF IInv, TypeOK, NoLostUpdate, AcknowledgedIsDurable, Reset
<1> QED BY <1>1, <1>2, <1>3, <1>4, <1>5 DEF IInv

\* Loading the projection, for a read or for an update, preserves the invariant.
LEMMA LoadInv ==
    ASSUME IInv, NEW w \in Writers, StartRead(w) \/ StartUpdate(w)
    PROVE  IInv'
<1>0. LoadProjection(w) /\ (\/ pc' = [pc EXCEPT ![w] = "reading"]
                            \/ pc[w] = "holding" /\ pc' = [pc EXCEPT ![w] = "rechecking"])
  BY DEF StartRead, StartUpdate
<1>1. TypeOK'
  BY <1>0 DEF IInv, TypeOK, LoadProjection, PC
<1>2. Unique' /\ DownClosed' /\ HasLatest' /\ Published' = Published
  BY <1>0, JournalUnchanged DEF LoadProjection
<1>3. ReadsPublished'
  BY <1>0, <1>2 DEF IInv, TypeOK, ReadsPublished, LoadProjection
<1>4. FreshAnswersHeld'
  BY <1>0 DEF IInv, TypeOK, FreshAnswersHeld, LoadProjection
<1>5. NoLostUpdate' /\ AcknowledgedIsDurable'
  BY <1>0 DEF IInv, NoLostUpdate, AcknowledgedIsDurable, LoadProjection
<1> QED BY <1>1, <1>2, <1>3, <1>4, <1>5 DEF IInv

\* The end of a read preserves the invariant: what the caller then holds is
\* the current record.
LEMMA FinishReadInv ==
    ASSUME IInv, NEW w \in Writers, FinishRead(w)
    PROVE  IInv'
<1>1. ReadResult(projSeen[w]) \in Published /\ ReadResult(projSeen[w]) \in Record
  BY ReadReturnsLatest, LatestFacts DEF FinishRead
<1>2. TypeOK'
  BY <1>1 DEF IInv, TypeOK, FinishRead, PC
<1>3. Unique' /\ DownClosed' /\ HasLatest' /\ Published' = Published
  BY JournalUnchanged DEF FinishRead
<1>4. ReadsPublished'
  BY <1>1, <1>3 DEF IInv, TypeOK, ReadsPublished, FinishRead
<1>5. FreshAnswersHeld'
  BY DEF IInv, TypeOK, FreshAnswersHeld, FinishRead
<1>6. NoLostUpdate'
  BY DEF IInv, NoLostUpdate, FinishRead
<1>7. AcknowledgedIsDurable'
  BY <1>1 DEF IInv, TypeOK, AcknowledgedIsDurable, FinishRead, Published
<1> QED BY <1>2, <1>3, <1>4, <1>5, <1>6, <1>7 DEF IInv

\* Staging a legal successor of the record held preserves the invariant.
LEMMA StageInv ==
    ASSUME IInv, NEW w \in Writers, NEW v \in Values, Stage(w, v)
    PROVE  IInv'
<1>0. /\ pc[w] = "rechecking" /\ held[w] \in Published
      /\ <<held[w].val, v>> \in Legal
      /\ fresh' = [fresh EXCEPT ![w] = [rev |-> held[w].rev + 1, val |-> v]]
      /\ pc' = [pc EXCEPT ![w] = "staged"]
      /\ projSeen' = [projSeen EXCEPT ![w] = NoRecord]
      /\ UNCHANGED <<journal, projection, held, derivation>>
  BY DEF Stage, IInv, ReadsPublished
<1>1. held[w] \in Record
  BY <1>0, RecordFacts DEF IInv, TypeOK, Published
<1>2. [rev |-> held[w].rev + 1, val |-> v] \in Record
  BY <1>1 DEF Record
<1>3. TypeOK'
  BY <1>0, <1>2 DEF IInv, TypeOK, PC
<1>4. Unique' /\ DownClosed' /\ HasLatest' /\ Published' = Published
  BY <1>0, JournalUnchanged
<1>5. ReadsPublished'
  BY <1>0, <1>4 DEF IInv, TypeOK, ReadsPublished
<1>6. FreshAnswersHeld'
  BY <1>0, <1>2 DEF IInv, TypeOK, FreshAnswersHeld
<1>7. NoLostUpdate' /\ AcknowledgedIsDurable'
  BY <1>0 DEF IInv, NoLostUpdate, AcknowledgedIsDurable
<1> QED BY <1>3, <1>4, <1>5, <1>6, <1>7 DEF IInv

\* A successful rename preserves the invariant: the new revision is the one
\* after the newest, so the journal keeps its shape.
LEMMA PublishInv ==
    ASSUME IInv, NEW w \in Writers, Publish(w)
    PROVE  IInv'
<1>0. /\ pc[w] = "staged"
      /\ journal' = journal \cup {fresh[w]}
      /\ derivation' = derivation \cup {<<held[w], fresh[w]>>}
      /\ pc' = [pc EXCEPT ![w] = "published"]
      /\ UNCHANGED <<projection, projSeen, held, fresh>>
      /\ \A t \in journal : t.rev < fresh[w].rev
  BY PublishSwaps DEF Publish
<1>1. /\ fresh[w] \in Record /\ fresh[w].rev = held[w].rev + 1
      /\ <<held[w].val, fresh[w].val>> \in Legal
      /\ held[w] \in Published
  BY <1>0 DEF IInv, FreshAnswersHeld, ReadsPublished
<1>2. /\ held[w] \in Record /\ held[w].rev \in Nat /\ fresh[w].rev \in Nat
      /\ \A t \in journal : t.rev \in Nat
  BY <1>1, RecordFacts DEF IInv, TypeOK, Published
<1>3. TypeOK'
  BY <1>0, <1>1, <1>2 DEF IInv, TypeOK, PC
<1>4. Unique'
  BY <1>0, <1>2 DEF IInv, Unique
<1>5. DownClosed'
  <2>1. \A t \in journal : \A r \in 1 .. t.rev : \E s \in journal' : s.rev = r
    BY <1>0 DEF IInv, DownClosed, RevisionTaken
  <2>2. \A r \in 1 .. held[w].rev : \E s \in journal' : s.rev = r
    BY <1>1, <1>2, <2>1 DEF Published, Initial
  <2>3. \A r \in 1 .. fresh[w].rev : r \in 1 .. held[w].rev \/ r = fresh[w].rev
    BY <1>1, <1>2
  <2>4. \A r \in 1 .. fresh[w].rev : \E s \in journal' : s.rev = r
    BY <1>0, <2>2, <2>3
  <2>5. \A t \in journal' : t.rev > 0
    BY <1>0, <1>1, <1>2 DEF IInv, DownClosed
  <2> QED BY <1>0, <2>1, <2>4, <2>5 DEF DownClosed, RevisionTaken
<1>6. HasLatest'
  BY <1>0, <1>2 DEF HasLatest
<1>7. Published \subseteq Published'
  BY <1>0 DEF Published
<1>8. ReadsPublished'
  BY <1>0, <1>7 DEF IInv, TypeOK, ReadsPublished
<1>9. FreshAnswersHeld'
  BY <1>0 DEF IInv, TypeOK, FreshAnswersHeld
<1>10. NoLostUpdate'
  <2> SUFFICES ASSUME NEW d \in derivation'
               PROVE  /\ d[2].rev = d[1].rev + 1
                      /\ d[1] \in Published'
                      /\ <<d[1].val, d[2].val>> \in Legal
    BY DEF NoLostUpdate, Published, Initial
  <2>1. CASE d \in derivation
    BY <1>7, <2>1 DEF IInv, NoLostUpdate, Published
  <2>2. CASE d = <<held[w], fresh[w]>>
    <3>1. d[1] = held[w] /\ d[2] = fresh[w]
      BY <2>2
    <3> QED BY <1>1, <1>7, <3>1
  <2> QED BY <1>0, <2>1, <2>2
<1>11. AcknowledgedIsDurable'
  BY <1>0, <1>7 DEF IInv, AcknowledgedIsDurable, Published
<1> QED
  BY <1>3, <1>4, <1>5, <1>6, <1>8, <1>9, <1>10, <1>11 DEF IInv

\* Refreshing the projection preserves the invariant, however late it comes.
LEMMA WriteProjectionInv ==
    ASSUME IInv, NEW w \in Writers, WriteProjection(w)
    PROVE  IInv'
<1>0. /\ pc[w] = "published" /\ fresh[w] \in journal /\ fresh[w] \in Record
      /\ projection' = fresh[w]
      /\ held' = [held EXCEPT ![w] = fresh[w]]
      /\ fresh' = [fresh EXCEPT ![w] = NoRecord]
      /\ pc' = [pc EXCEPT ![w] = "holding"]
      /\ UNCHANGED <<journal, projSeen, derivation>>
  BY DEF WriteProjection, IInv, FreshAnswersHeld
<1>1. TypeOK'
  BY <1>0 DEF IInv, TypeOK, PC
<1>2. Unique' /\ DownClosed' /\ HasLatest' /\ Published' = Published
  BY <1>0, JournalUnchanged
<1>3. ReadsPublished'
  BY <1>0, <1>2 DEF IInv, TypeOK, ReadsPublished, Published
<1>4. FreshAnswersHeld'
  BY <1>0 DEF IInv, TypeOK, FreshAnswersHeld
<1>5. NoLostUpdate' /\ AcknowledgedIsDurable'
  BY <1>0 DEF IInv, TypeOK, NoLostUpdate, AcknowledgedIsDurable
<1> QED BY <1>1, <1>2, <1>3, <1>4, <1>5 DEF IInv

\* Every step of every writer preserves the inductive invariant.
LEMMA NextInv == IInv /\ [Next]_vars => IInv'
<1> SUFFICES ASSUME IInv, [Next]_vars PROVE IInv'
  OBVIOUS
<1>1. CASE UNCHANGED vars
  BY <1>1 DEF vars, IInv, TypeOK, Unique, DownClosed, RevisionTaken, HasLatest,
              ReadsPublished, Published, FreshAnswersHeld, NoLostUpdate, AcknowledgedIsDurable
<1>2. CASE Next
  <2> PICK w \in Writers :
            \/ StartRead(w) \/ FinishRead(w) \/ StartUpdate(w)
            \/ \E v \in Values : Stage(w, v) \/ RejectUpdate(w, v)
            \/ Publish(w) \/ PublishConflict(w) \/ WriteProjection(w) \/ Crash(w)
    BY <1>2 DEF Next
  <2>1. CASE StartRead(w) \/ StartUpdate(w)
    BY <2>1, LoadInv
  <2>2. CASE FinishRead(w)
    BY <2>2, FinishReadInv
  <2>3. CASE \E v \in Values : Stage(w, v)
    BY <2>3, StageInv
  <2>4. CASE (\E v \in Values : RejectUpdate(w, v)) \/ PublishConflict(w) \/ Crash(w)
    <3>1. Reset(w)
      BY <2>4 DEF RejectUpdate, PublishConflict, Crash
    <3> QED BY <3>1, ResetInv
  <2>5. CASE Publish(w)
    BY <2>5, PublishInv
  <2>6. CASE WriteProjection(w)
    BY <2>6, WriteProjectionInv
  <2> QED BY <2>1, <2>2, <2>3, <2>4, <2>5, <2>6
<1> QED BY <1>1, <1>2

-----------------------------------------------------------------------------
\* The inductive invariant holds in every reachable state of the journal.
THEOREM Invariance == Spec => []IInv
BY InitInv, NextInv, PTL DEF Spec

\* The variables keep their types.
THEOREM TypeCorrectness == Spec => []TypeOK
<1>1. IInv => TypeOK
  BY DEF IInv
<1> QED BY <1>1, Invariance, PTL

\* Each revision has one snapshot and none is skipped (commitTransition).
THEOREM RevisionsAreContiguous == Spec => []RevisionsContiguous
<1>1. IInv => RevisionsContiguous
  <2> SUFFICES ASSUME IInv PROVE RevisionsContiguous
    OBVIOUS
  <2>1. \A s \in journal : s.rev \in Nat /\ s.rev > 0
    BY RecordFacts DEF IInv, TypeOK, DownClosed
  <2>2. \A s \in journal : s.rev # 1 => s.rev - 1 \in 1 .. s.rev
    BY <2>1
  <2> QED BY <2>1, <2>2 DEF IInv, Unique, DownClosed, RevisionsContiguous
<1> QED BY <1>1, Invariance, PTL

\* No update is lost: a stale writer never overwrites a newer record
\* (commitQueueUpdate, transitionAttempt, transitionAttemptCleanup).
THEOREM NoUpdateIsLost == Spec => []NoLostUpdate
<1>1. IInv => NoLostUpdate
  BY DEF IInv
<1> QED BY <1>1, Invariance, PTL

\* What a writer was told it wrote, or what it read, is in the journal.
THEOREM AcknowledgedUpdatesAreDurable == Spec => []AcknowledgedIsDurable
<1>1. IInv => AcknowledgedIsDurable
  BY DEF IInv
<1> QED BY <1>1, Invariance, PTL

\* read() never finds the projection ahead of the journal.
THEOREM ReadsNeverRefuse == Spec => []ProjectionNeverAhead
<1>1. IInv => ProjectionNeverAhead
  <2> SUFFICES ASSUME IInv PROVE ProjectionNeverAhead
    OBVIOUS
  <2>1. ASSUME NEW p \in Published PROVE ~ProjectionAhead(p)
    <3> SUFFICES ASSUME journal # {} PROVE ~(LatestSnapshot.rev < p.rev)
      BY DEF ProjectionAhead
    <3>1. p.rev <= Latest.rev /\ Latest = LatestSnapshot /\ Latest \in Record
      BY LatestFacts
    <3>2. p.rev \in Nat /\ Latest.rev \in Nat
      BY <3>1, RecordFacts DEF IInv, TypeOK, Published
    <3> QED BY <3>1, <3>2
  <2> QED BY <2>1 DEF IInv, ReadsPublished, ProjectionNeverAhead
<1> QED BY <1>1, Invariance, PTL

-----------------------------------------------------------------------------
\* Every step but a successful rename leaves the journal as it is.
LEMMA OnlyPublishWrites ==
    ASSUME IInv, [Next]_vars
    PROVE  journal' = journal \/ \E w \in Writers : Publish(w)
BY DEF Next, vars, StartRead, StartUpdate, LoadProjection, FinishRead, Stage, RejectUpdate,
       PublishConflict, WriteProjection, Crash, Reset

\* Snapshots stay, and the current record moves by one revision at a time.
THEOREM LatestOnlyAdvances == Spec => LatestNeverRegresses
<1> DEFINE Step == /\ journal \subseteq journal'
                   /\ Latest' = Latest \/ Latest'.rev = Latest.rev + 1
<1>1. IInv /\ [Next]_vars => [Step]_vars
  <2> SUFFICES ASSUME IInv, [Next]_vars PROVE Step
    OBVIOUS
  <2>1. CASE journal' = journal
    BY <2>1 DEF Latest, ReadResult, LatestSnapshot
  <2>2. CASE \E w \in Writers : Publish(w)
    <3> PICK w \in Writers : Publish(w)
      BY <2>2
    <3>1. held[w] = Latest /\ journal' = journal \cup {fresh[w]} /\ Latest' = fresh[w]
      BY PublishSwaps
    <3>2. fresh[w].rev = held[w].rev + 1
      BY DEF IInv, FreshAnswersHeld, Publish
    <3> QED BY <3>1, <3>2
  <2> QED BY <2>1, <2>2, OnlyPublishWrites
<1> QED BY <1>1, Invariance, PTL DEF Spec, LatestNeverRegresses

\* What a caller holds in the abstract specification.
SeenBar == [w \in Writers |-> IF pc[w] = "published" THEN fresh[w] ELSE held[w]]

\* Every step of the journal is a step of the compare-and-swap record, or
\* changes nothing its callers can see.
LEMMA StepRefines ==
    ASSUME IInv, [Next]_vars
    PROVE  [Cas!Next]_(Cas!vars)
<1> USE DEF SeenBar
<1>1. ASSUME Latest' = Latest, SeenBar' = SeenBar PROVE [Cas!Next]_(Cas!vars)
  BY <1>1 DEF Cas!vars
<1>2. ASSUME NEW w \in Writers, Latest' = Latest,
             SeenBar' = [SeenBar EXCEPT ![w] = NoRecord]
      PROVE  [Cas!Next]_(Cas!vars)
  <2>1. Cas!Forget(w)
    BY <1>2 DEF Cas!Forget, Cas!NoRecord, NoRecord
  <2> QED BY <2>1 DEF Cas!Next
<1>3. ASSUME journal' = journal PROVE Latest' = Latest
  BY <1>3 DEF Latest, ReadResult, LatestSnapshot
<1>4. CASE UNCHANGED vars
  BY <1>1, <1>3, <1>4 DEF vars
<1>5. CASE Next
  <2> PICK w \in Writers :
            \/ StartRead(w) \/ FinishRead(w) \/ StartUpdate(w)
            \/ \E v \in Values : Stage(w, v) \/ RejectUpdate(w, v)
            \/ Publish(w) \/ PublishConflict(w) \/ WriteProjection(w) \/ Crash(w)
    BY <1>5 DEF Next
  <2>1. CASE StartRead(w) \/ StartUpdate(w)
    <3>1. SeenBar' = SeenBar /\ journal' = journal
      BY <2>1 DEF IInv, TypeOK, StartRead, StartUpdate, LoadProjection
    <3> QED BY <3>1, <1>1, <1>3
  <2>2. CASE FinishRead(w)
    <3>1. ReadResult(projSeen[w]) = Latest
      BY <2>2, ReadReturnsLatest DEF FinishRead
    <3>2. SeenBar' = [SeenBar EXCEPT ![w] = Latest] /\ journal' = journal
      BY <2>2, <3>1 DEF IInv, TypeOK, FinishRead
    <3>3. Cas!Read(w)
      BY <3>2, <1>3 DEF Cas!Read
    <3> QED BY <3>3 DEF Cas!Next
  <2>3. CASE \E v \in Values : Stage(w, v)
    <3>1. SeenBar' = SeenBar /\ journal' = journal
      BY <2>3 DEF IInv, TypeOK, Stage
    <3> QED BY <3>1, <1>1, <1>3
  <2>4. CASE (\E v \in Values : RejectUpdate(w, v)) \/ PublishConflict(w) \/ Crash(w)
    <3>1. Reset(w)
      BY <2>4 DEF RejectUpdate, PublishConflict, Crash
    <3>2. SeenBar' = [SeenBar EXCEPT ![w] = NoRecord] /\ journal' = journal
      BY <3>1 DEF IInv, TypeOK, Reset
    <3> QED BY <3>2, <1>2, <1>3
  <2>5. CASE Publish(w)
    <3>1. held[w] = Latest /\ Latest' = fresh[w]
      BY <2>5, PublishSwaps
    <3>2. /\ pc[w] = "staged"
          /\ pc' = [pc EXCEPT ![w] = "published"]
          /\ fresh' = fresh /\ held' = held
          /\ fresh[w] \in Record
          /\ fresh[w].rev = Latest.rev + 1
          /\ <<Latest.val, fresh[w].val>> \in Legal
      BY <2>5, <3>1 DEF IInv, FreshAnswersHeld, Publish
    <3>3. SeenBar[w] = Latest /\ SeenBar' = [SeenBar EXCEPT ![w] = Latest']
      BY <3>1, <3>2 DEF IInv, TypeOK
    <3>4. PICK v \in Values :
             v = fresh[w].val /\ fresh[w] = [rev |-> Latest.rev + 1, val |-> v]
      BY <3>2 DEF Record
    <3>5. Cas!Swap(w, v)
      BY <3>1, <3>2, <3>3, <3>4 DEF Cas!Swap
    <3> QED BY <3>4, <3>5 DEF Cas!Next
  <2>6. CASE WriteProjection(w)
    <3>1. SeenBar' = SeenBar /\ journal' = journal
      BY <2>6 DEF IInv, TypeOK, WriteProjection
    <3> QED BY <3>1, <1>1, <1>3
  <2> QED BY <2>1, <2>2, <2>3, <2>4, <2>5, <2>6
<1> QED BY <1>4, <1>5

\* The journal implements the atomic record for every number of writers: reads
\* are atomic and an update succeeds only against the current record.
THEOREM JournalRefinesAtomicRecord == Spec => ImplementsAtomicRecord
<1>1. Init => Cas!Init
  BY DEF Init, Cas!Init, Latest, ReadResult, Initial, NoRecord, Cas!NoRecord
<1>2. IInv /\ [Next]_vars => [Cas!Next]_(Cas!vars)
  BY StepRefines
<1> QED BY <1>1, <1>2, Invariance, PTL DEF Spec, ImplementsAtomicRecord, Cas!Spec
=============================================================================
