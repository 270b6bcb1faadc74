------------------------- MODULE TransitionJournal -------------------------
(***************************************************************************)
(* One durable record (queue item, attempt manifest or cleanup record) and *)
(* the writers that update it through commitTransition.  Every step of a   *)
(* writer that touches the file system is an action, so that writers       *)
(* interleave and may crash between any two of them.                       *)
(***************************************************************************)
EXTENDS Naturals

CONSTANTS Writers,      \* the concurrent callers of the store
          Values,       \* the states of the record
          Legal,        \* the transition table, a set of pairs of Values
          InitVal,      \* the value the record is created with
          MaxRevision   \* bound: no update starts from this revision

ASSUME JournalAssumption ==
    /\ InitVal \in Values
    /\ Legal \subseteq Values \X Values
    /\ "none" \notin Values
    /\ MaxRevision \in Nat

VARIABLES journal,     \* the published snapshots: one directory per revision
          projection,  \* the compact JSON file beside the journal
          pc,          \* where each writer is
          projSeen,    \* the projection a read in progress has loaded
          held,        \* the record each caller holds (its "expected" value)
          fresh        \* the record a writer is about to publish

\* History, read by no action: which held record each published one answers.
VARIABLE derivation

vars == <<journal, projection, pc, projSeen, held, fresh, derivation>>

Record == [rev : Nat, val : Values]
NoRecord == [rev |-> 0, val |-> "none"]
Initial == [rev |-> 0, val |-> InitVal]

PC == {"idle", "reading", "holding", "rechecking", "staged", "published"}

TypeOK ==
    /\ journal \subseteq Record
    /\ projection \in Record
    /\ pc \in [Writers -> PC]
    /\ projSeen \in [Writers -> Record \cup {NoRecord}]
    /\ held \in [Writers -> Record \cup {NoRecord}]
    /\ fresh \in [Writers -> Record \cup {NoRecord}]
    /\ derivation \subseteq Record \X Record

Init ==
    /\ journal = {}
    /\ projection = Initial
    /\ pc = [w \in Writers |-> "idle"]
    /\ projSeen = [w \in Writers |-> NoRecord]
    /\ held = [w \in Writers |-> NoRecord]
    /\ fresh = [w \in Writers |-> NoRecord]
    /\ derivation = {}

-----------------------------------------------------------------------------
\* A call ends with an error and its caller holds nothing any more; the files
\* stay as they are.
Reset(w) ==
    /\ pc' = [pc EXCEPT ![w] = "idle"]
    /\ held' = [held EXCEPT ![w] = NoRecord]
    /\ fresh' = [fresh EXCEPT ![w] = NoRecord]
    /\ projSeen' = [projSeen EXCEPT ![w] = NoRecord]
    /\ UNCHANGED <<journal, projection, derivation>>

\* readLatestTransition: the snapshot with the greatest revision.
LatestSnapshot == CHOOSE s \in journal : \A t \in journal : t.rev <= s.rev

\* What read() returns to a writer that loaded projection p: p itself when
\* there is no journal yet, else the latest snapshot.
ReadResult(p) == IF journal = {} THEN p ELSE LatestSnapshot

\* read() throws when the projection is ahead of the journal it then lists.
ProjectionAhead(p) == journal # {} /\ LatestSnapshot.rev < p.rev

\* The first half of read(): load the projection file.
LoadProjection(w) ==
    /\ pc[w] \in {"idle", "holding"}
    /\ projSeen' = [projSeen EXCEPT ![w] = projection]
    /\ UNCHANGED <<journal, projection, held, fresh, derivation>>

\* A caller reads the record to act on it: q.read, getAttempt, ...
StartRead(w) ==
    /\ LoadProjection(w)
    /\ pc' = [pc EXCEPT ![w] = "reading"]

\* commitQueueUpdate and transitionAttempt read again before they compare.
StartUpdate(w) ==
    /\ pc[w] = "holding"
    /\ held[w].rev < MaxRevision
    /\ LoadProjection(w)
    /\ pc' = [pc EXCEPT ![w] = "rechecking"]

\* The second half of read(): list the journal and load its newest snapshot
\* (immutable once listed).  The caller then holds the record.
FinishRead(w) ==
    /\ pc[w] = "reading"
    /\ ~ProjectionAhead(projSeen[w])
    /\ held' = [held EXCEPT ![w] = ReadResult(projSeen[w])]
    /\ pc' = [pc EXCEPT ![w] = "holding"]
    /\ projSeen' = [projSeen EXCEPT ![w] = NoRecord]
    /\ UNCHANGED <<journal, projection, fresh, derivation>>

\* Seeded fault: the second read is not compared with the record held.
Stage_Uncompared(w, v) ==
    /\ pc[w] = "rechecking"
    /\ ~ProjectionAhead(projSeen[w])
    /\ <<held[w].val, v>> \in Legal
    /\ fresh' = [fresh EXCEPT ![w] = [rev |-> ReadResult(projSeen[w]).rev + 1, val |-> v]]
    /\ pc' = [pc EXCEPT ![w] = "staged"]
    /\ projSeen' = [projSeen EXCEPT ![w] = NoRecord]
    /\ UNCHANGED <<journal, projection, held, derivation>>

\* Seeded fault: the transition table is not consulted.
Stage_AnyChange(w, v) ==
    /\ pc[w] = "rechecking"
    /\ ~ProjectionAhead(projSeen[w])
    /\ ReadResult(projSeen[w]) = held[w]
    /\ fresh' = [fresh EXCEPT ![w] = [rev |-> held[w].rev + 1, val |-> v]]
    /\ pc' = [pc EXCEPT ![w] = "staged"]
    /\ projSeen' = [projSeen EXCEPT ![w] = NoRecord]
    /\ UNCHANGED <<journal, projection, held, derivation>>

\* Seeded fault: the projection is written before the snapshot is published.
Stage_ProjectsFirst(w, v) ==
    /\ pc[w] = "rechecking"
    /\ ~ProjectionAhead(projSeen[w])
    /\ ReadResult(projSeen[w]) = held[w]
    /\ <<held[w].val, v>> \in Legal
    /\ fresh' = [fresh EXCEPT ![w] = [rev |-> held[w].rev + 1, val |-> v]]
    /\ projection' = fresh'[w]
    /\ pc' = [pc EXCEPT ![w] = "staged"]
    /\ projSeen' = [projSeen EXCEPT ![w] = NoRecord]
    /\ UNCHANGED <<journal, held, derivation>>

\* The second read of an update: the record must still be the one the caller
\* holds, and the change legal; the new snapshot is then staged.
Stage(w, v) ==
    /\ pc[w] = "rechecking"
    /\ ~ProjectionAhead(projSeen[w])
    /\ ReadResult(projSeen[w]) = held[w]
    /\ <<held[w].val, v>> \in Legal
    /\ fresh' = [fresh EXCEPT ![w] = [rev |-> held[w].rev + 1, val |-> v]]
    /\ pc' = [pc EXCEPT ![w] = "staged"]
    /\ projSeen' = [projSeen EXCEPT ![w] = NoRecord]
    /\ UNCHANGED <<journal, projection, held, derivation>>

\* The update is refused: TransitionConflictError when the record is no longer
\* the one held, or the requested value is not a legal successor.
RejectUpdate(w, v) ==
    /\ pc[w] = "rechecking"
    /\ ~ProjectionAhead(projSeen[w])
    /\ \/ ReadResult(projSeen[w]) # held[w]
       \/ <<held[w].val, v>> \notin Legal
    /\ Reset(w)

-----------------------------------------------------------------------------
\* Renaming the staging directory onto the revision's directory succeeds only
\* when no (necessarily non-empty) directory of that revision exists.
RevisionTaken(r) == \E s \in journal : s.rev = r

\* Seeded fault: the new record is dropped before the projection is written.
Publish_DropsRecord(w) ==
    /\ pc[w] = "staged"
    /\ ~RevisionTaken(fresh[w].rev)
    /\ journal' = journal \cup {fresh[w]}
    /\ derivation' = derivation \cup {<<held[w], fresh[w]>>}
    /\ pc' = [pc EXCEPT ![w] = "published"]
    /\ fresh' = [fresh EXCEPT ![w] = NoRecord]
    /\ UNCHANGED <<projection, projSeen, held>>

Publish(w) ==
    /\ pc[w] = "staged"
    /\ ~RevisionTaken(fresh[w].rev)
    /\ journal' = journal \cup {fresh[w]}
    /\ derivation' = derivation \cup {<<held[w], fresh[w]>>}
    /\ pc' = [pc EXCEPT ![w] = "published"]
    /\ UNCHANGED <<projection, projSeen, held, fresh>>

\* Seeded fault: a collision is taken for a replay of the same update.
PublishConflict_Acknowledged(w) ==
    /\ pc[w] = "staged"
    /\ RevisionTaken(fresh[w].rev)
    /\ pc' = [pc EXCEPT ![w] = "published"]
    /\ UNCHANGED <<journal, projection, projSeen, held, fresh, derivation>>

\* EEXIST or ENOTEMPTY: the revision was already claimed.
PublishConflict(w) ==
    /\ pc[w] = "staged"
    /\ RevisionTaken(fresh[w].rev)
    /\ Reset(w)

\* After the rename the projection is refreshed, and the caller receives the
\* record it wrote.
WriteProjection(w) ==
    /\ pc[w] = "published"
    /\ projection' = fresh[w]
    /\ held' = [held EXCEPT ![w] = fresh[w]]
    /\ fresh' = [fresh EXCEPT ![w] = NoRecord]
    /\ pc' = [pc EXCEPT ![w] = "holding"]
    /\ UNCHANGED <<journal, projSeen, derivation>>

\* The writer dies, fails on I/O or is stopped by a failpoint at any point;
\* what it published stays, everything it held is gone.
Crash(w) == pc[w] # "idle" /\ Reset(w)

Next == \E w \in Writers :
            \/ StartRead(w)
            \/ FinishRead(w)
            \/ StartUpdate(w)
            \/ \E v \in Values : Stage(w, v) \/ RejectUpdate(w, v)
            \/ Publish(w)
            \/ PublishConflict(w)
            \/ WriteProjection(w)
            \/ Crash(w)

Spec == Init /\ [][Next]_vars

-----------------------------------------------------------------------------
(***************************************************************************)
(* Properties                                                              *)
(***************************************************************************)
\* The authoritative record: the newest snapshot, or the one created with it.
Latest == ReadResult(Initial)

\* The projection a read has loaded is never ahead of the journal it lists
\* next, however writers interleave or die between publishing a snapshot and
\* refreshing the projection: read() never reports a projection "ahead of its
\* transition journal".
ProjectionNeverAhead ==
    /\ ~ProjectionAhead(projection)
    /\ \A w \in Writers :
          pc[w] \in {"reading", "rechecking"} => ~ProjectionAhead(projSeen[w])

\* Each revision is claimed by exactly one snapshot and no revision is skipped,
\* so the newest directory name identifies the current record.
RevisionsContiguous ==
    /\ \A s, t \in journal : s.rev = t.rev => s = t
    /\ \A s \in journal : /\ s.rev > 0
                          /\ s.rev = 1 \/ RevisionTaken(s.rev - 1)

\* No lost update: a published record answers exactly the record its caller
\* held, which was the one immediately before it, and is a legal successor of
\* it.  A stale callback therefore never overwrites a newer state.
NoLostUpdate ==
    \A d \in derivation :
        /\ d[2].rev = d[1].rev + 1
        /\ d[1] \in journal \cup {Initial}
        /\ <<d[1].val, d[2].val>> \in Legal

\* A caller that was told its update succeeded holds a record that is in the
\* journal, whatever happened to the projection since.
AcknowledgedIsDurable ==
    \A w \in Writers : held[w] # NoRecord => held[w] \in journal \cup {Initial}

\* Snapshots are immutable and the current record only moves to the next
\* revision: no step removes a snapshot or makes an older record current again.
LatestNeverRegresses ==
    [][/\ journal \subseteq journal'
       /\ Latest' = Latest \/ Latest'.rev = Latest.rev + 1]_vars

\* The journal implements the atomic compare-and-swap record.  A caller that
\* has published but not yet refreshed the projection already holds the new
\* record in the abstract view: the rename is the linearization point.
Cas == INSTANCE AtomicRecord WITH
          rec  <- Latest,
          seen <- [w \in Writers |->
                     IF pc[w] = "published" THEN fresh[w] ELSE held[w]]

ImplementsAtomicRecord == Cas!Spec
=============================================================================
