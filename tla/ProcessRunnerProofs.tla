------------------------ MODULE ProcessRunnerProofs ------------------------
(***************************************************************************)
(* The safety of a guarded run, for both platforms and any number of       *)
(* killed guardians.  The properties speak of the owner, the guardian and  *)
(* the operating system's processes at once; RInv says what each of them   *)
(* may rely on while events and the start request are on their way.        *)
(***************************************************************************)
EXTENDS ProcessRunner, TLAPS

Sent(e) == \E i \in 1 .. Len(events) : events[i] = e

\* The start request follows the durable identity, the worker follows the start
\* request; on POSIX the identity is recorded only once.
StartInv ==
    /\ chain = "start" => durable
    /\ start => durable
    /\ born => start
    /\ ~ Windows /\ chain \in {"idle", "ready", "start"} => ~ start
    /\ Sent("ownership-ready") \/ guardian = "booting" => Windows

\* What the guardian's progress says about the tree: an exited job host has
\* emptied its job, and proven termination is only ever claimed then.
TreeInv ==
    /\ ~ born => tree = {}
    /\ guardian \in {"none", "booting", "waiting"} => ~ born
    /\ guardian = "exited" /\ Windows => tree = {}
    /\ Sent("proven") \/ seen.cleanup = "proven" => Windows /\ guardian = "exited"

\* A guardian that was not killed has reported on the tree of its worker.
ReportInv ==
    guardian = "exited" /\ born /\ kills = 0 =>
        seen.cleanup # "none" \/ \E e \in Cleanups : Sent(e)

\* How far the guardian has got when the owner settles, and that a run which is
\* rejected before its guardian has exited has asked for no worker.
OwnerInv ==
    /\ owner \in {"called", "opening"} => guardian = "none"
    /\ owner = "closing" => guardian = "exited" /\ events = <<>>
    /\ owner = "resolved" => guardian = "none" \/ (guardian = "exited" /\ events = <<>>)
    /\ owner = "rejected" => guardian \in {"none", "exited"} \/ (~ start /\ chain = "failed")
    /\ result # "none" => owner = "resolved"

RInv == TypeOK /\ StartInv /\ TreeInv /\ ReportInv /\ OwnerInv /\ ProvenMeansGone

-----------------------------------------------------------------------------
\* Sending an event adds it to what is on its way and nothing else.
LEMMA SendEvent ==
    ASSUME events \in Seq(EventTypes), NEW x \in EventTypes, events' = Append(events, x), NEW e
    PROVE  Sent(e)' <=> Sent(e) \/ e = x
BY DEF Sent

\* Receiving an event takes it, and it alone, from what is on its way.
LEMMA TakeEvent ==
    ASSUME events \in Seq(EventTypes), events # <<>>, events' = Tail(events), NEW e
    PROVE  /\ Sent(e)' => Sent(e)
           /\ Sent(e) => Sent(e)' \/ e = Head(events)
BY DEF Sent

\* An event that is read was sent.
LEMMA HeadSent ==
    ASSUME events \in Seq(EventTypes), events # <<>>
    PROVE  Sent(Head(events)) /\ Head(events) \in EventTypes
BY DEF Sent

-----------------------------------------------------------------------------
\* Type correctness: every step preserves TypeOK.
LEMMA TypeStep ==
    ASSUME TypeOK, [Next]_vars
    PROVE  TypeOK'
<1> USE DEF TypeOK, Final, fixed, ownerVars, channel, runVars
<1>e. /\ Cleanups \subseteq EventTypes
      /\ \A e \in EventTypes : Append(events, e) \in Seq(EventTypes)
      /\ {"ownership-ready", "worker-spawn", "worker-close", "output-limit"} \subseteq EventTypes
      /\ Cleanups = {"proven", "unknown", "failed"}
  BY DEF EventTypes, Cleanups
<1>f. UNCHANGED fixed => Family' = Family
  BY DEF Family, Windows
<1>1. CASE Enter
  BY <1>1, <1>e, <1>f DEF Enter
<1>2. CASE SpawnGuardian
  BY <1>2, <1>e, <1>f DEF SpawnGuardian
<1>3. CASE Timeout
  BY <1>3, <1>e, <1>f DEF Timeout, terminate
<1>4. CASE Abort
  <2>1. signal' \in BOOLEAN /\ stop' \in BOOLEAN /\ terminated' \in {"no", "timeout", "cancelled"}
    BY <1>4 DEF Abort, terminate
  <2> QED
    BY <1>4, <1>f, <2>1 DEF Abort
<1>5. CASE GuardianSpawned
  BY <1>5, <1>e, <1>f DEF GuardianSpawned
<1>6. CASE GuardianReady
  <2>1. durable' \in BOOLEAN /\ stop' \in BOOLEAN
    BY <1>6 DEF GuardianReady
  <2> QED
    BY <1>6, <1>f, <2>1 DEF GuardianReady
<1>7. CASE SendStart
  <2>1. start' \in BOOLEAN /\ stop' \in BOOLEAN
    BY <1>7 DEF SendStart
  <2> QED
    BY <1>7, <1>f, <2>1 DEF SendStart
<1>8. CASE ReceiveEvent
  <2>1. events' \in Seq(EventTypes)
    BY <1>8, <1>e DEF ReceiveEvent, readGuardianEvents
  <2>2. seen' \in [pid : BOOLEAN, cleanup : {"none"} \cup Cleanups]
    BY <1>8 DEF ReceiveEvent
  <2> QED
    BY <1>8, <1>f, <2>1, <2>2 DEF ReceiveEvent
<1>9. CASE WorkerSpawned
  BY <1>9, <1>e, <1>f DEF WorkerSpawned
<1>10. CASE GuardianClosed
  BY <1>10, <1>e, <1>f DEF GuardianClosed
<1>11. CASE Settle
  BY <1>11, <1>e, <1>f DEF Settle, finalTermination
<1>12. CASE OwnerDies
  BY <1>12, <1>e, <1>f DEF OwnerDies
<1>13. CASE HostBoots
  BY <1>13, <1>e, <1>f DEF HostBoots, GuardianOnly
<1>14. CASE StartWorker
  <2>1. events' \in Seq(EventTypes)
    BY <1>14, <1>e DEF StartWorker
  <2>2. tree' \subseteq Family'
    BY <1>14 DEF StartWorker, GuardianOnly, Family, Windows
  <2>3. guardian' \in {"spawning", "stopping", "exited"} /\ born' \in BOOLEAN
    BY <1>14 DEF StartWorker, AfterWorker
  <2> QED
    BY <1>14, <1>f, <2>1, <2>2, <2>3 DEF StartWorker, GuardianOnly
<1>15. CASE ReportSpawn
  BY <1>15, <1>e, <1>f DEF ReportSpawn, GuardianOnly
<1>16. CASE StopRequested
  BY <1>16, <1>e, <1>f DEF StopRequested, GuardianOnly, AfterWorker
<1>17. CASE WorkerClosed
  BY <1>17, <1>e, <1>f DEF WorkerClosed, GuardianOnly
<1>18. CASE OutputLimit
  BY <1>18, <1>e, <1>f DEF OutputLimit, GuardianOnly
<1>19. CASE CleanTree
  <2>1. events' \in Seq(EventTypes)
    BY <1>19, <1>e DEF CleanTree
  <2>2. tree' \subseteq Family'
    BY <1>19 DEF CleanTree, GuardianOnly, Family, Windows
  <2> QED
    BY <1>19, <1>f, <2>1, <2>2 DEF CleanTree, GuardianOnly
<1>20. CASE KillGuardian
  <2>1. kills' \in 0 .. MaxKills
    BY <1>20, MaxKillsAssumption DEF KillGuardian
  <2>2. tree' \subseteq Family'
    BY <1>20 DEF KillGuardian, Family, Windows
  <2> QED
    BY <1>20, <1>f, <2>1, <2>2 DEF KillGuardian
<1>21. ASSUME NEW x \in {"worker", "child", "escaped"}, Forks(x) \/ Exits(x) PROVE TypeOK'
  BY <1>21, <1>f DEF Forks, Exits
<1>22. CASE UNCHANGED vars
  BY <1>22, <1>f DEF vars
<1> QED
  BY <1>1, <1>2, <1>3, <1>4, <1>5, <1>6, <1>7, <1>8, <1>9, <1>10, <1>11, <1>12, <1>13, <1>14, <1>15, <1>16, <1>17, <1>18, <1>19, <1>20, <1>21, <1>22 DEF Next, Owner, Guardian

-----------------------------------------------------------------------------
\* What reading an event changes: it was on its way, and only it is not any more.
LEMMA Received ==
    ASSUME TypeOK, ReceiveEvent
    PROVE  /\ Sent(Head(events)) /\ Head(events) \in EventTypes
           /\ \A e : Sent(e)' => Sent(e)
           /\ \A e : Sent(e) => Sent(e)' \/ e = Head(events)
           /\ seen' = [seen EXCEPT !.pid = @ \/ Head(events) = "worker-spawn",
                                  !.cleanup = IF Head(events) \in Cleanups THEN Head(events) ELSE @]
           /\ chain' = IF Head(events) = "ownership-ready" THEN "ready"
                       ELSE IF Head(events) = "worker-spawn" THEN "onSpawn" ELSE chain
BY TakeEvent, HeadSent DEF TypeOK, ReceiveEvent, readGuardianEvents

\* The events there are, and how sending one or none changes what is on its way.
LEMMA EventFacts ==
    ASSUME TypeOK
    PROVE  /\ Cleanups = {"proven", "unknown", "failed"} /\ Cleanups \subseteq EventTypes
           /\ {"ownership-ready", "worker-spawn", "worker-close", "output-limit"} \subseteq EventTypes
           /\ UNCHANGED events => \A e : Sent(e)' <=> Sent(e)
           /\ \A x \in EventTypes :
                 events' = Append(events, x) => \A e : Sent(e)' <=> Sent(e) \/ e = x
<1>1. UNCHANGED events => \A e : Sent(e)' <=> Sent(e)
  BY DEF Sent
<1> QED
  BY <1>1, SendEvent DEF TypeOK, EventTypes, Cleanups

-----------------------------------------------------------------------------

\* The start request is sent by SendStart alone, which the durable identity
\* precedes, and a worker is started on that request alone.
LEMMA StartStep ==
    ASSUME TypeOK, StartInv, [Next]_vars
    PROVE  StartInv'
<1> USE EventFacts DEF TypeOK, fixed, ownerVars, channel, runVars, StartInv, Windows
<1>1. CASE SpawnGuardian
  BY <1>1 DEF SpawnGuardian
<1>2. CASE GuardianSpawned
  BY <1>2 DEF GuardianSpawned
<1>3. CASE GuardianReady
  BY <1>3 DEF GuardianReady
<1>4. CASE SendStart
  BY <1>4 DEF SendStart
<1>5. CASE ReceiveEvent
  BY <1>5, Received DEF ReceiveEvent
<1>6. CASE HostBoots
  BY <1>6 DEF HostBoots, GuardianOnly
<1>7. CASE StartWorker
  BY <1>7 DEF StartWorker, GuardianOnly, AfterWorker
<1>8. CASE CleanTree
  BY <1>8 DEF CleanTree, GuardianOnly
<1>9. CASE Enter \/ Timeout \/ Abort \/ WorkerSpawned \/ GuardianClosed \/ Settle \/
          OwnerDies \/ ReportSpawn \/ StopRequested \/ WorkerClosed \/ OutputLimit \/
          KillGuardian
  BY <1>9 DEF Enter, Timeout, terminate, Abort, WorkerSpawned, GuardianClosed, Settle,
     OwnerDies, ReportSpawn, GuardianOnly, StopRequested, AfterWorker, WorkerClosed,
     OutputLimit, KillGuardian
<1>10. ASSUME NEW x \in {"worker", "child", "escaped"}, Forks(x) \/ Exits(x) PROVE StartInv'
  BY <1>10 DEF Forks, Exits
<1>11. CASE UNCHANGED vars
  BY <1>11 DEF vars
<1> QED
  BY <1>1, <1>2, <1>3, <1>4, <1>5, <1>6, <1>7, <1>8, <1>9, <1>10, <1>11 DEF Next, Owner,
     Guardian

\* Only a guardian that is past waiting has processes under it, and the exit of
\* the job host leaves none.
LEMMA TreeStep ==
    ASSUME TypeOK, StartInv, TreeInv, OwnerInv, [Next]_vars
    PROVE  TreeInv'
<1> USE EventFacts DEF TypeOK, fixed, ownerVars, channel, runVars, TreeInv, OwnerInv,
   Windows, Family
<1>1. CASE SpawnGuardian
  BY <1>1 DEF SpawnGuardian
<1>2. CASE ReceiveEvent
  BY <1>2, Received DEF ReceiveEvent
<1>3. CASE HostBoots
  BY <1>3 DEF HostBoots, GuardianOnly
<1>4. CASE StartWorker
  BY <1>4 DEF StartWorker, GuardianOnly, AfterWorker
<1>5. CASE ReportSpawn
  BY <1>5 DEF ReportSpawn, GuardianOnly
<1>6. CASE StopRequested
  BY <1>6 DEF StopRequested, GuardianOnly, AfterWorker
<1>7. CASE WorkerClosed
  BY <1>7 DEF WorkerClosed, GuardianOnly
<1>8. CASE OutputLimit
  BY <1>8 DEF OutputLimit, GuardianOnly
<1>9. CASE CleanTree
  BY <1>9, ZenonT(40) DEF CleanTree, GuardianOnly
<1>10. CASE KillGuardian
  BY <1>10 DEF KillGuardian
<1>11. CASE Enter \/ Timeout \/ Abort \/ GuardianSpawned \/ GuardianReady \/ SendStart \/
          WorkerSpawned \/ GuardianClosed \/ Settle \/ OwnerDies
  <2>1. UNCHANGED <<platform, guardian, born, tree, events, seen>>
    BY <1>11 DEF Enter, Timeout, terminate, Abort, GuardianSpawned, GuardianReady,
       SendStart, WorkerSpawned, GuardianClosed, Settle, OwnerDies
  <2> QED
    BY <2>1
<1>12. ASSUME NEW x \in {"worker", "child", "escaped"}, Forks(x) \/ Exits(x) PROVE TreeInv'
  BY <1>12 DEF Forks, Exits
<1>13. CASE UNCHANGED vars
  BY <1>13 DEF vars
<1> QED
  BY <1>1, <1>2, <1>3, <1>4, <1>5, <1>6, <1>7, <1>8, <1>9, <1>10, <1>11, <1>12, <1>13 DEF
     Next, Owner, Guardian

\* A guardian with a worker exits by CleanTree, which reports, or is killed; a
\* report that is read is remembered.
LEMMA ReportStep ==
    ASSUME TypeOK, TreeInv, ReportInv, [Next]_vars
    PROVE  ReportInv'
<1> USE EventFacts DEF TypeOK, fixed, ownerVars, channel, runVars, ReportInv, Windows,
   TreeInv
<1>1. CASE SpawnGuardian
  BY <1>1 DEF SpawnGuardian
<1>2. CASE ReceiveEvent
  BY <1>2, Received DEF ReceiveEvent
<1>3. CASE HostBoots
  BY <1>3 DEF HostBoots, GuardianOnly
<1>4. CASE StartWorker
  BY <1>4 DEF StartWorker, GuardianOnly, AfterWorker
<1>5. CASE StopRequested
  BY <1>5 DEF StopRequested, GuardianOnly, AfterWorker
<1>6. CASE CleanTree
  BY <1>6 DEF CleanTree, GuardianOnly
<1>7. CASE KillGuardian
  BY <1>7 DEF KillGuardian
<1>8. CASE Enter \/ Timeout \/ Abort \/ GuardianSpawned \/ GuardianReady \/ SendStart \/
          WorkerSpawned \/ GuardianClosed \/ Settle \/ OwnerDies \/ ReportSpawn \/
          WorkerClosed \/ OutputLimit
  BY <1>8 DEF Enter, Timeout, terminate, Abort, GuardianSpawned, GuardianReady, SendStart,
     WorkerSpawned, GuardianClosed, Settle, OwnerDies, ReportSpawn, GuardianOnly,
     WorkerClosed, OutputLimit
<1>9. ASSUME NEW x \in {"worker", "child", "escaped"}, Forks(x) \/ Exits(x) PROVE ReportInv'
  BY <1>9 DEF Forks, Exits
<1>10. CASE UNCHANGED vars
  BY <1>10 DEF vars
<1> QED
  BY <1>1, <1>2, <1>3, <1>4, <1>5, <1>6, <1>7, <1>8, <1>9, <1>10 DEF Next, Owner, Guardian

\* The owner waits for the guardian's last event before it settles, except when
\* the identity cannot be recorded, and then no start request was sent.
LEMMA OwnerStep ==
    ASSUME TypeOK, StartInv, OwnerInv, [Next]_vars
    PROVE  OwnerInv'
<1> USE EventFacts DEF TypeOK, fixed, ownerVars, channel, runVars, OwnerInv, Windows,
   StartInv, Final, Listening
<1>1. CASE Enter
  BY <1>1 DEF Enter
<1>2. CASE SpawnGuardian
  BY <1>2 DEF SpawnGuardian
<1>3. CASE GuardianSpawned
  BY <1>3 DEF GuardianSpawned
<1>4. CASE GuardianReady
  BY <1>4 DEF GuardianReady
<1>5. CASE SendStart
  BY <1>5 DEF SendStart
<1>6. CASE ReceiveEvent
  BY <1>6, Received DEF ReceiveEvent
<1>7. CASE GuardianClosed
  BY <1>7 DEF GuardianClosed
<1>8. CASE Settle
  BY <1>8 DEF Settle
<1>9. CASE HostBoots
  BY <1>9 DEF HostBoots, GuardianOnly
<1>10. CASE StartWorker
  BY <1>10 DEF StartWorker, GuardianOnly, AfterWorker
<1>11. CASE StopRequested
  BY <1>11 DEF StopRequested, GuardianOnly, AfterWorker
<1>12. CASE Timeout \/ Abort \/ WorkerSpawned \/ OwnerDies \/ ReportSpawn \/ WorkerClosed \/
          OutputLimit \/ CleanTree \/ KillGuardian
  BY <1>12 DEF Timeout, terminate, Abort, WorkerSpawned, OwnerDies, ReportSpawn,
     GuardianOnly, WorkerClosed, OutputLimit, CleanTree, KillGuardian
<1>13. ASSUME NEW x \in {"worker", "child", "escaped"}, Forks(x) \/ Exits(x) PROVE OwnerInv'
  BY <1>13 DEF Forks, Exits
<1>14. CASE UNCHANGED vars
  BY <1>14 DEF vars
<1> QED
  BY <1>1, <1>2, <1>3, <1>4, <1>5, <1>6, <1>7, <1>8, <1>9, <1>10, <1>11, <1>12, <1>13, <1>14
     DEF Next, Owner, Guardian

\* On Windows a run resolves only when its job host has exited, with the job empty.
LEMMA ProvenStep ==
    ASSUME TypeOK, StartInv, TreeInv, ReportInv, OwnerInv, ProvenMeansGone, [Next]_vars
    PROVE  ProvenMeansGone'
<1> USE EventFacts DEF TypeOK, fixed, ownerVars, channel, runVars, ProvenMeansGone, TreeInv,
   OwnerInv, Windows
<1>1. CASE Enter
  BY <1>1 DEF Enter
<1>2. CASE ReceiveEvent
  BY <1>2, Received DEF ReceiveEvent
<1>3. CASE Settle
  BY <1>3 DEF Settle
<1>4. CASE StartWorker
  BY <1>4 DEF StartWorker, GuardianOnly, AfterWorker
<1>5. CASE CleanTree
  BY <1>5 DEF CleanTree, GuardianOnly
<1>6. CASE KillGuardian
  BY <1>6 DEF KillGuardian
<1>7. CASE SpawnGuardian \/ Timeout \/ Abort \/ GuardianSpawned \/ GuardianReady \/
          SendStart \/ WorkerSpawned \/ GuardianClosed \/ OwnerDies \/ HostBoots \/
          ReportSpawn \/ StopRequested \/ WorkerClosed \/ OutputLimit
  BY <1>7 DEF SpawnGuardian, Timeout, terminate, Abort, GuardianSpawned, GuardianReady,
     SendStart, WorkerSpawned, GuardianClosed, OwnerDies, HostBoots, GuardianOnly,
     ReportSpawn, StopRequested, AfterWorker, WorkerClosed, OutputLimit
<1>8. ASSUME NEW x \in {"worker", "child", "escaped"}, Forks(x) \/ Exits(x) PROVE ProvenMeansGone'
  BY <1>8 DEF Forks, Exits
<1>9. CASE UNCHANGED vars
  BY <1>9 DEF vars
<1> QED
  BY <1>1, <1>2, <1>3, <1>4, <1>5, <1>6, <1>7, <1>8, <1>9 DEF Next, Owner, Guardian

-----------------------------------------------------------------------------
\* RInv is an invariant of every run.
THEOREM RunInvariant == Spec => []RInv
<1>1. Init => RInv
  <2>1. Init => TypeOK
    <3>1. Init => kills \in 0 .. MaxKills
      BY MaxKillsAssumption DEF Init
    <3>2. Init => seen \in [pid : BOOLEAN, cleanup : {"none"} \cup Cleanups]
      BY DEF Init
    <3>3. Init => /\ durable \in BOOLEAN /\ start \in BOOLEAN /\ stop \in BOOLEAN
                  /\ born \in BOOLEAN /\ signal \in BOOLEAN /\ hasCleanup \in BOOLEAN
      BY DEF Init
    <3>4. Init => events \in Seq(EventTypes) /\ tree \subseteq Family
      BY DEF Init
    <3> QED
      BY <3>1, <3>2, <3>3, <3>4 DEF Init, TypeOK, Final
  <2>2. Init => \A e : ~ Sent(e)
    BY DEF Init, Sent
  <2> QED
    BY <2>1, <2>2
       DEF Init, RInv, StartInv, TreeInv, ReportInv, OwnerInv, ProvenMeansGone, Windows
<1>2. RInv /\ [Next]_vars => RInv'
  BY TypeStep, StartStep, TreeStep, ReportStep, OwnerStep, ProvenStep DEF RInv
<1> QED
  BY <1>1, <1>2, PTL DEF Spec

\* runProcess: the variables always have their types.
THEOREM ProcessRunnerType == Spec => []TypeOK
BY RunInvariant, PTL DEF RInv

\* finalTermination: on Windows a termination reported as proven means that no
\* process of the run is left, however often guardians are killed.
THEOREM ProvenIsGone == Spec => []ProvenMeansGone
BY RunInvariant, PTL DEF RInv

\* onGuardianReady: no worker is started before its guardian's identity is durable.
THEOREM DurableIdentity == Spec => []IdentityBeforeWorker
<1>1. RInv => IdentityBeforeWorker
  BY DEF RInv, StartInv, IdentityBeforeWorker
<1> QED
  BY <1>1, RunInvariant, PTL

\* The close event: a run whose guardian was not killed never returns without the
\* evidence on its worker's tree.
THEOREM EvidenceReturned == Spec => []EvidenceIsNotLost
<1>1. RInv => EvidenceIsNotLost
  BY DEF RInv, TreeInv, ReportInv, OwnerInv, EvidenceIsNotLost, Sent
<1> QED
  BY <1>1, RunInvariant, PTL

\* The finally of runProcess: once it has returned or thrown, nothing is started.
THEOREM NothingAfterSettling == Spec => SettledRunStartsNothing
<1>1. RInv /\ [Next]_vars => [(owner \in {"resolved", "rejected"}) => born' = born]_vars
  <2> SUFFICES ASSUME RInv, Next, owner \in {"resolved", "rejected"} PROVE born' = born
    OBVIOUS
  <2>1. ~ StartWorker
    BY DEF RInv, OwnerInv, StartWorker
  <2> QED
    BY <2>1 DEF Next, Owner, Guardian, Enter, SpawnGuardian, Timeout, Abort, GuardianSpawned,
       GuardianReady, SendStart, ReceiveEvent, WorkerSpawned, GuardianClosed, Settle, OwnerDies,
       HostBoots, ReportSpawn, StopRequested, WorkerClosed, OutputLimit, CleanTree, KillGuardian,
       Forks, Exits, runVars
<1> QED
  BY <1>1, RunInvariant, PTL DEF Spec, SettledRunStartsNothing
=============================================================================
