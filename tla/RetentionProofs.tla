--------------------------- MODULE RetentionProofs ---------------------------
(***************************************************************************)
(* Retention is proved safe for any number of attempts, files, plans,      *)
(* owners and callers, and of crashes.  What a plan says about an attempt  *)
(* stays true while other processes work, because each fact it rests on    *)
(* can only ever become true; GInv says which facts these are, and who has *)
(* deleted what.                                                           *)
(***************************************************************************)
EXTENDS Retention, FiniteSetTheorems, WellFoundedInduction, TLAPS

\* What makes an attempt prunable, for good.
Prunable(a) ==
    /\ attempt[a].status = "terminal" /\ attempt[a].expired /\ ~ attempt[a].eligible
    /\ attempt[a].proc = "proven"

\* A worktree whose removal is proven is gone; files go only where they may.
AttemptInv ==
    \A a \in Attempts :
        /\ attempt[a].files # Files => Prunable(a) /\ ~ attempt[a].worktree
        /\ attempt[a].ws = "proven" => ~ attempt[a].worktree
        /\ a \notin Retained => attempt[a].ws # "none"

\* What a candidate of a plan says about its attempt.
Entry(c) ==
    /\ Prunable(c.attempt) /\ c.crev <= attempt[c.attempt].crev
    /\ c.kind = "workspace" => c.attempt \in Retained /\ c.files = {}
    /\ c.kind # "workspace" => /\ ~ attempt[c.attempt].worktree /\ c.files # {}
                               /\ attempt[c.attempt].files \subseteq c.files

Listed(c) == \E p \in Plans : plan[p] # None /\ \E i \in 1 .. Len(plan[p]) : c = plan[p][i]
Artifacts(c, a) == Listed(c) /\ c.kind # "workspace" /\ c.attempt = a

\* The files that plans name for an attempt shrink from plan to plan, and a tombstone
\* names those of one plan, all of them gone.
PlanInv ==
    /\ \A p \in Plans : plan[p] # None => Len(plan[p]) <= NAttempts
    /\ \A c \in Candidate : Listed(c) => Entry(c)
    /\ \A a \in Attempts : \A c, d \in Candidate :
          Artifacts(c, a) /\ Artifacts(d, a) => c.files \subseteq d.files \/ d.files \subseteq c.files
    /\ \A a \in Attempts : attempt[a].tomb # None =>
          /\ attempt[a].tomb.files \cap attempt[a].files = {}
          /\ \E c \in Candidate : Artifacts(c, a) /\ c.files = attempt[a].tomb.files

\* What a candidate that has been dealt with leaves, and what a process that is past
\* it relies on.
Removed(c) ==
    IF c.kind = "workspace" THEN ~ attempt[c.attempt].worktree
    ELSE /\ c.files \cap attempt[c.attempt].files = {}
         /\ attempt[c.attempt].tomb # None /\ c.files \subseteq attempt[c.attempt].tomb.files

Removing == {"register", "look", "git", "append", "appendFailed"}
Looping == Removing \cup {"check", "rm"}

\* The plan of an owner, and how far it is with it.
OwnerInv(x) ==
    /\ actor[x].at # "idle" => actor[x].plan \in Plans /\ current(x) # None
    /\ actor[x].at = "validate" => actor[x].k <= Len(current(x)) + 1
    /\ actor[x].at \in Looping => actor[x].k <= Len(current(x)) /\ actor[x].target = candidate(x).attempt
    /\ actor[x].at = "complete" => actor[x].k = Len(current(x)) + 1
    /\ actor[x].at \in Looping \cup {"complete", "fail"} => action[actor[x].plan] # "none"
    /\ actor[x].at \in Looping \cup {"complete"} =>
          \A i \in 1 .. actor[x].k - 1 : Removed(current(x)[i])
    /\ actor[x].at \in Removing \cup {"check"} => candidate(x).kind = "workspace"
    /\ actor[x].at = "rm" => /\ candidate(x).kind # "workspace"
                             /\ actor[x].left \subseteq candidate(x).files
    /\ actor[x].late => /\ actor[x].at \in {"idle", "validate"}
                        /\ actor[x].at = "validate" =>
                             \E i \in actor[x].k .. Len(current(x)) : ~ Bound(current(x)[i])

\* A removal of a worktree, by an owner or a caller.
RemovalInv(x) ==
    /\ actor[x].at \in Removing \cup {"check"} => actor[x].target \in Attempts
    /\ actor[x].at \in Removing => actor[x].target \in Retained
    /\ actor[x].at = "append" => ~ attempt[actor[x].target].worktree

ActorOK(x) ==
    /\ x \in Owners => OwnerInv(x)
    /\ RemovalInv(x)
    /\ x \in Callers => actor[x].at \in Removing \cup {"idle", "check"}
ActorInv == \A x \in Actors : ActorOK(x)

\* Each file is deleted once: by one process, in one application of one plan.
Deleted(x) == candidate(x).files \ actor[x].left
DeletedInv ==
    \A x \in Owners : actor[x].at = "rm" =>
        /\ Deleted(x) \cap attempt[actor[x].target].files = {}
        /\ attempt[actor[x].target].tomb # None =>
              Deleted(x) \cap attempt[actor[x].target].tomb.files = {}
        /\ \A y \in Owners \ {x} :
              actor[y].at = "rm" /\ actor[y].target = actor[x].target => Deleted(x) \cap Deleted(y) = {}

\* The action records and the deletions agree.
ActionInv ==
    \A p \in Plans :
        /\ action[p] # "none" => plan[p] # None
        /\ action[p] = "completed" => \A i \in 1 .. Len(plan[p]) : Removed(plan[p][i])
        /\ p \in dirty => plan[p] # None /\ \E i \in 1 .. Len(plan[p]) : ~ Bound(plan[p][i])

GInv == TypeOK /\ AttemptInv /\ PlanInv /\ ActorInv /\ DeletedInv /\ ActionInv /\ DeletionIsAccounted

-----------------------------------------------------------------------------
(* Operators                                                               *)

\* What a dry run proposes is a candidate that says the truth about its attempt.
LEMMA ProposedIsTrue ==
    ASSUME TypeOK, AttemptInv, NEW a \in Attempts, NEW c \in Proposed(a)
    PROVE  /\ c \in Candidate /\ c.attempt = a /\ Entry(c) /\ Proposed(a) = {c}
           /\ c.kind # "workspace" => c.files = attempt[a].files
<1> DEFINE A == attempt[a]
           entry(kind, files) == [attempt |-> a, kind |-> kind, crev |-> A.crev, files |-> files]
           unproven == a \in Retained /\ A.ws # "proven"
<1>0. A \in Attempt
  BY DEF TypeOK
<1>1. classifyRetention(a) = "expired"
  BY DEF Proposed
<1>2. A.status = "terminal" /\ A.expired /\ ~ A.eligible /\ deriveCleanupStatus(A) = "proven"
  BY <1>0, <1>1 DEF classifyRetention, Attempt
<1>3. A.proc = "proven" /\ A.ws \in {"none", "proven"}
  BY <1>0, <1>2 DEF deriveCleanupStatus, Attempt
<1>4. Prunable(a) /\ A.crev \in Nat /\ A.files \subseteq Files
  BY <1>0, <1>2, <1>3 DEF Prunable, Attempt
<1>5. CASE unproven
  <2>1. c = entry("workspace", {}) /\ Proposed(a) = {c}
    BY <1>1, <1>5 DEF Proposed
  <2> QED
    BY <1>4, <1>5, <2>1 DEF Entry, Candidate
<1>6. CASE ~ unproven
  <2>1. c = entry("attempt-artifacts", A.files) /\ Proposed(a) = {c} /\ A.files # {}
    BY <1>1, <1>6 DEF Proposed
  <2>2. A.ws = "proven"
    BY <1>3, <1>6 DEF AttemptInv
  <2>3. ~ A.worktree
    BY <2>2 DEF AttemptInv
  <2> HIDE DEF A
  <2>4. /\ c.attempt = a /\ c.kind = "attempt-artifacts" /\ c.crev = A.crev /\ c.files = A.files
        /\ c \in Candidate
    BY <1>4, <2>1 DEF Candidate
  <2> QED
    BY <1>4, <2>1, <2>3, <2>4 DEF Entry, A
<1> QED
  BY <1>5, <1>6

\* The listing of the candidates is a plan, no longer than the list of the attempts.
LEMMA ListingIsPlan ==
    ASSUME TypeOK, AttemptInv, NEW s \in candidates
    PROVE  /\ s \in Seq(Candidate) /\ Len(s) <= NAttempts
           /\ \A i \in 1 .. Len(s) : s[i].attempt \in Attempts /\ s[i] \in Proposed(s[i].attempt)
<1> DEFINE all == UNION {Proposed(a) : a \in Attempts}
           f == [c \in all |-> c.attempt]
<1>1. \A c \in all : c \in Candidate /\ c.attempt \in Attempts /\ Proposed(c.attempt) = {c}
  BY ProposedIsTrue
<1>2. f \in Injection(all, Attempts)
  <2> HIDE DEF all
  <2>1. f \in [all -> Attempts]
    BY <1>1
  <2>2. \A c, d \in all : f[c] = f[d] => c = d
    BY <1>1
  <2> QED
    BY <2>1, <2>2 DEF Injection, IsInjective
<1>3. IsFiniteSet(Attempts) /\ Cardinality(Attempts) <= NAttempts
  BY FS_Interval, NumbersAssumption DEF Attempts
<1>4. IsFiniteSet(all) /\ Cardinality(all) <= Cardinality(Attempts)
  <2> HIDE DEF all, f
  <2> QED
    BY <1>2, <1>3, FS_Injection
<1>5. Cardinality(all) \in Nat /\ Cardinality(Attempts) \in Nat
  <2> HIDE DEF all
  <2> QED
    BY <1>3, <1>4, FS_CardinalityType
<1>6. s \in [1 .. Cardinality(all) -> all]
  BY DEF candidates
<1> HIDE DEF all
<1>7. s \in Seq(Candidate) /\ Len(s) = Cardinality(all)
  BY <1>1, <1>5, <1>6
<1> QED
  BY <1>1, <1>3, <1>4, <1>5, <1>6, <1>7, NumbersAssumption

\* The entries of a plan on disk.
LEMMA PlanEntries ==
    ASSUME TypeOK, NEW p \in Plans, plan[p] # None
    PROVE  /\ plan[p] \in Seq(Candidate) /\ Len(plan[p]) \in Nat
           /\ \A i \in 1 .. Len(plan[p]) : plan[p][i] \in Candidate /\ Listed(plan[p][i])
<1>1. plan[p] \in Seq(Candidate)
  BY DEF TypeOK
<1> QED
  BY <1>1 DEF Listed

\* The file that is removed next is one that is left.
LEMMA NextFile ==
    ASSUME NEW S \in SUBSET Files, S # {}
    PROVE  Min(S) \in S
<1>1. S \subseteq Nat
  BY NumbersAssumption DEF Files
<1> DEFINE R == {ss \in Nat \X Nat : ss[1] < ss[2]}
<1>w. IsWellFoundedOn(R, Nat)
  BY NatLessThanWellFounded, Zenon DEF OpToRel
<1> HIDE DEF R
<1>2. PICK x \in S : \A y \in S : ~ (<<y, x>> \in R)
  BY <1>1, <1>w, WFMin
<1>3. ASSUME NEW y \in S PROVE x <= y
  <2>1. y \in Nat /\ x \in Nat
    BY <1>1
  <2>2. y < x => <<y, x>> \in R
    BY <2>1 DEF R
  <2> QED
    BY <1>2, <2>1, <2>2
<1> QED
  BY <1>3 DEF Min

-----------------------------------------------------------------------------
(* Types                                                                   *)

\* The loop takes the next candidate of the plan, or is through.
LEMMA TakeType ==
    ASSUME TypeOK, PlanInv, NEW x \in Owners, actor[x].plan \in Plans, current(x) # None,
           NEW k \in 1 .. Len(current(x)) + 1, Take(x, k)
    PROVE  /\ actor' \in [Actors -> Activity]
           /\ \A y \in Actors \ {x} : actor'[y] = actor[y]
           /\ actor'[x].k = k /\ actor'[x].plan = actor[x].plan /\ actor'[x].late = actor[x].late
           /\ actor'[x].at = IF k > Len(current(x)) THEN "complete"
                             ELSE IF current(x)[k].kind = "workspace" THEN "check" ELSE "rm"
           /\ k <= Len(current(x)) => /\ actor'[x].target = current(x)[k].attempt
                                      /\ actor'[x].left = current(x)[k].files
<1> DEFINE A == actor[x]
           S == current(x)
<1>1. x \in Actors /\ A \in Activity /\ actor \in [Actors -> Activity]
  BY DEF TypeOK, Actors
<1>2. S \in Seq(Candidate) /\ Len(S) \in Nat /\ Len(S) <= NAttempts /\ k \in 1 .. NAttempts + 1
  BY PlanEntries, NumbersAssumption DEF PlanInv, current
<1>3. CASE k > Len(S)
  <2>1. actor' = [actor EXCEPT ![x] = [A EXCEPT !.at = "complete", !.k = k]]
    BY <1>3 DEF Take
  <2>2. [A EXCEPT !.at = "complete", !.k = k] \in Activity
    BY <1>1, <1>2 DEF Activity, Places
  <2> QED
    BY <1>1, <1>2, <1>3, <2>1, <2>2 DEF Activity
<1>4. CASE k <= Len(S)
  <2> DEFINE c == S[k]
             r == [A EXCEPT !.at = IF c.kind = "workspace" THEN "check" ELSE "rm", !.k = k,
                            !.target = c.attempt, !.left = c.files]
  <2>0. ~ (k > Len(current(x)))
    BY <1>2, <1>4
  <2>1. actor' = [actor EXCEPT ![x] = r]
    BY <2>0 DEF Take
  <2>2. c \in Candidate
    BY <1>2, <1>4
  <2>3. c.attempt \in Attempts /\ c.files \subseteq Files
    BY <2>2 DEF Candidate
  <2>4. /\ r \in Activity /\ r.k = k /\ r.plan = A.plan /\ r.late = A.late /\ r.target = c.attempt
        /\ r.left = c.files /\ r.at = IF c.kind = "workspace" THEN "check" ELSE "rm"
    <3> HIDE DEF c
    <3> QED
      BY <1>1, <1>2, <2>3 DEF Activity, Places
  <2> HIDE DEF r
  <2>5. actor'[x] = r /\ actor' \in [Actors -> Activity] /\ \A y \in Actors \ {x} : actor'[y] = actor[y]
    BY <1>1, <2>1, <2>4
  <2> QED
    BY <1>2, <1>4, <2>4, <2>5
<1> QED
  BY <1>2, <1>3, <1>4

\* Moving on keeps everything but the place, and stopping leaves nothing.
LEMMA MoveType ==
    ASSUME TypeOK, NEW x \in Actors
    PROVE  /\ \A place \in Places : Goto(x, place) =>
                 /\ actor' \in [Actors -> Activity] /\ \A y \in Actors \ {x} : actor'[y] = actor[y]
                 /\ actor'[x].at = place /\ actor'[x].plan = actor[x].plan /\ actor'[x].k = actor[x].k
                 /\ actor'[x].target = actor[x].target /\ actor'[x].left = actor[x].left
                 /\ actor'[x].late = actor[x].late
           /\ Stop(x) => /\ actor' \in [Actors -> Activity] /\ actor'[x] = Idle
                         /\ \A y \in Actors \ {x} : actor'[y] = actor[y]
<1>1. actor[x] \in Activity /\ actor \in [Actors -> Activity]
  BY DEF TypeOK
<1>2. Idle \in Activity
  BY NumbersAssumption DEF Idle, Activity, Places
<1>3. ASSUME NEW place \in Places, Goto(x, place)
      PROVE  /\ actor' \in [Actors -> Activity] /\ \A y \in Actors \ {x} : actor'[y] = actor[y]
             /\ actor'[x].at = place /\ actor'[x].plan = actor[x].plan /\ actor'[x].k = actor[x].k
             /\ actor'[x].target = actor[x].target /\ actor'[x].left = actor[x].left
             /\ actor'[x].late = actor[x].late
  <2> DEFINE r == [actor[x] EXCEPT !.at = place]
  <2>1. /\ r \in Activity /\ r.at = place /\ r.plan = actor[x].plan /\ r.k = actor[x].k
        /\ r.target = actor[x].target /\ r.left = actor[x].left /\ r.late = actor[x].late
    BY <1>1 DEF Activity
  <2>2. actor' = [actor EXCEPT ![x] = r]
    BY <1>3 DEF Goto
  <2> HIDE DEF r
  <2>3. actor'[x] = r
    BY <1>1, <2>2
  <2> QED
    BY <1>1, <2>1, <2>2, <2>3
<1> QED
  BY <1>1, <1>2, <1>3 DEF Stop

\* A changed cleanup record, and each other change of an attempt, gives an attempt.
LEMMA AttemptTypes ==
    ASSUME NEW A \in Attempt
    PROVE  /\ \A e \in BOOLEAN, r \in {"proven", "unknown"} :
                [[A EXCEPT !.status = "terminal", !.eligible = e, !.proc = r] EXCEPT !.crev = A.crev + 1] \in Attempt
           /\ \A w \in {"pending", "proven", "failed"} :
                [[A EXCEPT !.ws = w] EXCEPT !.crev = A.crev + 1] \in Attempt
           /\ [[A EXCEPT !.worktree = FALSE, !.ws = "proven"] EXCEPT !.crev = A.crev + 1] \in Attempt
           /\ [A EXCEPT !.expired = TRUE] \in Attempt /\ [A EXCEPT !.worktree = FALSE] \in Attempt
           /\ \A F \in SUBSET Files : [A EXCEPT !.files = F] \in Attempt
           /\ \A t \in Tomb : [A EXCEPT !.tomb = t] \in Attempt
<1>1. A.crev + 1 \in Nat
  BY DEF Attempt
<1> QED
  BY <1>1 DEF Attempt

-----------------------------------------------------------------------------
(* What only grows                                                         *)

\* An attempt that has ended keeps its verdict; a worktree, a file and a revision do
\* not come back; a tombstone is written once.
GrowsTo(A, B) ==
    /\ A.status = "terminal" => B.status = "terminal" /\ B.eligible = A.eligible /\ B.proc = A.proc
    /\ A.expired => B.expired
    /\ B.worktree => A.worktree
    /\ B.files \subseteq A.files
    /\ A.crev <= B.crev
    /\ A.tomb # None => B.tomb = A.tomb

Grows == \A a \in Attempts : GrowsTo(attempt[a], attempt'[a])
Keeps == \A p \in Plans : /\ plan[p] # None => plan'[p] = plan[p]
                          /\ action[p] # "none" => action'[p] # "none"

\* What an owner inside the loop works on.
LEMMA Working ==
    ASSUME TypeOK, PlanInv, ActorInv, NEW x \in Owners, actor[x].at \in Looping
    PROVE  /\ actor[x].plan \in Plans /\ current(x) # None /\ current(x) = plan[actor[x].plan]
           /\ actor[x].k \in 1 .. Len(current(x)) /\ Len(current(x)) \in Nat
           /\ candidate(x) \in Candidate /\ Listed(candidate(x)) /\ Entry(candidate(x))
           /\ actor[x].target = candidate(x).attempt /\ actor[x].target \in Attempts
           /\ ~ actor[x].late /\ action[actor[x].plan] # "none"
<1>1. x \in Actors /\ actor[x] \in Activity
  BY DEF TypeOK, Actors
<1>2. OwnerInv(x)
  BY <1>1 DEF ActorInv, ActorOK
<1>3. actor[x].plan \in Plans /\ current(x) # None /\ current(x) = plan[actor[x].plan]
  BY <1>2 DEF OwnerInv, Looping, Removing, current
<1>4. Len(current(x)) \in Nat
  BY <1>3, PlanEntries
<1>5. actor[x].k \in 1 .. Len(current(x))
  <2>1. actor[x].k \in Nat /\ actor[x].k >= 1
    BY <1>1, NumbersAssumption DEF Activity
  <2> QED
    BY <1>2, <1>4, <2>1 DEF OwnerInv
<1>6. candidate(x) \in Candidate /\ Listed(candidate(x))
  BY <1>3, <1>5, PlanEntries DEF candidate
<1>7. actor[x].target = candidate(x).attempt /\ candidate(x).attempt \in Attempts
  BY <1>2, <1>6 DEF OwnerInv, Candidate
<1>8. ~ actor[x].late /\ action[actor[x].plan] # "none"
  BY <1>2 DEF OwnerInv, Looping, Removing
<1> QED
  BY <1>3, <1>4, <1>5, <1>6, <1>7, <1>8 DEF PlanInv

\* A process that has removed all files of its candidate is the first to do so.
LEMMA TombOnce ==
    ASSUME TypeOK, PlanInv, ActorInv, DeletedInv, NEW x \in Owners, actor[x].at = "rm", actor[x].left = {}
    PROVE  attempt[actor[x].target].tomb = None
<1> DEFINE a == actor[x].target
           c == candidate(x)
<1>1. c \in Candidate /\ Listed(c) /\ Entry(c) /\ a = c.attempt /\ a \in Attempts
  BY Working DEF Looping
<1>2. c.kind # "workspace" /\ c.files # {}
  BY <1>1 DEF ActorInv, ActorOK, OwnerInv, Actors, Entry
<1> SUFFICES ASSUME attempt[a].tomb # None PROVE FALSE
  OBVIOUS
<1>3. c.files \cap attempt[a].tomb.files = {}
  BY DEF DeletedInv, Deleted
<1>4. PICK d \in Candidate : Artifacts(d, a) /\ d.files = attempt[a].tomb.files
  BY <1>1 DEF PlanInv
<1>5. d.files # {}
  BY <1>4 DEF PlanInv, Artifacts, Entry
<1>6. c.files \subseteq d.files \/ d.files \subseteq c.files
  BY <1>1, <1>2, <1>4 DEF PlanInv, Artifacts
<1> QED
  BY <1>2, <1>3, <1>4, <1>5, <1>6

\* A change of one attempt.
LEMMA OneAttempt ==
    ASSUME TypeOK, NEW a \in Attempts, NEW r \in Attempt, GrowsTo(attempt[a], r),
           attempt' = [attempt EXCEPT ![a] = r]
    PROVE  /\ attempt' \in [Attempts -> Attempt] /\ Grows
           /\ attempt'[a] = r /\ \A b \in Attempts \ {a} : attempt'[b] = attempt[b]
<1>1. attempt \in [Attempts -> Attempt]
  BY DEF TypeOK
<1>2. attempt'[a] = r /\ \A b \in Attempts \ {a} : attempt'[b] = attempt[b]
  BY <1>1
<1>3. \A b \in Attempts : GrowsTo(attempt[b], attempt[b])
  BY <1>1 DEF GrowsTo, Attempt
<1> QED
  BY <1>1, <1>2, <1>3 DEF Grows

\* No step undoes what the plans and the processes rely on.
LEMMA Evolution ==
    ASSUME TypeOK, PlanInv, ActorInv, DeletedInv, [Next]_vars
    PROVE  attempt' \in [Attempts -> Attempt] /\ Grows /\ Keeps
<1>t. attempt \in [Attempts -> Attempt]
  BY DEF TypeOK
<1>a. UNCHANGED attempt => attempt' \in [Attempts -> Attempt] /\ Grows
  BY <1>t DEF Grows, GrowsTo, Attempt
<1>b. UNCHANGED <<plan, action>> => Keeps
  BY DEF Keeps
<1>1. ASSUME NEW a \in Attempts, NEW e \in BOOLEAN, NEW r \in {"proven", "unknown"}, Finish(a, e, r)
      PROVE  attempt' \in [Attempts -> Attempt] /\ Grows /\ Keeps
  <2> DEFINE B == [[attempt[a] EXCEPT !.status = "terminal", !.eligible = e, !.proc = r]
                      EXCEPT !.crev = attempt[a].crev + 1]
  <2>0. attempt[a] \in Attempt /\ attempt[a].status = "running"
    BY <1>1, <1>t DEF Finish
  <2>1. B \in Attempt
    BY <2>0, AttemptTypes
  <2>2. GrowsTo(attempt[a], B)
    BY <2>0 DEF GrowsTo, Attempt
  <2>3. attempt' = [attempt EXCEPT ![a] = B]
    BY <1>1 DEF Finish, Cleanup
  <2> HIDE DEF B
  <2> QED
    BY <1>1, <1>b, <2>1, <2>2, <2>3, OneAttempt DEF Finish
<1>2. ASSUME NEW a \in Attempts, RemoveOwn(a)
      PROVE  attempt' \in [Attempts -> Attempt] /\ Grows /\ Keeps
  <2> DEFINE B == [[attempt[a] EXCEPT !.worktree = FALSE, !.ws = "proven"] EXCEPT !.crev = attempt[a].crev + 1]
             C == [[attempt[a] EXCEPT !.ws = "failed"] EXCEPT !.crev = attempt[a].crev + 1]
  <2>0. attempt[a] \in Attempt
    BY <1>t
  <2>1. B \in Attempt /\ C \in Attempt
    BY <2>0, AttemptTypes
  <2>2. GrowsTo(attempt[a], B) /\ GrowsTo(attempt[a], C)
    BY <2>0 DEF GrowsTo, Attempt
  <2>3. attempt' = [attempt EXCEPT ![a] = B] \/ attempt' = [attempt EXCEPT ![a] = C]
    BY <1>2 DEF RemoveOwn, Cleanup
  <2> HIDE DEF B, C
  <2> QED
    BY <1>2, <1>b, <2>1, <2>2, <2>3, OneAttempt DEF RemoveOwn
<1>3. ASSUME NEW a \in Attempts, Expire(a)
      PROVE  attempt' \in [Attempts -> Attempt] /\ Grows /\ Keeps
  <2> DEFINE B == [attempt[a] EXCEPT !.expired = TRUE]
  <2>0. attempt[a] \in Attempt
    BY <1>t
  <2>1. B \in Attempt
    BY <2>0, AttemptTypes
  <2>2. GrowsTo(attempt[a], B)
    BY <2>0 DEF GrowsTo, Attempt
  <2>3. attempt' = [attempt EXCEPT ![a] = B]
    BY <1>3 DEF Expire
  <2> HIDE DEF B
  <2> QED
    BY <1>3, <1>b, <2>1, <2>2, <2>3, OneAttempt DEF Expire
<1>4. ASSUME NEW p \in Plans, DryRun(p)
      PROVE  attempt' \in [Attempts -> Attempt] /\ Grows /\ Keeps
  BY <1>4, <1>a DEF DryRun, Keeps, TypeOK
<1>5. ASSUME NEW x \in Owners, (\E p \in Plans : Begin(x, p)) \/ Validate(x)
      PROVE  attempt' \in [Attempts -> Attempt] /\ Grows /\ Keeps
  BY <1>5, <1>a, <1>b DEF Begin, Validate
<1>6. ASSUME NEW x \in Owners, Approve(x) \/ Complete(x) \/ RecordFailure(x)
      PROVE  attempt' \in [Attempts -> Attempt] /\ Grows /\ Keeps
  BY <1>6, <1>a DEF Approve, Complete, RecordFailure, Keeps, TypeOK
<1>7. ASSUME NEW x \in Owners, RemoveFile(x)
      PROVE  attempt' \in [Attempts -> Attempt] /\ Grows /\ Keeps
  <2> DEFINE a == actor[x].target
             F == attempt[a].files \ {Min(actor[x].left)}
             B == [attempt[a] EXCEPT !.files = F]
  <2>0. a \in Attempts /\ attempt[a] \in Attempt
    BY <1>7, <1>t, Working DEF RemoveFile, At, Looping
  <2>1. F \in SUBSET Files /\ F \subseteq attempt[a].files
    BY <2>0 DEF Attempt
  <2>2. UNCHANGED attempt \/ attempt' = [attempt EXCEPT ![a] = B]
    BY <1>7 DEF RemoveFile
  <2> HIDE DEF F
  <2>3. B \in Attempt
    BY <2>0, <2>1, AttemptTypes
  <2>4. GrowsTo(attempt[a], B)
    BY <2>0, <2>1 DEF GrowsTo, Attempt
  <2> HIDE DEF B
  <2> QED
    BY <1>7, <1>a, <1>b, <2>0, <2>2, <2>3, <2>4, OneAttempt DEF RemoveFile
<1>8. ASSUME NEW x \in Owners, Tombstone(x)
      PROVE  attempt' \in [Attempts -> Attempt] /\ Grows /\ Keeps
  <2> DEFINE a == actor[x].target
             t == [plan |-> actor[x].plan, files |-> candidate(x).files]
             B == [attempt[a] EXCEPT !.tomb = t]
  <2>0. a \in Attempts /\ attempt[a] \in Attempt /\ actor[x].plan \in Plans /\ candidate(x) \in Candidate
    BY <1>8, <1>t, Working DEF Tombstone, At, Looping
  <2>1. t \in Tomb
    BY <2>0 DEF Candidate, Tomb
  <2>2. attempt[a].tomb = None
    BY <1>8, TombOnce DEF Tombstone, At
  <2>3. attempt' = [attempt EXCEPT ![a] = B]
    BY <1>8 DEF Tombstone
  <2> HIDE DEF t
  <2>4. B \in Attempt
    BY <2>0, <2>1, AttemptTypes
  <2>5. GrowsTo(attempt[a], B)
    BY <2>0, <2>2 DEF GrowsTo, Attempt
  <2> HIDE DEF B
  <2> QED
    BY <1>8, <1>b, <2>0, <2>3, <2>4, <2>5, OneAttempt DEF Tombstone
<1>9. ASSUME NEW x \in Actors, CheckRemoval(x) \/ LookForWorktree(x) \/ Crash(x)
      PROVE  attempt' \in [Attempts -> Attempt] /\ Grows /\ Keeps
  BY <1>9, <1>a, <1>b DEF CheckRemoval, LookForWorktree, Crash
<1>10. ASSUME NEW x \in Callers, NEW a \in Attempts, Call(x, a)
       PROVE  attempt' \in [Attempts -> Attempt] /\ Grows /\ Keeps
  BY <1>10, <1>a, <1>b DEF Call
<1>11. ASSUME NEW x \in Actors, Register(x) \/ GitRemove(x) \/ AppendProven(x) \/ AppendFailed(x)
       PROVE  attempt' \in [Attempts -> Attempt] /\ Grows /\ Keeps
  <2> DEFINE a == actor[x].target
             B(w) == [[attempt[a] EXCEPT !.ws = w] EXCEPT !.crev = attempt[a].crev + 1]
             C == [attempt[a] EXCEPT !.worktree = FALSE]
  <2>0. a \in Attempts /\ attempt[a] \in Attempt
    BY <1>11, <1>t DEF Register, GitRemove, AppendProven, AppendFailed, At, ActorInv, ActorOK, RemovalInv, Removing
  <2>1. \A w \in {"pending", "proven", "failed"} : B(w) \in Attempt /\ GrowsTo(attempt[a], B(w))
    <3>1. \A w \in {"pending", "proven", "failed"} : B(w) \in Attempt
      BY <2>0, AttemptTypes
    <3>2. \A w \in {"pending", "proven", "failed"} : GrowsTo(attempt[a], B(w))
      BY <2>0 DEF GrowsTo, Attempt
    <3> QED
      BY <3>1, <3>2
  <2>2. C \in Attempt /\ GrowsTo(attempt[a], C)
    <3>1. C \in Attempt
      BY <2>0, AttemptTypes
    <3>2. GrowsTo(attempt[a], C)
      BY <2>0 DEF GrowsTo, Attempt
    <3> QED
      BY <3>1, <3>2
  <2>3. \/ UNCHANGED attempt \/ attempt' = [attempt EXCEPT ![a] = C]
        \/ \E w \in {"pending", "proven", "failed"} : attempt' = [attempt EXCEPT ![a] = B(w)]
    BY <1>11 DEF Register, GitRemove, AppendProven, AppendFailed, Cleanup
  <2>4. UNCHANGED <<plan, action>>
    BY <1>11 DEF Register, GitRemove, AppendProven, AppendFailed
  <2> HIDE DEF B, C
  <2> QED
    BY <1>a, <1>b, <2>0, <2>1, <2>2, <2>3, <2>4, OneAttempt
<1>12. CASE UNCHANGED vars
  BY <1>12, <1>a, <1>b DEF vars
<1> QED
  BY <1>1, <1>2, <1>3, <1>4, <1>5, <1>6, <1>7, <1>8, <1>9, <1>10, <1>11, <1>12 DEF Next, Apply, RemoveWorkspace

\* What a candidate says, that it has been dealt with, and that it is stale, lasts.
LEMMA Lasting ==
    ASSUME TypeOK, Grows, attempt' \in [Attempts -> Attempt], NEW c \in Candidate
    PROVE  /\ Entry(c) => Entry(c)'
           /\ Removed(c) => Removed(c)'
           /\ Entry(c) /\ ~ Bound(c) => ~ Bound(c)'
<1> DEFINE A == attempt[c.attempt]
           B == attempt'[c.attempt]
<1>1. A \in Attempt /\ B \in Attempt /\ GrowsTo(A, B) /\ c.crev \in Nat
  BY DEF TypeOK, Grows, Candidate
<1>2. A.crev \in Nat /\ B.crev \in Nat
  BY <1>1 DEF Attempt
<1> HIDE DEF A, B
<1>3. Entry(c) => Entry(c)'
  BY <1>1, <1>2 DEF Entry, Prunable, GrowsTo, A, B
<1>4. Removed(c) => Removed(c)'
  BY <1>1 DEF Removed, GrowsTo, A, B
<1>5. Entry(c) /\ ~ Bound(c) => ~ Bound(c)'
  BY <1>1, <1>2 DEF Entry, Bound, GrowsTo, A, B
<1> QED
  BY <1>3, <1>4, <1>5

-----------------------------------------------------------------------------
(* The processes                                                           *)

\* A process that does not move keeps what it relies on.
LEMMA StillOK ==
    ASSUME TypeOK, PlanInv, Grows, Keeps, attempt' \in [Attempts -> Attempt],
           NEW x \in Actors, ActorOK(x), actor'[x] = actor[x]
    PROVE  ActorOK(x)'
<1> DEFINE p == actor[x].plan
           k == actor[x].k
<1>t. actor[x] \in Activity
  BY DEF TypeOK
<1>1. ASSUME x \in Owners PROVE OwnerInv(x)'
  <2>0. OwnerInv(x)
    BY <1>1 DEF ActorOK
  <2>1. CASE actor[x].at = "idle"
    BY <2>1 DEF OwnerInv, Looping, Removing
  <2>2. CASE actor[x].at # "idle"
    <3>1. p \in Plans /\ plan[p] # None /\ plan'[p] = plan[p] /\ current(x) = plan[p] /\ current(x)' = plan[p]
      BY <2>0, <2>2 DEF OwnerInv, current, Keeps
    <3>2. /\ Len(plan[p]) \in Nat
          /\ \A i \in 1 .. Len(plan[p]) : plan[p][i] \in Candidate /\ Entry(plan[p][i])
      BY <3>1, PlanEntries DEF PlanInv
    <3>3. k \in Nat /\ k >= 1
      BY <1>t, NumbersAssumption DEF Activity
    <3>4. candidate(x) = plan[p][k] /\ candidate(x)' = plan[p][k]
      BY <3>1 DEF candidate
    <3>5. action[p] # "none" => action'[p] # "none"
      BY <3>1 DEF Keeps
    <3>6. \A i \in 1 .. Len(plan[p]) : Removed(plan[p][i]) => Removed(plan[p][i])'
      <4> SUFFICES ASSUME NEW i \in 1 .. Len(plan[p]), Removed(plan[p][i]) PROVE Removed(plan[p][i])'
        OBVIOUS
      <4>1. PICK c \in Candidate : c = plan[p][i]
        BY <3>2
      <4> QED
        BY <4>1, <3>1, Lasting DEF Removed
    <3>7. \A i \in 1 .. Len(plan[p]) : ~ Bound(plan[p][i]) => ~ Bound(plan[p][i])'
      <4> SUFFICES ASSUME NEW i \in 1 .. Len(plan[p]), ~ Bound(plan[p][i]) PROVE ~ Bound(plan[p][i])'
        OBVIOUS
      <4>1. PICK c \in Candidate : c = plan[p][i] /\ Entry(c)
        BY <3>2
      <4> QED
        BY <4>1, <3>1, Lasting DEF Bound
    <3> QED
      BY <2>0, <3>1, <3>2, <3>3, <3>4, <3>5, <3>6, <3>7 DEF OwnerInv, Looping, Removing
  <2> QED
    BY <2>1, <2>2
<1>2. RemovalInv(x)'
  <2>1. actor[x].at = "append" => actor[x].target \in Attempts
    BY DEF ActorOK, RemovalInv, Removing
  <2> QED
    BY <2>1 DEF ActorOK, RemovalInv, Grows, GrowsTo
<1> QED
  BY <1>1, <1>2 DEF ActorOK

\* A process that stops, or dies, relies on nothing.
LEMMA StopOK ==
    ASSUME NEW x \in Actors, actor'[x] = Idle
    PROVE  ActorOK(x)'
<1>1. actor'[x].at = "idle" /\ actor'[x].late = FALSE
  BY DEF Idle
<1> QED
  BY <1>1 DEF ActorOK, OwnerInv, RemovalInv, Looping, Removing

\* A process that moves on inside a removal, or on to the record of a failure.
LEMMA MoveOK ==
    ASSUME TypeOK, PlanInv, ActorInv, Grows, Keeps, attempt' \in [Attempts -> Attempt],
           NEW x \in Actors, actor[x].at \in Looping, x \in Callers => actor[x].at # "rm",
           NEW place \in Removing \cup {"fail"}, Goto(x, place), place = "fail" => x \in Owners,
           place \in Removing => actor[x].at # "rm" /\ actor[x].target \in Retained,
           place = "append" => ~ attempt'[actor[x].target].worktree
    PROVE  ActorOK(x)'
<1>0. Retained \subseteq Attempts /\ Owners \cap Callers = {}
  BY RetainedAssumption, ActorsAssumption DEF Attempts
<1>1. /\ actor'[x].at = place /\ actor'[x].plan = actor[x].plan /\ actor'[x].k = actor[x].k
      /\ actor'[x].target = actor[x].target /\ actor'[x].late = actor[x].late
  BY MoveType DEF Places, Removing
<1>2. RemovalInv(x)'
  BY <1>0, <1>1 DEF RemovalInv, Removing
<1>3. ASSUME x \in Owners PROVE OwnerInv(x)'
  <2> DEFINE p == actor[x].plan
             k == actor[x].k
  <2>0. OwnerInv(x)
    BY <1>3 DEF ActorInv, ActorOK
  <2>1. /\ p \in Plans /\ plan[p] # None /\ plan'[p] = plan[p] /\ k \in 1 .. Len(plan[p])
        /\ Len(plan[p]) \in Nat /\ ~ actor[x].late
        /\ actor[x].target = candidate(x).attempt /\ action'[p] # "none"
    BY <1>3, Working DEF Keeps
  <2>2. current(x) = plan[p] /\ current(x)' = plan[p]
    BY <1>1, <2>1 DEF current
  <2>3. candidate(x)' = candidate(x)
    BY <1>1, <2>2 DEF candidate
  <2>4. \A i \in 1 .. k - 1 : Removed(plan[p][i])'
    <3> SUFFICES ASSUME NEW i \in 1 .. k - 1 PROVE Removed(plan[p][i])'
      OBVIOUS
    <3>1. Removed(plan[p][i])
      BY <2>0, <2>2 DEF OwnerInv
    <3>2. PICK c \in Candidate : c = plan[p][i]
      BY <2>1, PlanEntries
    <3> QED
      BY <1>1, <2>1, <3>1, <3>2, Lasting DEF Removed
  <2>5. actor[x].at # "rm" => candidate(x).kind = "workspace"
    BY <2>0 DEF OwnerInv, Looping
  <2> QED
    BY <1>1, <2>1, <2>2, <2>3, <2>4, <2>5 DEF OwnerInv, Looping, Removing
<1> QED
  BY <1>0, <1>1, <1>2, <1>3 DEF ActorOK

\* A process that takes the next candidate, having dealt with all before it.
LEMMA TakeOK ==
    ASSUME TypeOK, PlanInv, Keeps, NEW x \in Owners, actor[x].plan \in Plans, current(x) # None,
           NEW k \in 1 .. Len(current(x)) + 1, Take(x, k), ~ actor[x].late,
           action'[actor[x].plan] # "none",
           \A i \in 1 .. k - 1 : \A c \in Candidate : c = current(x)[i] => Removed(c)'
    PROVE  ActorOK(x)'
<1> DEFINE p == actor[x].plan
<1>0. x \in Actors /\ x \notin Callers
  BY ActorsAssumption DEF Actors
<1>1. /\ actor'[x].k = k /\ actor'[x].plan = p /\ ~ actor'[x].late
      /\ actor'[x].at = IF k > Len(current(x)) THEN "complete"
                        ELSE IF current(x)[k].kind = "workspace" THEN "check" ELSE "rm"
      /\ k <= Len(current(x)) => /\ actor'[x].target = current(x)[k].attempt
                                 /\ actor'[x].left = current(x)[k].files
  BY TakeType
<1>2. /\ current(x) = plan[p] /\ current(x)' = plan[p] /\ plan'[p] = plan[p] /\ plan[p] # None
  BY <1>1 DEF current, Keeps
<1>3. Len(plan[p]) \in Nat /\ \A i \in 1 .. Len(plan[p]) : plan[p][i] \in Candidate
  BY <1>2, PlanEntries
<1>4. candidate(x)' = plan[p][k]
  BY <1>1, <1>2 DEF candidate
<1>5. \A i \in 1 .. k - 1 : Removed(plan[p][i])'
  <2> SUFFICES ASSUME NEW i \in 1 .. k - 1 PROVE Removed(plan[p][i])'
    OBVIOUS
  <2>1. PICK c \in Candidate : c = plan[p][i]
    BY <1>2, <1>3
  <2>2. Removed(c)'
    BY <1>2, <2>1
  <2> QED
    BY <1>1, <1>2, <2>1, <2>2 DEF Removed
<1>6. OwnerInv(x)'
  BY <1>1, <1>2, <1>3, <1>4, <1>5 DEF OwnerInv, Looping, Removing
<1>7. k <= Len(plan[p]) => plan[p][k].attempt \in Attempts
  BY <1>2, <1>3 DEF Candidate
<1>8. RemovalInv(x)'
  BY <1>1, <1>2, <1>3, <1>7 DEF RemovalInv, Removing
<1> QED
  BY <1>0, <1>6, <1>8 DEF ActorOK

\* A process takes a step, and what it relies on afterwards holds.
Fine(x) ==
    /\ actor' \in [Actors -> Activity] /\ \A y \in Actors \ {x} : actor'[y] = actor[y]
    /\ ActorOK(x)'

\* An error ends a call, and an application goes on to the record of its failure.
LEMMA ThrowOK ==
    ASSUME TypeOK, PlanInv, ActorInv, Grows, Keeps, attempt' \in [Attempts -> Attempt],
           NEW x \in Actors, actor[x].at \in Looping, x \in Callers => actor[x].at # "rm", Throw(x)
    PROVE  Fine(x)
<1>1. CASE x \in Owners
  <2>1. Goto(x, "fail")
    BY <1>1 DEF Throw
  <2>2. ActorOK(x)'
    BY <1>1, <2>1, MoveOK DEF Removing
  <2> QED
    BY <2>1, <2>2, MoveType DEF Fine, Places
<1>2. CASE x \notin Owners
  BY <1>2, MoveType, StopOK DEF Throw, Fine
<1> QED
  BY <1>1, <1>2

\* A process that moves on inside a removal.
LEMMA StayOK ==
    ASSUME TypeOK, PlanInv, ActorInv, Grows, Keeps, attempt' \in [Attempts -> Attempt],
           NEW x \in Actors, actor[x].at \in Removing \cup {"check"}, actor[x].target \in Retained,
           NEW place \in Removing, Goto(x, place),
           place = "append" => ~ attempt'[actor[x].target].worktree
    PROVE  Fine(x)
<1>1. place \in Places /\ place # "fail" /\ actor[x].at \in Looping /\ actor[x].at # "rm"
  BY DEF Places, Removing, Looping
<1>2. ActorOK(x)'
  BY <1>1, MoveOK
<1> QED
  BY <1>1, <1>2, MoveType DEF Fine

\* A removal is done: a call ends, and the loop takes the next candidate.
LEMMA ReturnOK ==
    ASSUME TypeOK, PlanInv, ActorInv, Grows, Keeps, attempt' \in [Attempts -> Attempt],
           NEW x \in Actors, actor[x].at \in Removing \cup {"check"}, Return(x),
           x \in Owners => ~ attempt'[actor[x].target].worktree
    PROVE  Fine(x)
<1>1. CASE x \in Owners
  <2> DEFINE k == actor[x].k
             s == current(x)
  <2>1. /\ actor[x].plan \in Plans /\ s # None /\ s = plan[actor[x].plan] /\ k \in 1 .. Len(s)
        /\ Len(s) \in Nat /\ ~ actor[x].late /\ action[actor[x].plan] # "none"
        /\ actor[x].target = candidate(x).attempt
    BY <1>1, Working DEF Looping
  <2>2. k + 1 \in 1 .. Len(s) + 1 /\ Take(x, k + 1) /\ action'[actor[x].plan] # "none"
    BY <1>1, <2>1 DEF Return, Keeps
  <2>3. OwnerInv(x)
    BY <1>1 DEF ActorInv, ActorOK
  <2>4. candidate(x).kind = "workspace" /\ \A i \in 1 .. k - 1 : Removed(s[i])
    BY <2>3 DEF OwnerInv, Looping
  <2>5. ASSUME NEW i \in 1 .. k + 1 - 1, NEW c \in Candidate, c = s[i] PROVE Removed(c)'
    <3>1. CASE i = k
      BY <1>1, <2>1, <2>4, <2>5, <3>1 DEF Removed, candidate
    <3>2. CASE i # k
      <4>1. Removed(s[i])
        BY <2>1, <2>4, <3>2
      <4> QED
        BY <2>5, <4>1, Lasting
    <3> QED
      BY <3>1, <3>2
  <2>6. ActorOK(x)'
    <3>1. PICK m \in 1 .. Len(s) + 1 : m = k + 1
      BY <2>2
    <3>2. \A i \in 1 .. m - 1 : \A c \in Candidate : c = s[i] => Removed(c)'
      <4> SUFFICES ASSUME NEW i \in 1 .. m - 1, NEW c \in Candidate, c = s[i] PROVE Removed(c)'
        OBVIOUS
      <4>1. i \in 1 .. k + 1 - 1
        BY <2>1, <3>1
      <4> QED
        BY <2>5, <4>1
    <3>3. Take(x, m)
      BY <2>2, <3>1
    <3> HIDE DEF s, k
    <3>4. actor[x].plan \in Plans /\ current(x) # None /\ m \in 1 .. Len(current(x)) + 1 /\ ~ actor[x].late
      BY <2>1, <3>1 DEF s
    <3>5. \A i \in 1 .. m - 1 : \A c \in Candidate : c = current(x)[i] => Removed(c)'
      BY <3>2 DEF s
    <3> QED
      BY <1>1, <2>2, <3>3, <3>4, <3>5, TakeOK
  <2> QED
    BY <1>1, <2>1, <2>2, <2>6, TakeType DEF Fine
<1>2. CASE x \notin Owners
  BY <1>2, MoveType, StopOK DEF Return, Fine
<1> QED
  BY <1>1, <1>2

\* The steps of a removal.
LEMMA RemovalFine ==
    ASSUME TypeOK, AttemptInv, PlanInv, ActorInv, Grows, Keeps, attempt' \in [Attempts -> Attempt],
           NEW x \in Actors, RemoveWorkspace(x)
    PROVE  Fine(x)
<1> DEFINE a == actor[x].target
<1>0. /\ actor[x].at \in Removing \cup {"check"} /\ actor[x].at \in Looping /\ actor[x].at # "rm"
  BY DEF RemoveWorkspace, CheckRemoval, Register, LookForWorktree, GitRemove, AppendProven, AppendFailed,
         At, Removing, Looping
<1>1. RemovalInv(x)
  BY DEF ActorInv, ActorOK
<1>2. a \in Attempts /\ attempt \in [Attempts -> Attempt]
  BY <1>0, <1>1 DEF RemovalInv, TypeOK
<1>t. Throw(x) => Fine(x)
  BY <1>0, ThrowOK
<1>r. Return(x) /\ (x \in Owners => ~ attempt'[a].worktree) => Fine(x)
  BY <1>0, ReturnOK
<1>g. \A place \in Removing :
        Goto(x, place) /\ a \in Retained /\ (place = "append" => ~ attempt'[a].worktree) => Fine(x)
  BY <1>0, StayOK
<1>3. CASE CheckRemoval(x)
  <2>1. x \in Owners => a \in Retained
    <3>1. ASSUME x \in Owners PROVE a \in Retained
      <4>1. Entry(candidate(x)) /\ a = candidate(x).attempt
        BY <1>0, <3>1, Working
      <4>2. candidate(x).kind = "workspace"
        BY <1>0, <3>1 DEF ActorInv, ActorOK, OwnerInv
      <4> QED
        BY <4>1, <4>2 DEF Entry
    <3> QED
      BY <3>1
  <2>2. attempt[a].ws = "proven" => ~ attempt'[a].worktree
    BY <1>2, <1>3 DEF AttemptInv, CheckRemoval
  <2>3. \/ Throw(x)
        \/ Return(x) /\ (a \notin Retained \/ attempt[a].ws = "proven")
        \/ Goto(x, "register") /\ a \in Retained
    BY <1>3, Zenon DEF CheckRemoval
  <2> QED
    BY <1>t, <1>r, <1>g, <2>1, <2>2, <2>3 DEF Removing
<1>4. CASE ~ CheckRemoval(x)
  <2>0. actor[x].at \in Removing
    BY <1>4 DEF RemoveWorkspace, Register, LookForWorktree, GitRemove, AppendProven, AppendFailed, At, Removing
  <2>1. a \in Retained
    BY <1>1, <2>0 DEF RemovalInv
  <2>2. CASE Register(x)
    <3>1. Goto(x, "look") \/ Throw(x)
      BY <2>2 DEF Register
    <3> QED
      BY <1>t, <1>g, <2>1, <3>1 DEF Removing
  <2>3. CASE LookForWorktree(x)
    <3>1. \/ Goto(x, "git") \/ Goto(x, "appendFailed")
          \/ Goto(x, "append") /\ ~ attempt'[a].worktree
      BY <2>3 DEF LookForWorktree
    <3> QED
      BY <1>g, <2>1, <3>1 DEF Removing
  <2>4. CASE GitRemove(x)
    <3>1. \/ Goto(x, "appendFailed")
          \/ Goto(x, "append") /\ attempt' = [attempt EXCEPT ![a].worktree = FALSE]
      BY <2>4 DEF GitRemove
    <3>2. CASE Goto(x, "appendFailed")
      BY <1>g, <2>1, <3>2 DEF Removing
    <3>3. CASE Goto(x, "append") /\ attempt' = [attempt EXCEPT ![a].worktree = FALSE]
      <4>1. ~ attempt'[a].worktree
        BY <1>2, <3>3 DEF Attempt
      <4> QED
        BY <1>g, <2>1, <3>3, <4>1 DEF Removing
    <3> QED
      BY <3>1, <3>2, <3>3
  <2>5. CASE AppendProven(x)
    <3>1. Return(x) \/ Goto(x, "appendFailed")
      BY <2>5 DEF AppendProven
    <3>2. ~ attempt'[a].worktree
      BY <1>1, <1>2, <2>5 DEF AppendProven, At, RemovalInv, Grows, GrowsTo
    <3> QED
      BY <1>r, <1>g, <2>1, <3>1, <3>2 DEF Removing
  <2>6. CASE AppendFailed(x)
    BY <1>t, <2>6 DEF AppendFailed
  <2> QED
    BY <1>4, <2>2, <2>3, <2>4, <2>5, <2>6 DEF RemoveWorkspace
<1> QED
  BY <1>3, <1>4

\* The steps of an application.
LEMMA ApplyFine ==
    ASSUME TypeOK, AttemptInv, PlanInv, ActorInv, DeletedInv, ActionInv,
           Grows, Keeps, attempt' \in [Attempts -> Attempt], NEW x \in Owners, Apply(x)
    PROVE  Fine(x)
<1> DEFINE p == actor[x].plan
           k == actor[x].k
           s == current(x)
<1>0. x \in Actors /\ x \notin Callers
  BY ActorsAssumption DEF Actors
<1>1. OwnerInv(x) /\ actor[x] \in Activity /\ actor \in [Actors -> Activity]
  BY <1>0 DEF ActorInv, ActorOK, TypeOK
<1>2. k \in 1 .. NAttempts + 1 /\ NAttempts \in Nat
  BY <1>1, NumbersAssumption DEF Activity
<1>3. ASSUME actor[x].at # "idle"
      PROVE  /\ p \in Plans /\ plan[p] # None /\ plan'[p] = plan[p] /\ s = plan[p]
             /\ Len(plan[p]) \in Nat /\ Len(plan[p]) <= NAttempts
             /\ \A i \in 1 .. Len(plan[p]) : plan[p][i] \in Candidate
  <2>1. p \in Plans /\ plan[p] # None /\ s = plan[p]
    BY <1>1, <1>3 DEF OwnerInv, current
  <2> QED
    BY <2>1, PlanEntries DEF Keeps, PlanInv
<1>s. Stop(x) => Fine(x)
  BY <1>0, MoveType, StopOK DEF Fine
<1>4. ASSUME NEW q \in Plans, Begin(x, q) PROVE Fine(x)
  <2> DEFINE R(b) == [Idle EXCEPT !.at = "validate", !.plan = q, !.late = b]
             r == R(q \in dirty)
  <2>0. Idle \in Activity
    BY <1>2 DEF Idle, Activity, Places
  <2>a. \A b \in BOOLEAN : R(b) \in Activity
    BY <2>0 DEF Activity, Places
  <2>b. \A b : R(b).at = "validate" /\ R(b).plan = q /\ R(b).k = 1
    BY DEF Idle
  <2>c. \A b : R(b).late = b
    BY DEF Idle
  <2> HIDE DEF R
  <2>1. /\ r \in Activity /\ r.at = "validate" /\ r.plan = q /\ r.k = 1 /\ (r.late => q \in dirty)
    <3>1. (q \in dirty) \in BOOLEAN
      OBVIOUS
    <3>2. r \in Activity
      BY <2>a, <3>1, Zenon
    <3>3. r.late = (q \in dirty)
      BY <2>c, Zenon
    <3> QED
      BY <2>b, <3>2, <3>3, Zenon
  <2>2. actor' = [actor EXCEPT ![x] = r]
    BY <1>4 DEF Begin, R
  <2> HIDE DEF r
  <2>3. actor' \in [Actors -> Activity] /\ actor'[x] = r /\ \A y \in Actors \ {x} : actor'[y] = actor[y]
    BY <1>0, <1>1, <2>1, <2>2
  <2>4. plan[q] # None /\ plan' = plan /\ attempt' = attempt
    BY <1>4 DEF Begin
  <2>5. current(x)' = plan[q] /\ Len(plan[q]) \in Nat
    BY <2>1, <2>3, <2>4, PlanEntries DEF current
  <2>6. q \in dirty => \E i \in 1 .. Len(plan[q]) : ~ Bound(plan[q][i])
    BY DEF ActionInv
  <2>7. actor'[x].late => \E i \in actor'[x].k .. Len(plan[q]) : ~ Bound(plan[q][i])'
    BY <2>1, <2>3, <2>4, <2>6 DEF Bound
  <2>8. OwnerInv(x)'
    BY <2>1, <2>3, <2>4, <2>5, <2>7 DEF OwnerInv, Looping, Removing, Bound
  <2>9. RemovalInv(x)'
    BY <2>1, <2>3 DEF RemovalInv, Removing
  <2> QED
    BY <1>0, <2>3, <2>8, <2>9 DEF Fine, ActorOK
<1>5. CASE Validate(x)
  <2>1. actor[x].at = "validate" /\ k <= Len(s) /\ attempt' = attempt
    BY <1>5 DEF Validate, At
  <2>2. CASE Stop(x)
    BY <1>s, <2>2
  <2>3. CASE Bound(candidate(x)) /\ actor' = [actor EXCEPT ![x].k = @ + 1]
    <3> DEFINE r == [actor[x] EXCEPT !.k = k + 1]
    <3>1. k + 1 \in 1 .. NAttempts + 1 /\ k + 1 <= Len(s) + 1
      BY <1>2, <1>3, <2>1
    <3>2. /\ r \in Activity /\ r.at = "validate" /\ r.plan = p /\ r.k = k + 1 /\ r.late = actor[x].late
      BY <1>1, <2>1, <3>1 DEF Activity
    <3>3. actor' = [actor EXCEPT ![x] = r]
      BY <2>3
    <3> HIDE DEF r
    <3>4. actor' \in [Actors -> Activity] /\ actor'[x] = r /\ \A y \in Actors \ {x} : actor'[y] = actor[y]
      BY <1>0, <1>1, <3>2, <3>3
    <3>5. current(x)' = s /\ s = plan[p] /\ Len(s) \in Nat /\ plan'[p] # None
      BY <1>3, <2>1, <3>2, <3>4 DEF current
    <3>6. ASSUME actor'[x].late PROVE \E i \in k + 1 .. Len(s) : ~ Bound(s[i])'
      <4>1. PICK i \in k .. Len(s) : ~ Bound(s[i])
        BY <1>1, <2>1, <3>2, <3>4, <3>6 DEF OwnerInv
      <4>2. i # k
        BY <2>3, <4>1 DEF candidate
      <4>3. i \in k + 1 .. Len(s)
        BY <1>2, <3>5, <4>1, <4>2
      <4>4. ~ Bound(s[i])'
        BY <2>1, <3>5, <4>1 DEF Bound
      <4> QED
        BY <4>3, <4>4
    <3>7. OwnerInv(x)'
      BY <1>3, <2>1, <3>1, <3>2, <3>4, <3>5, <3>6 DEF OwnerInv, Looping, Removing, Bound
    <3>8. RemovalInv(x)'
      BY <3>2, <3>4 DEF RemovalInv, Removing
    <3> QED
      BY <1>0, <3>4, <3>7, <3>8 DEF Fine, ActorOK
  <2> QED
    BY <1>5, <2>2, <2>3 DEF Validate
<1>6. CASE Approve(x)
  <2>1. /\ actor[x].at = "validate" /\ k > Len(s) /\ Take(x, 1)
        /\ action' = [action EXCEPT ![p] = "approved"]
    BY <1>6 DEF Approve, At
  <2>2. ~ actor[x].late
    BY <1>1, <1>2, <1>3, <2>1 DEF OwnerInv
  <2>3. action'[p] # "none"
    BY <1>3, <2>1 DEF TypeOK
  <2>4. 1 \in 1 .. Len(s) + 1
    BY <1>3, <2>1
  <2>5. \A i \in 1 .. 1 - 1 : \A c \in Candidate : c = s[i] => Removed(c)'
    OBVIOUS
  <2>6. ActorOK(x)'
    BY <1>3, <2>1, <2>2, <2>3, <2>4, <2>5, TakeOK
  <2> QED
    BY <1>3, <2>1, <2>4, <2>6, TakeType DEF Fine
<1>7. CASE RemoveFile(x)
  <2>1. actor[x].at = "rm" /\ actor[x].at \in Looping
    BY <1>7 DEF RemoveFile, At, Looping
  <2>2. CASE Throw(x)
    BY <1>0, <2>1, <2>2, ThrowOK
  <2>3. CASE actor' = [actor EXCEPT ![x].left = @ \ {Min(actor[x].left)}]
    <3> DEFINE F == actor[x].left \ {Min(actor[x].left)}
               r == [actor[x] EXCEPT !.left = F]
    <3>1. actor[x].left \subseteq Files
      BY <1>1 DEF Activity
    <3>2. F \in SUBSET Files /\ F \subseteq actor[x].left
      BY <3>1
    <3>3. actor' = [actor EXCEPT ![x] = r]
      BY <2>3
    <3> HIDE DEF F
    <3>4. /\ r \in Activity /\ r.at = "rm" /\ r.plan = p /\ r.k = k /\ r.late = actor[x].late
          /\ r.left = F /\ r.target = actor[x].target
      BY <1>1, <2>1, <3>2 DEF Activity
    <3> HIDE DEF r
    <3>5. actor' \in [Actors -> Activity] /\ actor'[x] = r /\ \A y \in Actors \ {x} : actor'[y] = actor[y]
      BY <1>0, <1>1, <3>3, <3>4
    <3>6. /\ k \in 1 .. Len(s) /\ ~ actor[x].late
          /\ actor[x].target = candidate(x).attempt /\ action'[p] # "none"
      BY <1>3, <2>1, Working DEF Keeps
    <3>7. s = plan[p] /\ plan'[p] = plan[p] /\ plan[p] # None /\ current(x)' = s /\ candidate(x)' = candidate(x)
      BY <1>3, <2>1, <3>4, <3>5 DEF current, candidate
    <3>8. \A i \in 1 .. k - 1 : Removed(current(x)[i])'
      <4> SUFFICES ASSUME NEW i \in 1 .. k - 1 PROVE Removed(current(x)[i])'
        OBVIOUS
      <4>1. Removed(s[i])
        BY <1>1, <2>1 DEF OwnerInv
      <4>2. PICK c \in Candidate : c = s[i]
        BY <1>3, <2>1, <3>6, <3>7
      <4>3. Removed(c)'
        BY <4>1, <4>2, Lasting
      <4> QED
        BY <3>7, <4>2, <4>3 DEF Removed
    <3>9. candidate(x).kind # "workspace" /\ F \subseteq candidate(x).files
      BY <1>1, <2>1, <3>2 DEF OwnerInv
    <3>10. OwnerInv(x)'
      BY <1>3, <2>1, <3>4, <3>5, <3>6, <3>7, <3>8, <3>9 DEF OwnerInv, Looping, Removing
    <3>11. RemovalInv(x)'
      BY <3>4, <3>5 DEF RemovalInv, Removing
    <3> QED
      BY <1>0, <3>5, <3>10, <3>11 DEF Fine, ActorOK
  <2> QED
    BY <1>7, <2>2, <2>3 DEF RemoveFile
<1>8. CASE Tombstone(x)
  <2> DEFINE a == actor[x].target
             c == candidate(x)
             t == [plan |-> p, files |-> c.files]
  <2>1. actor[x].at = "rm" /\ actor[x].at \in Looping /\ actor[x].left = {} /\ Take(x, k + 1)
    BY <1>8 DEF Tombstone, At, Looping
  <2>2. /\ p \in Plans /\ s # None /\ k \in 1 .. Len(s) /\ Len(s) \in Nat /\ c \in Candidate
        /\ a = c.attempt /\ a \in Attempts /\ ~ actor[x].late /\ action'[p] # "none"
    BY <2>1, Working DEF Keeps
  <2>3. attempt'[a] = [attempt[a] EXCEPT !.tomb = t] /\ attempt[a] \in Attempt
    BY <1>8, <2>2 DEF Tombstone, TypeOK
  <2>4. t \in Tomb /\ t # None
    BY <2>2, NoneAssumption DEF Tomb, Candidate, Files
  <2> HIDE DEF t
  <2>5. attempt'[a].files = attempt[a].files /\ attempt'[a].tomb = t
    BY <2>3 DEF Attempt
  <2>6. c.files \cap attempt[a].files = {}
    BY <2>1 DEF DeletedInv, Deleted
  <2>7. c.kind # "workspace" /\ \A i \in 1 .. k - 1 : Removed(s[i])
    BY <1>1, <2>1 DEF OwnerInv
  <2>8. \A i \in 1 .. k + 1 - 1 : \A d \in Candidate : d = s[i] => Removed(d)'
    <3> SUFFICES ASSUME NEW i \in 1 .. k + 1 - 1, NEW d \in Candidate, d = s[i] PROVE Removed(d)'
      OBVIOUS
    <3>1. CASE i = k
      <4>1. d = c
        BY <3>1 DEF candidate
      <4>2. t.files = c.files
        BY DEF t
      <4> QED
        BY <2>2, <2>4, <2>5, <2>6, <2>7, <4>1, <4>2 DEF Removed
    <3>2. CASE i # k
      <4>1. Removed(s[i])
        BY <2>2, <2>7, <3>2
      <4> QED
        BY <4>1, Lasting
    <3> QED
      BY <3>1, <3>2
  <2>9. k + 1 \in 1 .. Len(s) + 1
    BY <2>2
  <2>10. ActorOK(x)'
    BY <2>1, <2>2, <2>8, <2>9, TakeOK
  <2> QED
    BY <2>1, <2>2, <2>9, <2>10, TakeType DEF Fine
<1>9. CASE Complete(x) \/ RecordFailure(x)
  BY <1>9, <1>s DEF Complete, RecordFailure
<1> QED
  BY <1>4, <1>5, <1>6, <1>7, <1>8, <1>9 DEF Apply

\* Every step keeps what the processes rely on.
LEMMA ActorStep ==
    ASSUME TypeOK, AttemptInv, PlanInv, ActorInv, DeletedInv, ActionInv, [Next]_vars
    PROVE  actor' \in [Actors -> Activity] /\ ActorInv'
<1>1. attempt' \in [Attempts -> Attempt] /\ Grows /\ Keeps
  BY Evolution
<1>2. ASSUME NEW x \in Actors, Fine(x) PROVE actor' \in [Actors -> Activity] /\ ActorInv'
  <2>1. \A y \in Actors \ {x} : ActorOK(y)'
    BY <1>1, <1>2, StillOK DEF Fine, ActorInv
  <2> QED
    BY <1>2, <2>1 DEF Fine, ActorInv
<1>3. ASSUME UNCHANGED actor PROVE actor' \in [Actors -> Activity] /\ ActorInv'
  <2>1. \A y \in Actors : ActorOK(y)'
    BY <1>1, <1>3, StillOK DEF ActorInv
  <2> QED
    BY <1>3, <2>1 DEF ActorInv, TypeOK
<1>4. ASSUME NEW x \in Callers, NEW a \in Attempts, Call(x, a) PROVE Fine(x)
  <2> DEFINE r == [actor[x] EXCEPT !.at = "check", !.target = a]
  <2>0. x \in Actors /\ x \notin Owners /\ actor \in [Actors -> Activity]
    BY ActorsAssumption DEF Actors, TypeOK
  <2>1. r \in Activity /\ r.at = "check" /\ r.target = a
    BY <2>0 DEF Activity, Places
  <2>2. actor' = [actor EXCEPT ![x] = r]
    BY <1>4 DEF Call
  <2> HIDE DEF r
  <2>3. actor' \in [Actors -> Activity] /\ actor'[x] = r /\ \A y \in Actors \ {x} : actor'[y] = actor[y]
    BY <2>0, <2>1, <2>2
  <2> QED
    BY <2>0, <2>1, <2>3 DEF Fine, ActorOK, RemovalInv, Removing
<1>5. ASSUME NEW x \in Actors, Crash(x) PROVE Fine(x)
  BY <1>5, MoveType, StopOK DEF Crash, Fine
<1>6. \A x \in Owners : x \in Actors /\ (Apply(x) => Fine(x))
  BY <1>1, ApplyFine DEF Actors
<1>7. \A x \in Actors : RemoveWorkspace(x) => Fine(x)
  BY <1>1, RemovalFine
<1>8. \/ UNCHANGED actor \/ \E x \in Owners : Apply(x)
      \/ \E x \in Callers, a \in Attempts : Call(x, a)
      \/ \E x \in Actors : RemoveWorkspace(x) \/ Crash(x)
  BY DEF Next, vars, Finish, RemoveOwn, Expire, DryRun
<1>9. \A x \in Callers : x \in Actors
  BY DEF Actors
<1> QED
  BY <1>2, <1>3, <1>4, <1>5, <1>6, <1>7, <1>8, <1>9

-----------------------------------------------------------------------------
(* What a step does to the files, the tombstones and the deletions         *)

\* The removal of a file that succeeds.
Removes(x) ==
    LET f == Min(actor[x].left) IN
    /\ actor[x].at = "rm" /\ actor[x].left # {} /\ f \in attempt[actor[x].target].files
    /\ attempt' = [attempt EXCEPT ![actor[x].target].files = @ \ {f}]
    /\ actor' = [actor EXCEPT ![x].left = @ \ {f}]
    /\ dirty' = dirty \cup {actor[x].plan}
    /\ UNCHANGED <<plan, action, count>>

\* A change of an attempt that removes no file and writes no tombstone.
Quiet(A, B) ==
    /\ B.files = A.files /\ B.tomb = A.tomb
    /\ B.ws = A.ws \/ B.ws \in {"pending", "failed"} \/ (B.ws = "proven" /\ ~ B.worktree)
AllQuiet == \A a \in Attempts : Quiet(attempt[a], attempt'[a])

LEMMA OneQuiet ==
    ASSUME TypeOK, NEW a \in Attempts, NEW r, Quiet(attempt[a], r), attempt' = [attempt EXCEPT ![a] = r]
    PROVE  AllQuiet
<1>1. attempt'[a] = r /\ \A b \in Attempts \ {a} : attempt'[b] = attempt[b]
  BY DEF TypeOK
<1>2. \A b \in Attempts : Quiet(attempt[b], attempt[b])
  BY DEF Quiet
<1> QED
  BY <1>1, <1>2 DEF AllQuiet

\* Every step removes one file, writes one tombstone, or neither.
LEMMA Effects ==
    ASSUME TypeOK, PlanInv, ActorInv, [Next]_vars,
           ~ \E x \in Owners : Removes(x), ~ \E x \in Owners : Tombstone(x)
    PROVE  AllQuiet
<1>t. attempt \in [Attempts -> Attempt]
  BY DEF TypeOK
<1>a. UNCHANGED attempt => AllQuiet
  BY DEF AllQuiet, Quiet
<1>1. ASSUME NEW a \in Attempts, NEW e \in BOOLEAN, NEW r \in {"proven", "unknown"}, Finish(a, e, r)
      PROVE  AllQuiet
  <2> DEFINE B == [[attempt[a] EXCEPT !.status = "terminal", !.eligible = e, !.proc = r]
                      EXCEPT !.crev = attempt[a].crev + 1]
  <2>1. Quiet(attempt[a], B)
    BY <1>t DEF Quiet, Attempt
  <2>2. attempt' = [attempt EXCEPT ![a] = B]
    BY <1>1 DEF Finish, Cleanup
  <2> HIDE DEF B
  <2> QED
    BY <2>1, <2>2, OneQuiet
<1>2. ASSUME NEW a \in Attempts, RemoveOwn(a)
      PROVE  AllQuiet
  <2> DEFINE B == [[attempt[a] EXCEPT !.worktree = FALSE, !.ws = "proven"] EXCEPT !.crev = attempt[a].crev + 1]
             C == [[attempt[a] EXCEPT !.ws = "failed"] EXCEPT !.crev = attempt[a].crev + 1]
  <2>1. Quiet(attempt[a], B) /\ Quiet(attempt[a], C)
    BY <1>t DEF Quiet, Attempt
  <2>2. attempt' = [attempt EXCEPT ![a] = B] \/ attempt' = [attempt EXCEPT ![a] = C]
    BY <1>2 DEF RemoveOwn, Cleanup
  <2> HIDE DEF B, C
  <2> QED
    BY <2>1, <2>2, OneQuiet
<1>3. ASSUME NEW a \in Attempts, Expire(a)
      PROVE  AllQuiet
  <2> DEFINE B == [attempt[a] EXCEPT !.expired = TRUE]
  <2>1. Quiet(attempt[a], B)
    BY <1>t DEF Quiet, Attempt
  <2>2. attempt' = [attempt EXCEPT ![a] = B]
    BY <1>3 DEF Expire
  <2> HIDE DEF B
  <2> QED
    BY <2>1, <2>2, OneQuiet
<1>4. ASSUME NEW x \in Owners, Apply(x)
      PROVE  AllQuiet
  <2>1. RemoveFile(x) => UNCHANGED attempt
    BY DEF RemoveFile, Removes, At
  <2> QED
    BY <1>4, <1>a, <2>1 DEF Apply, Begin, Validate, Approve, Complete, RecordFailure
<1>5. ASSUME NEW x \in Actors, RemoveWorkspace(x)
      PROVE  AllQuiet
  <2> DEFINE a == actor[x].target
             B(w) == [[attempt[a] EXCEPT !.ws = w] EXCEPT !.crev = attempt[a].crev + 1]
             C == [attempt[a] EXCEPT !.worktree = FALSE]
  <2>1. CASE CheckRemoval(x) \/ LookForWorktree(x)
    BY <1>a, <2>1 DEF CheckRemoval, LookForWorktree
  <2>2. CASE Register(x) \/ GitRemove(x) \/ AppendProven(x) \/ AppendFailed(x)
    <3>0. a \in Attempts /\ attempt[a] \in Attempt
      BY <2>2, <1>t DEF Register, GitRemove, AppendProven, AppendFailed, At, ActorInv, ActorOK, RemovalInv, Removing
    <3>1. \A w \in {"pending", "failed"} : Quiet(attempt[a], B(w))
      BY <3>0 DEF Quiet, Attempt
    <3>2. Quiet(attempt[a], C)
      BY <3>0 DEF Quiet, Attempt
    <3>3. AppendProven(x) => Quiet(attempt[a], B("proven"))
      BY <3>0 DEF Quiet, Attempt, AppendProven, At, ActorInv, ActorOK, RemovalInv
    <3>4. \/ UNCHANGED attempt \/ attempt' = [attempt EXCEPT ![a] = C]
          \/ \E w \in {"pending", "failed"} : attempt' = [attempt EXCEPT ![a] = B(w)]
          \/ AppendProven(x) /\ attempt' = [attempt EXCEPT ![a] = B("proven")]
      BY <2>2 DEF Register, GitRemove, AppendProven, AppendFailed, Cleanup
    <3> HIDE DEF B, C
    <3> QED
      BY <1>a, <3>0, <3>1, <3>2, <3>3, <3>4, OneQuiet
  <2> QED
    BY <1>5, <2>1, <2>2 DEF RemoveWorkspace
<1> QED
  BY <1>1, <1>2, <1>3, <1>4, <1>5, <1>a DEF Next, vars, DryRun, Call, Crash

\* The verdicts, the worktrees and the files of the attempts still agree.
LEMMA AttemptStep ==
    ASSUME TypeOK, AttemptInv, PlanInv, ActorInv, DeletedInv, [Next]_vars
    PROVE  AttemptInv'
<1>1. attempt' \in [Attempts -> Attempt] /\ Grows
  BY Evolution
<1> SUFFICES ASSUME NEW a \in Attempts
             PROVE  /\ attempt'[a].files # Files => Prunable(a)' /\ ~ attempt'[a].worktree
                    /\ attempt'[a].ws = "proven" => ~ attempt'[a].worktree
                    /\ a \notin Retained => attempt'[a].ws # "none"
  BY DEF AttemptInv
<1>2. /\ attempt[a].files # Files => Prunable(a) /\ ~ attempt[a].worktree
      /\ attempt[a].ws = "proven" => ~ attempt[a].worktree
      /\ a \notin Retained => attempt[a].ws # "none"
  BY DEF AttemptInv
<1>3. GrowsTo(attempt[a], attempt'[a]) /\ attempt[a] \in Attempt /\ attempt'[a] \in Attempt
  BY <1>1 DEF Grows, TypeOK
<1>4. Prunable(a) => Prunable(a)'
  BY <1>3 DEF Prunable, GrowsTo, Attempt
<1>5. CASE AllQuiet
  BY <1>2, <1>3, <1>4, <1>5 DEF AllQuiet, Quiet, GrowsTo
<1>6. ASSUME NEW x \in Owners, Removes(x)
      PROVE  /\ attempt'[a].files # Files => Prunable(a)' /\ ~ attempt'[a].worktree
             /\ attempt'[a].ws = attempt[a].ws
  <2> DEFINE F == attempt[a].files \ {Min(actor[x].left)}
             c == candidate(x)
  <2>1. actor[x].at = "rm"
    BY <1>6 DEF Removes
  <2>2. Entry(c) /\ actor[x].target = c.attempt
    BY <2>1, Working DEF Looping
  <2>3. c.kind # "workspace"
    BY <2>1 DEF ActorInv, ActorOK, OwnerInv, Actors
  <2>4. Prunable(actor[x].target) /\ ~ attempt[actor[x].target].worktree
    BY <2>2, <2>3 DEF Entry
  <2>5. CASE a = actor[x].target
    <3>1. attempt'[a] = [attempt[a] EXCEPT !.files = F]
      BY <1>6, <2>5 DEF Removes, TypeOK
    <3>2. attempt'[a].ws = attempt[a].ws
      BY <1>3, <3>1 DEF Attempt
    <3> QED
      BY <1>3, <1>4, <2>4, <2>5, <3>2 DEF GrowsTo
  <2>6. CASE a # actor[x].target
    <3>1. attempt'[a] = attempt[a]
      BY <1>6, <2>6 DEF Removes, TypeOK
    <3> QED
      BY <1>2, <1>4, <3>1
  <2> QED
    BY <2>5, <2>6
<1>7. ASSUME NEW x \in Owners, Tombstone(x)
      PROVE  attempt'[a].files = attempt[a].files /\ attempt'[a].ws = attempt[a].ws
  <2> DEFINE t == [plan |-> actor[x].plan, files |-> candidate(x).files]
  <2>1. attempt' = [attempt EXCEPT ![actor[x].target].tomb = t]
    BY <1>7 DEF Tombstone
  <2> HIDE DEF t
  <2> QED
    BY <1>3, <2>1 DEF TypeOK, Attempt
<1> QED
  BY <1>2, <1>3, <1>4, <1>5, <1>6, <1>7, Effects DEF GrowsTo

\* The removal of a file, seen from the attempt and from the process.
LEMMA RemovesFacts ==
    ASSUME TypeOK, PlanInv, ActorInv, DeletedInv, NEW x \in Owners, Removes(x)
    PROVE  \E f \in Files, a \in Attempts :
             /\ a = actor[x].target /\ f \in actor[x].left /\ f \in attempt[a].files /\ f \in candidate(x).files
             /\ attempt'[a].files = attempt[a].files \ {f}
             /\ \A b \in Attempts : /\ attempt'[b].tomb = attempt[b].tomb
                                    /\ attempt'[b].files \subseteq attempt[b].files
             /\ actor'[x].at = "rm" /\ actor'[x].target = a /\ actor'[x].left = actor[x].left \ {f}
             /\ candidate(x)' = candidate(x) /\ candidate(x).kind # "workspace"
             /\ \A y \in Owners \ {x} : actor'[y] = actor[y]
             /\ plan' = plan /\ action' = action /\ dirty' = dirty \cup {actor[x].plan}
<1> DEFINE f == Min(actor[x].left)
           a == actor[x].target
           F == attempt[a].files \ {f}
           L == actor[x].left \ {f}
<1>1. x \in Actors /\ actor \in [Actors -> Activity] /\ attempt \in [Attempts -> Attempt]
  BY DEF Actors, TypeOK
<1>2. actor[x].at = "rm" /\ actor[x].left # {} /\ f \in attempt[a].files
  BY DEF Removes
<1>3. a \in Attempts
  BY <1>2, Working DEF Looping
<1>4. actor[x].left \in SUBSET Files
  BY <1>1 DEF Activity
<1>5. f \in actor[x].left /\ f \in Files
  BY <1>2, <1>4, NextFile
<1>6. candidate(x).kind # "workspace" /\ f \in candidate(x).files
  BY <1>1, <1>2, <1>5 DEF ActorInv, ActorOK, OwnerInv
<1>7. attempt' = [attempt EXCEPT ![a] = [attempt[a] EXCEPT !.files = F]]
  BY DEF Removes
<1>8. actor' = [actor EXCEPT ![x] = [actor[x] EXCEPT !.left = L]]
  BY DEF Removes
<1>9. plan' = plan /\ action' = action /\ dirty' = dirty \cup {actor[x].plan}
  BY DEF Removes
<1> HIDE DEF f, F, L
<1>10. attempt'[a].files = F
  BY <1>1, <1>3, <1>7 DEF Attempt
<1>11. \A b \in Attempts : attempt'[b].tomb = attempt[b].tomb /\ attempt'[b].files \subseteq attempt[b].files
  BY <1>1, <1>3, <1>7 DEF Attempt, F
<1>12. /\ actor'[x].at = "rm" /\ actor'[x].target = a /\ actor'[x].left = L
       /\ actor'[x].plan = actor[x].plan /\ actor'[x].k = actor[x].k
  BY <1>1, <1>2, <1>8 DEF Activity
<1>13. \A y \in Owners \ {x} : actor'[y] = actor[y]
  BY <1>1, <1>8 DEF Actors
<1>14. candidate(x)' = candidate(x)
  BY <1>9, <1>12 DEF candidate, current
<1> QED
  BY <1>2, <1>3, <1>5, <1>6, <1>9, <1>10, <1>11, <1>12, <1>13, <1>14 DEF F, L

\* The tombstone, seen from the attempt.
LEMMA TombstoneFacts ==
    ASSUME TypeOK, PlanInv, ActorInv, DeletedInv, NEW x \in Owners, Tombstone(x)
    PROVE  LET a == actor[x].target
               c == candidate(x) IN
           /\ actor[x].at = "rm" /\ a \in Attempts /\ c \in Candidate /\ Artifacts(c, a)
           /\ Deleted(x) = c.files /\ c.files \cap attempt[a].files = {}
           /\ attempt[a].tomb = None /\ attempt'[a].tomb.files = c.files
           /\ \A b \in Attempts : attempt'[b].files = attempt[b].files
           /\ \A b \in Attempts \ {a} : attempt'[b] = attempt[b]
<1> DEFINE a == actor[x].target
           c == candidate(x)
           t == [plan |-> actor[x].plan, files |-> c.files]
<1>1. x \in Actors /\ actor[x].at = "rm" /\ actor[x].left = {} /\ attempt \in [Attempts -> Attempt]
  BY DEF Actors, TypeOK, Tombstone, At
<1>2. a \in Attempts /\ c \in Candidate /\ Listed(c) /\ a = c.attempt
  BY <1>1, Working DEF Looping
<1>3. c.kind # "workspace"
  BY <1>1 DEF ActorInv, ActorOK, OwnerInv
<1>4. Deleted(x) = c.files
  BY <1>1 DEF Deleted
<1>5. c.files \cap attempt[a].files = {}
  BY <1>1, <1>4 DEF DeletedInv
<1>6. attempt[a].tomb = None
  BY <1>1, TombOnce
<1>7. attempt' = [attempt EXCEPT ![a] = [attempt[a] EXCEPT !.tomb = t]]
  BY DEF Tombstone
<1>8. t.files = c.files
  OBVIOUS
<1> HIDE DEF t, c
<1>9. /\ attempt'[a].tomb = t /\ \A b \in Attempts : attempt'[b].files = attempt[b].files
      /\ \A b \in Attempts \ {a} : attempt'[b] = attempt[b]
  BY <1>1, <1>2, <1>7 DEF Attempt
<1> QED
  BY <1>1, <1>2, <1>3, <1>4, <1>5, <1>6, <1>8, <1>9 DEF Artifacts, c

\* An owner that is removing files after a step was doing so before it, or begins.
LEMMA RemovalOrigin ==
    ASSUME TypeOK, PlanInv, ActorInv, DeletedInv, [Next]_vars, ~ \E y \in Owners : Removes(y),
           NEW x \in Owners, actor'[x].at = "rm"
    PROVE  \/ actor'[x] = actor[x] /\ Deleted(x)' = Deleted(x)
           \/ Deleted(x)' = {}
<1>0. x \in Actors /\ x \notin Callers /\ Keeps /\ actor \in [Actors -> Activity]
  BY ActorsAssumption, Evolution DEF Actors, TypeOK
<1>1. ASSUME actor'[x] = actor[x] PROVE Deleted(x)' = Deleted(x)
  <2>1. actor[x].plan \in Plans /\ current(x) # None
    BY <1>0, <1>1, Working DEF Looping
  <2>2. current(x)' = current(x)
    BY <1>0, <1>1, <2>1 DEF current, Keeps
  <2> QED
    BY <1>1, <2>2 DEF Deleted, candidate
<1>2. ASSUME NEW k \in 1 .. Len(current(x)) + 1, Take(x, k), actor[x].plan \in Plans, current(x) # None
      PROVE  Deleted(x)' = {}
  <2>1. /\ actor'[x].k = k /\ actor'[x].plan = actor[x].plan
        /\ actor'[x].at = IF k > Len(current(x)) THEN "complete"
                          ELSE IF current(x)[k].kind = "workspace" THEN "check" ELSE "rm"
        /\ k <= Len(current(x)) => actor'[x].left = current(x)[k].files
    BY <1>2, TakeType
  <2>2. Len(current(x)) \in Nat
    BY <1>2, PlanEntries DEF current
  <2>3. k <= Len(current(x))
    BY <2>1, <2>2
  <2>4. current(x)' = current(x)
    BY <1>0, <1>2, <2>1 DEF current, Keeps
  <2> QED
    BY <2>1, <2>3, <2>4 DEF Deleted, candidate
<1>3. ASSUME actor[x].at \in Looping, Take(x, actor[x].k + 1) PROVE Deleted(x)' = {}
  <2>1. /\ actor[x].k \in 1 .. Len(current(x)) /\ Len(current(x)) \in Nat
        /\ actor[x].plan \in Plans /\ current(x) # None
    BY <1>3, Working
  <2> QED
    BY <1>2, <1>3, <2>1
<1>4. ~ Stop(x)
  BY <1>0, MoveType DEF Idle
<1>5. ~ (\E place \in Places \ {"rm"} : Goto(x, place))
  BY <1>0, MoveType
<1>6. ~ Throw(x)
  BY <1>4, <1>5 DEF Throw, Places
<1>7. ASSUME Apply(x) PROVE Deleted(x)' = {}
  <2>1. CASE \E p \in Plans : Begin(x, p)
    <3>1. PICK p \in Plans : Begin(x, p)
      BY <2>1
    <3>2. actor'[x].at = "validate"
      BY <1>0, <3>1 DEF Begin, Idle
    <3> QED
      BY <3>2
  <2>2. CASE Validate(x)
    <3>1. actor[x].at = "validate" /\ (Stop(x) \/ actor' = [actor EXCEPT ![x].k = @ + 1])
      BY <2>2 DEF Validate, At
    <3>2. actor'[x].at = "validate"
      BY <1>0, <1>4, <3>1 DEF Activity
    <3> QED
      BY <3>2
  <2>3. CASE Approve(x)
    <3>1. actor[x].at = "validate" /\ Take(x, 1)
      BY <2>3 DEF Approve, At
    <3>2. actor[x].plan \in Plans /\ current(x) # None
      BY <1>0, <3>1 DEF ActorInv, ActorOK, OwnerInv
    <3>3. Len(current(x)) \in Nat
      BY <3>2, PlanEntries DEF current
    <3> QED
      BY <1>2, <3>1, <3>2, <3>3
  <2>4. CASE RemoveFile(x)
    BY <1>6, <2>4 DEF RemoveFile, Removes, At
  <2>5. CASE Tombstone(x)
    BY <1>3, <2>5 DEF Tombstone, At, Looping
  <2>6. CASE Complete(x) \/ RecordFailure(x)
    BY <1>4, <2>6 DEF Complete, RecordFailure
  <2> QED
    BY <1>7, <2>1, <2>2, <2>3, <2>4, <2>5, <2>6 DEF Apply
<1>8. ASSUME RemoveWorkspace(x) PROVE Deleted(x)' = {}
  <2>1. actor[x].at \in Looping
    BY <1>8 DEF RemoveWorkspace, CheckRemoval, Register, LookForWorktree, GitRemove, AppendProven, AppendFailed,
         At, Removing, Looping
  <2>2. \/ Throw(x)
        \/ Return(x)
        \/ \E place \in Removing : Goto(x, place)
    BY <1>8 DEF RemoveWorkspace, CheckRemoval, Register, LookForWorktree, GitRemove, AppendProven, AppendFailed,
         Removing
  <2>3. Return(x) => Take(x, actor[x].k + 1)
    BY DEF Return
  <2>4. Removing \subseteq Places \ {"rm"}
    BY DEF Removing, Places
  <2> QED
    BY <1>3, <1>5, <1>6, <2>1, <2>2, <2>3, <2>4
<1>9. ASSUME NEW y \in Actors \ {x}, (Apply(y) /\ y \in Owners) \/ RemoveWorkspace(y) \/ Crash(y)
      PROVE  actor'[x] = actor[x]
  <2>1. ASSUME NEW k, Take(y, k) PROVE actor'[x] = actor[x]
    BY <1>0, <1>9, <2>1 DEF Take
  <2>2. Stop(y) => actor'[x] = actor[x]
    BY <1>0, <1>9, MoveType
  <2>3. ASSUME NEW place, Goto(y, place) PROVE actor'[x] = actor[x]
    BY <1>0, <1>9, <2>3 DEF Goto
  <2>4. Throw(y) \/ Return(y) => actor'[x] = actor[x]
    BY <2>1, <2>2, <2>3 DEF Throw, Return
  <2>5. CASE Apply(y) /\ y \in Owners
    <3>1. CASE (\E p \in Plans : Begin(y, p)) \/ Validate(y) \/ RemoveFile(y)
      BY <1>0, <1>9, <2>2, <2>4, <3>1 DEF Begin, Validate, RemoveFile
    <3>2. CASE Approve(y) \/ Tombstone(y) \/ Complete(y) \/ RecordFailure(y)
      BY <2>1, <2>2, <3>2 DEF Approve, Tombstone, Complete, RecordFailure
    <3> QED
      BY <2>5, <3>1, <3>2 DEF Apply
  <2>6. CASE RemoveWorkspace(y)
    <3>1. \/ Throw(y)
          \/ Return(y)
          \/ \E place \in Removing : Goto(y, place)
      BY <2>6 DEF RemoveWorkspace, CheckRemoval, Register, LookForWorktree, GitRemove, AppendProven, AppendFailed,
           Removing
    <3> QED
      BY <2>3, <2>4, <3>1
  <2>7. CASE Crash(y)
    BY <2>2, <2>7 DEF Crash
  <2> QED
    BY <1>9, <2>5, <2>6, <2>7
<1>10. ASSUME NEW y \in Callers, NEW a \in Attempts, Call(y, a) PROVE actor'[x] = actor[x]
  BY <1>0, <1>10 DEF Call, Actors
<1>11. ~ Crash(x)
  BY <1>4 DEF Crash
<1>12. \/ UNCHANGED actor
       \/ \E y \in Owners : Apply(y)
       \/ \E y \in Callers, a \in Attempts : Call(y, a)
       \/ \E y \in Actors : RemoveWorkspace(y) \/ Crash(y)
  BY DEF Next, vars, Finish, RemoveOwn, Expire, DryRun
<1>13. actor'[x] = actor[x] \/ Apply(x) \/ RemoveWorkspace(x)
  BY <1>9, <1>10, <1>11, <1>12 DEF Actors
<1> QED
  BY <1>1, <1>7, <1>8, <1>13

\* Still no file is deleted twice.
LEMMA DeletedStep ==
    ASSUME TypeOK, AttemptInv, PlanInv, ActorInv, DeletedInv, ActionInv, [Next]_vars
    PROVE  DeletedInv'
<1> DEFINE D(x, y) == actor[y].at = "rm" /\ actor[y].target = actor[x].target
                         => Deleted(x) \cap Deleted(y) = {}
<1>1. Grows
  BY Evolution
<1>2. ASSUME NEW x \in Owners, actor[x].at = "rm"
      PROVE  /\ actor[x].target \in Attempts
             /\ Deleted(x) \cap attempt[actor[x].target].files = {}
             /\ attempt[actor[x].target].tomb # None =>
                   Deleted(x) \cap attempt[actor[x].target].tomb.files = {}
             /\ \A y \in Owners \ {x} : D(x, y)
  BY <1>2, Working DEF Looping, DeletedInv
<1>3. CASE \E y \in Owners : Removes(y)
  <2>1. PICK y \in Owners : Removes(y)
    BY <1>3
  <2>2. PICK f \in Files, a \in Attempts :
             /\ a = actor[y].target /\ f \in actor[y].left /\ f \in attempt[a].files /\ f \in candidate(y).files
             /\ attempt'[a].files = attempt[a].files \ {f}
             /\ \A b \in Attempts : /\ attempt'[b].tomb = attempt[b].tomb
                                    /\ attempt'[b].files \subseteq attempt[b].files
             /\ actor'[y].at = "rm" /\ actor'[y].target = a /\ actor'[y].left = actor[y].left \ {f}
             /\ candidate(y)' = candidate(y)
             /\ \A z \in Owners \ {y} : actor'[z] = actor[z]
             /\ plan' = plan
    BY <2>1, RemovesFacts
  <2>3. actor[y].at = "rm" /\ actor[y].target = a
    BY <2>1, <2>2 DEF Removes
  <2>4. Deleted(y)' = Deleted(y) \cup {f} /\ \A z \in Owners \ {y} : Deleted(z)' = Deleted(z)
    <3>1. Deleted(y)' = Deleted(y) \cup {f}
      BY <2>2 DEF Deleted
    <3>2. \A z \in Owners \ {y} : Deleted(z)' = Deleted(z)
      BY <2>2 DEF Deleted, candidate, current
    <3> QED
      BY <3>1, <3>2
  <2>5. attempt[a].tomb # None => f \notin attempt[a].tomb.files
    BY <2>2 DEF PlanInv
  <2>6. \A z \in Owners \ {y} : actor[z].at = "rm" /\ actor[z].target = a => f \notin Deleted(z)
    BY <1>2, <2>2
  <2>7. ASSUME NEW x \in Owners, actor'[x].at = "rm"
        PROVE  /\ Deleted(x)' \cap attempt'[actor'[x].target].files = {}
               /\ attempt'[actor'[x].target].tomb # None =>
                     Deleted(x)' \cap attempt'[actor'[x].target].tomb.files = {}
    <3>1. CASE x = y
      BY <1>2, <2>2, <2>3, <2>4, <2>5, <3>1
    <3>2. CASE x # y
      <4>1. actor'[x] = actor[x] /\ Deleted(x)' = Deleted(x) /\ actor[x].target \in Attempts
        BY <1>2, <2>2, <2>4, <2>7, <3>2
      <4> QED
        BY <1>2, <2>2, <2>7, <4>1
    <3> QED
      BY <3>1, <3>2
  <2>8. ASSUME NEW x \in Owners, actor'[x].at = "rm", NEW z \in Owners \ {x},
               actor'[z].at = "rm", actor'[z].target = actor'[x].target
        PROVE  Deleted(x)' \cap Deleted(z)' = {}
    <3>1. CASE x = y
      <4>1. actor'[z] = actor[z] /\ Deleted(z)' = Deleted(z) /\ actor[z].target = a
        BY <2>2, <2>4, <2>8, <3>1
      <4> QED
        BY <1>2, <2>3, <2>4, <2>6, <2>8, <3>1, <4>1
    <3>2. CASE z = y
      <4>1. actor'[x] = actor[x] /\ Deleted(x)' = Deleted(x) /\ actor[x].target = a
        BY <2>2, <2>4, <2>8, <3>2
      <4> QED
        BY <1>2, <2>3, <2>4, <2>6, <2>8, <3>2, <4>1
    <3>3. CASE x # y /\ z # y
      BY <1>2, <2>2, <2>4, <2>8, <3>3
    <3> QED
      BY <3>1, <3>2, <3>3
  <2> QED
    BY <2>7, <2>8 DEF DeletedInv
<1>4. CASE ~ \E y \in Owners : Removes(y)
  <2>1. ASSUME NEW x \in Owners, actor'[x].at = "rm"
        PROVE  \/ actor'[x] = actor[x] /\ Deleted(x)' = Deleted(x)
               \/ Deleted(x)' = {}
    BY <1>4, <2>1, RemovalOrigin
  <2>2. ASSUME NEW x \in Owners, actor'[x].at = "rm", NEW z \in Owners \ {x},
               actor'[z].at = "rm", actor'[z].target = actor'[x].target
        PROVE  Deleted(x)' \cap Deleted(z)' = {}
    BY <1>2, <2>1, <2>2
  <2>3. ASSUME NEW x \in Owners, actor'[x].at = "rm", actor'[x] = actor[x], Deleted(x)' = Deleted(x)
        PROVE  /\ Deleted(x)' \cap attempt'[actor'[x].target].files = {}
               /\ attempt'[actor'[x].target].tomb # None =>
                     Deleted(x)' \cap attempt'[actor'[x].target].tomb.files = {}
    <3> DEFINE a == actor[x].target
    <3>1. actor[x].at = "rm" /\ a \in Attempts
      BY <1>2, <2>3
    <3>2. Deleted(x) \cap attempt'[a].files = {}
      BY <1>1, <1>2, <3>1 DEF Grows, GrowsTo
    <3>3. CASE attempt'[a].tomb = attempt[a].tomb
      BY <1>2, <2>3, <3>1, <3>2, <3>3
    <3>4. CASE attempt'[a].tomb # attempt[a].tomb
      <4>1. PICK y \in Owners : Tombstone(y)
        BY <1>4, <3>1, <3>4, Effects DEF AllQuiet, Quiet
      <4>2. /\ actor[y].at = "rm" /\ Deleted(y) = candidate(y).files
            /\ attempt'[actor[y].target].tomb.files = candidate(y).files
            /\ \A b \in Attempts \ {actor[y].target} : attempt'[b] = attempt[b]
        BY <4>1, TombstoneFacts
      <4>3. a = actor[y].target
        BY <3>1, <3>4, <4>2
      <4>4. x # y
        <5>1. ASSUME x = y PROVE FALSE
          <6>1. actor[x].at = "rm" /\ Take(x, actor[x].k + 1)
            BY <4>1, <5>1 DEF Tombstone, At
          <6>2. /\ actor[x].k \in 1 .. Len(current(x)) /\ Len(current(x)) \in Nat
                /\ actor[x].plan \in Plans /\ current(x) # None
            BY <6>1, Working DEF Looping
          <6>3. actor[x].k + 1 \in 1 .. Len(current(x)) + 1
            BY <6>2
          <6>4. actor'[x].k = actor[x].k + 1
            BY <6>1, <6>2, <6>3, TakeType
          <6> QED
            BY <2>3, <6>2, <6>4
        <5> QED
          BY <5>1
      <4>5. Deleted(x) \cap Deleted(y) = {}
        BY <1>2, <3>1, <4>2, <4>3, <4>4
      <4> QED
        BY <2>3, <3>2, <4>2, <4>3, <4>5
    <3> QED
      BY <3>3, <3>4
  <2>4. ASSUME NEW x \in Owners, actor'[x].at = "rm"
        PROVE  /\ Deleted(x)' \cap attempt'[actor'[x].target].files = {}
               /\ attempt'[actor'[x].target].tomb # None =>
                     Deleted(x)' \cap attempt'[actor'[x].target].tomb.files = {}
    <3>1. CASE Deleted(x)' = {}
      BY <3>1
    <3> QED
      BY <2>1, <2>3, <2>4, <3>1
  <2> QED
    BY <2>2, <2>4 DEF DeletedInv
<1> QED
  BY <1>3, <1>4

\* Only a dry run changes a plan.
LEMMA PlanChange ==
    ASSUME [Next]_vars
    PROVE  plan' = plan \/ \E p \in Plans : DryRun(p)
  BY DEF Next, vars, Finish, RemoveOwn, Expire, Apply, Begin, Validate, Approve, RemoveFile, Tombstone,
         Complete, RecordFailure, RemoveWorkspace, CheckRemoval, Register, LookForWorktree, GitRemove,
         AppendProven, AppendFailed, Call, Crash

LEMMA PlanType ==
    ASSUME TypeOK, AttemptInv, PlanInv, [Next]_vars
    PROVE  /\ plan' \in [Plans -> {None} \cup Seq(Candidate)]
           /\ \A p \in Plans : plan'[p] # None => Len(plan'[p]) <= NAttempts
<1>1. CASE plan' = plan
  BY <1>1 DEF PlanInv, TypeOK
<1>2. ASSUME NEW p \in Plans, DryRun(p)
      PROVE  /\ plan' \in [Plans -> {None} \cup Seq(Candidate)]
             /\ \A q \in Plans : plan'[q] # None => Len(plan'[q]) <= NAttempts
  <2>1. PICK s \in candidates : plan' = [plan EXCEPT ![p] = s]
    BY <1>2 DEF DryRun
  <2>2. s \in Seq(Candidate) /\ Len(s) <= NAttempts
    BY ListingIsPlan
  <2> QED
    BY <2>1, <2>2 DEF TypeOK, PlanInv
<1> QED
  BY <1>1, <1>2, PlanChange

\* The candidates of a plan after a step were listed before it, or a dry run adds them.
LEMMA ListedStep ==
    ASSUME TypeOK, AttemptInv, PlanInv, ActorInv, DeletedInv, [Next]_vars, NEW c \in Candidate
    PROVE  /\ Listed(c) => Listed(c)'
           /\ Listed(c)' => \/ Listed(c)
                            \/ /\ attempt' = attempt /\ Proposed(c.attempt) = {c} /\ Entry(c)
                               /\ c.kind # "workspace" => c.files = attempt[c.attempt].files
<1>1. Listed(c) => Listed(c)'
  <2>1. Keeps
    BY Evolution
  <2> QED
    BY <2>1 DEF Listed, Keeps
<1>2. CASE plan' = plan
  BY <1>1, <1>2 DEF Listed
<1>3. ASSUME NEW p \in Plans, DryRun(p), Listed(c)', ~ Listed(c)
      PROVE  /\ attempt' = attempt /\ Proposed(c.attempt) = {c} /\ Entry(c)
             /\ c.kind # "workspace" => c.files = attempt[c.attempt].files
  <2>1. PICK s \in candidates : plan' = [plan EXCEPT ![p] = s] /\ attempt' = attempt
    BY <1>3 DEF DryRun
  <2>2. \A i \in 1 .. Len(s) : s[i].attempt \in Attempts /\ s[i] \in Proposed(s[i].attempt)
    BY ListingIsPlan
  <2>3. plan'[p] = s /\ \A q \in Plans \ {p} : plan'[q] = plan[q]
    BY <2>1 DEF TypeOK
  <2>4. \E i \in 1 .. Len(s) : c = s[i]
    BY <1>3, <2>3 DEF Listed
  <2>5. c.attempt \in Attempts /\ c \in Proposed(c.attempt)
    BY <2>2, <2>4
  <2> QED
    BY <2>1, <2>5, ProposedIsTrue
<1> QED
  BY <1>1, <1>2, <1>3, PlanChange

\* The plans still say the truth.
LEMMA PlanStep ==
    ASSUME TypeOK, AttemptInv, PlanInv, ActorInv, DeletedInv, [Next]_vars
    PROVE  PlanInv'
<1>1. attempt' \in [Attempts -> Attempt] /\ Grows
  BY Evolution
<1>2. \A p \in Plans : plan'[p] # None => Len(plan'[p]) <= NAttempts
  BY PlanType
<1>3. ASSUME NEW c \in Candidate, Listed(c)' PROVE Entry(c)'
  <2>1. Entry(c)
    BY <1>3, ListedStep DEF PlanInv
  <2> QED
    BY <1>1, <2>1, Lasting
<1>4. ASSUME NEW a \in Attempts, NEW c \in Candidate, NEW d \in Candidate, Artifacts(c, a)', Artifacts(d, a)'
      PROVE  c.files \subseteq d.files \/ d.files \subseteq c.files
  <2>0. Listed(c)' /\ Listed(d)' /\ c.attempt = a /\ d.attempt = a /\ c.kind # "workspace" /\ d.kind # "workspace"
    BY <1>4 DEF Artifacts
  <2>1. CASE Listed(c) /\ Listed(d)
    BY <2>0, <2>1 DEF PlanInv, Artifacts
  <2>2. CASE ~ Listed(c) /\ Listed(d)
    <3>1. c.files = attempt[a].files
      BY <2>0, <2>2, ListedStep
    <3>2. attempt[a].files \subseteq d.files
      BY <2>0, <2>2 DEF PlanInv, Entry
    <3> QED
      BY <3>1, <3>2
  <2>3. CASE Listed(c) /\ ~ Listed(d)
    <3>1. d.files = attempt[a].files
      BY <2>0, <2>3, ListedStep
    <3>2. attempt[a].files \subseteq c.files
      BY <2>0, <2>3 DEF PlanInv, Entry
    <3> QED
      BY <3>1, <3>2
  <2>4. CASE ~ Listed(c) /\ ~ Listed(d)
    BY <2>0, <2>4, ListedStep
  <2> QED
    BY <2>1, <2>2, <2>3, <2>4
<1>5. ASSUME NEW a \in Attempts, attempt'[a].tomb # None
      PROVE  /\ attempt'[a].tomb.files \cap attempt'[a].files = {}
             /\ \E c \in Candidate : Artifacts(c, a)' /\ c.files = attempt'[a].tomb.files
  <2>1. attempt'[a].files \subseteq attempt[a].files
    BY <1>1 DEF Grows, GrowsTo
  <2>2. CASE attempt'[a].tomb = attempt[a].tomb
    <3>1. PICK c \in Candidate : Artifacts(c, a) /\ c.files = attempt[a].tomb.files
      BY <1>5, <2>2 DEF PlanInv
    <3>2. Artifacts(c, a)'
      BY <3>1, ListedStep DEF Artifacts
    <3> QED
      BY <1>5, <2>1, <2>2, <3>1, <3>2 DEF PlanInv
  <2>3. CASE attempt'[a].tomb # attempt[a].tomb
    <3>1. ~ AllQuiet
      BY <2>3 DEF AllQuiet, Quiet
    <3>2. ~ \E y \in Owners : Removes(y)
      BY <2>3, RemovesFacts
    <3>3. PICK y \in Owners : Tombstone(y)
      BY <3>1, <3>2, Effects
    <3> DEFINE c == candidate(y)
    <3>4. /\ c \in Candidate /\ Artifacts(c, actor[y].target)
          /\ c.files \cap attempt[actor[y].target].files = {}
          /\ attempt'[actor[y].target].tomb.files = c.files
          /\ \A b \in Attempts \ {actor[y].target} : attempt'[b] = attempt[b]
      BY <3>3, TombstoneFacts
    <3>5. a = actor[y].target
      BY <2>3, <3>4
    <3>6. PICK d \in Candidate : d = c
      BY <3>4
    <3>7. Artifacts(d, a)'
      BY <3>4, <3>5, <3>6, ListedStep DEF Artifacts
    <3> QED
      BY <2>1, <3>4, <3>5, <3>6, <3>7
  <2> QED
    BY <2>2, <2>3
<1> QED
  BY <1>2, <1>3, <1>4, <1>5 DEF PlanInv

\* What a step writes to the action records and to the list of the plans with deletions.
LEMMA RecordChange ==
    ASSUME TypeOK, [Next]_vars
    PROVE  /\ \/ action' = action
              \/ \E x \in Owners : Approve(x) \/ Complete(x) \/ RecordFailure(x)
           /\ \/ dirty' = dirty
              \/ \E x \in Owners : Removes(x)
              \/ \E x \in Owners : GitRemove(x) /\ attempt' # attempt /\ dirty' = dirty \cup {actor[x].plan}
<1>1. ASSUME NEW x \in Owners, RemoveFile(x) PROVE action' = action /\ (dirty' = dirty \/ Removes(x))
  BY <1>1 DEF RemoveFile, Removes, At
<1>2. ASSUME NEW x \in Actors, RemoveWorkspace(x)
      PROVE  /\ action' = action
             /\ \/ dirty' = dirty
                \/ x \in Owners /\ GitRemove(x) /\ attempt' # attempt /\ dirty' = dirty \cup {actor[x].plan}
  BY <1>2 DEF RemoveWorkspace, CheckRemoval, Register, LookForWorktree, GitRemove, AppendProven, AppendFailed
<1>3. ASSUME NEW x \in Owners, Apply(x)
      PROVE  /\ action' = action \/ Approve(x) \/ Complete(x) \/ RecordFailure(x)
             /\ dirty' = dirty \/ Removes(x)
  BY <1>1, <1>3 DEF Apply, Begin, Validate, Approve, Tombstone, Complete, RecordFailure
<1>4. \/ UNCHANGED <<action, dirty>>
      \/ \E x \in Owners : Apply(x)
      \/ \E x \in Actors : RemoveWorkspace(x)
  BY DEF Next, vars, Finish, RemoveOwn, Expire, DryRun, Call, Crash
<1> QED
  BY <1>2, <1>3, <1>4

\* The records of the actions still agree with the deletions.
LEMMA ActionStep ==
    ASSUME TypeOK, AttemptInv, PlanInv, ActorInv, DeletedInv, ActionInv, [Next]_vars
    PROVE  ActionInv'
<1>1. attempt' \in [Attempts -> Attempt] /\ Grows /\ Keeps
  BY Evolution
<1>o. ASSUME NEW x \in Owners, actor[x].at \in {"validate", "complete", "fail"}
      PROVE  /\ actor[x].plan \in Plans /\ plan[actor[x].plan] # None /\ current(x) = plan[actor[x].plan]
             /\ OwnerInv(x)
  BY <1>o DEF ActorInv, ActorOK, OwnerInv, Actors, current
<1> SUFFICES ASSUME NEW p \in Plans
             PROVE  /\ action'[p] # "none" => plan'[p] # None
                    /\ action'[p] = "completed" => \A i \in 1 .. Len(plan'[p]) : Removed(plan[p][i])'
                    /\ p \in dirty' => plan'[p] # None /\ \E i \in 1 .. Len(plan'[p]) : ~ Bound(plan[p][i])'
  BY DEF ActionInv
<1>2. ASSUME plan[p] # None
      PROVE  /\ plan'[p] = plan[p] /\ Len(plan[p]) \in Nat
             /\ \A i \in 1 .. Len(plan[p]) : plan[p][i] \in Candidate /\ Entry(plan[p][i])
  BY <1>1, <1>2, PlanEntries DEF Keeps, PlanInv
<1>3. action'[p] # "none" => plan'[p] # None
  <2>1. CASE action' = action
    BY <1>2, <2>1 DEF ActionInv
  <2>2. ASSUME NEW x \in Owners, Approve(x) \/ Complete(x) \/ RecordFailure(x)
        PROVE  action'[p] # "none" => plan'[p] # None
    <3>1. actor[x].at \in {"validate", "complete", "fail"}
      BY <2>2 DEF Approve, Complete, RecordFailure, At
    <3>2. p = actor[x].plan => plan[p] # None
      BY <1>o, <3>1
    <3>3. p # actor[x].plan => action'[p] = action[p]
      BY <2>2 DEF Approve, Complete, RecordFailure, TypeOK
    <3> QED
      BY <1>2, <3>2, <3>3 DEF ActionInv
  <2> QED
    BY <2>1, <2>2, RecordChange
<1>4. ASSUME action'[p] = "completed", NEW i \in 1 .. Len(plan'[p]) PROVE Removed(plan[p][i])'
  <2>1. plan[p] # None /\ plan'[p] = plan[p]
    <3>1. CASE plan' = plan
      BY <1>3, <1>4, <3>1
    <3>2. ASSUME NEW q \in Plans, DryRun(q) PROVE plan[p] # None
      BY <1>4, <3>2 DEF DryRun, ActionInv
    <3> QED
      BY <1>2, <3>1, <3>2, PlanChange
  <2>2. PICK c \in Candidate : c = plan[p][i]
    BY <1>2, <2>1, <1>4
  <2>3. Removed(c) => Removed(c)'
    BY <1>1, Lasting
  <2>4. Removed(plan[p][i]) => Removed(plan[p][i])'
    BY <2>1, <2>2, <2>3 DEF Removed
  <2>5. CASE action[p] = "completed"
    BY <1>4, <2>1, <2>4, <2>5 DEF ActionInv
  <2>6. CASE action[p] # "completed"
    <3>1. PICK x \in Owners : Complete(x) /\ p = actor[x].plan
      <4>1. PICK x \in Owners : Approve(x) \/ Complete(x) \/ RecordFailure(x)
        BY <1>4, <2>6, RecordChange
      <4>2. p # actor[x].plan => action'[p] = action[p]
        BY <4>1 DEF Approve, Complete, RecordFailure, TypeOK
      <4>3. p = actor[x].plan => (Approve(x) => action'[p] = "approved") /\ (RecordFailure(x) => action'[p] = "failed")
        BY DEF Approve, RecordFailure, TypeOK
      <4> QED
        BY <1>4, <2>6, <4>1, <4>2, <4>3
    <3>2. actor[x].at = "complete"
      BY <3>1 DEF Complete, At
    <3>3. current(x) = plan[p] /\ OwnerInv(x)
      BY <1>o, <3>1, <3>2
    <3>4. actor[x].k = Len(plan[p]) + 1 /\ \A j \in 1 .. actor[x].k - 1 : Removed(plan[p][j])
      BY <3>2, <3>3 DEF OwnerInv
    <3> QED
      BY <1>2, <1>4, <2>1, <2>4, <3>4
  <2> QED
    BY <2>5, <2>6
<1>5. ASSUME p \in dirty' PROVE plan'[p] # None /\ \E i \in 1 .. Len(plan'[p]) : ~ Bound(plan[p][i])'
  <2>1. ASSUME plan[p] # None, NEW i \in 1 .. Len(plan[p]),
               \A c \in Candidate : c = plan[p][i] => ~ Bound(c)'
        PROVE  plan'[p] # None /\ \E j \in 1 .. Len(plan'[p]) : ~ Bound(plan[p][j])'
    <3>1. PICK c \in Candidate : c = plan[p][i]
      BY <1>2, <2>1
    <3>2. ~ Bound(c)' /\ plan'[p] = plan[p]
      BY <1>2, <2>1, <3>1
    <3>3. ~ Bound(plan[p][i])'
      BY <3>1, <3>2 DEF Bound
    <3> QED
      BY <2>1, <3>2, <3>3
  <2>2. CASE p \in dirty
    <3>1. PICK i \in 1 .. Len(plan[p]) : ~ Bound(plan[p][i])
      BY <2>2 DEF ActionInv
    <3>2. plan[p] # None
      BY <2>2 DEF ActionInv
    <3>3. ASSUME NEW c \in Candidate, c = plan[p][i] PROVE ~ Bound(c)'
      BY <1>1, <1>2, <3>1, <3>2, <3>3, Lasting
    <3> QED
      BY <2>1, <3>2, <3>3
  <2>3. CASE p \notin dirty
    <3>1. PICK x \in Owners : /\ p = actor[x].plan
                              /\ Removes(x) \/ (GitRemove(x) /\ attempt' # attempt)
      <4>1. PICK x \in Owners : \/ Removes(x)
                                \/ GitRemove(x) /\ attempt' # attempt /\ dirty' = dirty \cup {actor[x].plan}
        BY <1>5, <2>3, RecordChange
      <4>2. dirty' = dirty \cup {actor[x].plan}
        BY <4>1 DEF Removes
      <4> QED
        BY <1>5, <2>3, <4>1, <4>2
    <3> DEFINE c == candidate(x)
    <3>2. actor[x].at \in Looping
      BY <3>1 DEF Removes, GitRemove, At, Looping, Removing
    <3>3. /\ plan[p] # None /\ current(x) = plan[p] /\ actor[x].k \in 1 .. Len(plan[p])
          /\ c = plan[p][actor[x].k] /\ c \in Candidate /\ actor[x].target = c.attempt
          /\ c.attempt \in Attempts
      BY <3>1, <3>2, Working DEF candidate
    <3>4. CASE Removes(x)
      <4>1. PICK f \in Files : f \in c.files /\ f \notin attempt'[c.attempt].files
        BY <3>3, <3>4, RemovesFacts
      <4>2. ASSUME NEW d \in Candidate, d = c PROVE ~ Bound(d)'
        BY <4>1, <4>2 DEF Bound
      <4> QED
        BY <2>1, <3>3, <4>2
    <3>5. CASE GitRemove(x) /\ attempt' # attempt
      <4>1. attempt' = [attempt EXCEPT ![c.attempt].worktree = FALSE] /\ actor[x].at = "git"
        BY <3>3, <3>5 DEF GitRemove, At
      <4>2. ~ attempt'[c.attempt].worktree
        BY <3>3, <4>1 DEF TypeOK, Attempt
      <4>3. c.kind = "workspace"
        BY <4>1 DEF ActorInv, ActorOK, OwnerInv, Removing, Actors
      <4>4. ASSUME NEW d \in Candidate, d = c PROVE ~ Bound(d)'
        BY <4>2, <4>3, <4>4 DEF Bound
      <4> QED
        BY <2>1, <3>3, <4>4
    <3> QED
      BY <3>1, <3>4, <3>5
  <2> QED
    BY <2>2, <2>3
<1> QED
  BY <1>3, <1>4, <1>5

\* Each deletion is still accounted for.
LEMMA AccountedStep ==
    ASSUME TypeOK, AttemptInv, PlanInv, ActorInv, DeletedInv, ActionInv, DeletionIsAccounted, [Next]_vars
    PROVE  DeletionIsAccounted'
<1>1. attempt' \in [Attempts -> Attempt] /\ Grows /\ Keeps
  BY Evolution
<1> SUFFICES ASSUME NEW a \in Attempts, NEW f \in Files \ attempt'[a].files
             PROVE  \/ attempt'[a].tomb # None /\ f \in attempt'[a].tomb.files
                    \/ \E p \in Plans : /\ action'[p] \in {"approved", "failed"}
                                        /\ \E i \in 1 .. Len(plan'[p]) :
                                             plan'[p][i].attempt = a /\ f \in plan'[p][i].files
  BY DEF DeletionIsAccounted, inspectActions
<1>2. attempt[a].tomb # None => attempt'[a].tomb = attempt[a].tomb
  BY <1>1 DEF Grows, GrowsTo
<1>3. CASE f \notin attempt[a].files
  <2>1. CASE attempt[a].tomb # None /\ f \in attempt[a].tomb.files
    BY <1>2, <2>1
  <2>2. CASE ~ (attempt[a].tomb # None /\ f \in attempt[a].tomb.files)
    <3>1. PICK p \in Plans : /\ action[p] \in {"approved", "failed"}
                             /\ \E i \in 1 .. Len(plan[p]) : plan[p][i].attempt = a /\ f \in plan[p][i].files
      BY <1>3, <2>2 DEF DeletionIsAccounted, inspectActions
    <3>2. PICK i \in 1 .. Len(plan[p]) : plan[p][i].attempt = a /\ f \in plan[p][i].files
      BY <3>1
    <3>3. plan[p] # None /\ plan'[p] = plan[p]
      BY <1>1, <3>1 DEF ActionInv, Keeps
    <3>4. PICK c \in Candidate : c = plan[p][i] /\ Entry(c)
      BY <3>2, <3>3, PlanEntries DEF PlanInv
    <3>5. c.kind # "workspace"
      BY <3>2, <3>4 DEF Entry
    <3>6. CASE action'[p] \in {"approved", "failed"}
      BY <3>2, <3>3, <3>6
    <3>7. CASE action'[p] \notin {"approved", "failed"}
      <4>1. PICK x \in Owners : Complete(x) /\ p = actor[x].plan
        <5>1. PICK x \in Owners : Approve(x) \/ Complete(x) \/ RecordFailure(x)
          BY <3>1, <3>7, RecordChange
        <5>2. p # actor[x].plan => action'[p] = action[p]
          BY <5>1 DEF Approve, Complete, RecordFailure, TypeOK
        <5>3. p = actor[x].plan => (Approve(x) => action'[p] = "approved") /\ (RecordFailure(x) => action'[p] = "failed")
          BY DEF Approve, RecordFailure, TypeOK
        <5> QED
          BY <3>1, <3>7, <5>1, <5>2, <5>3
      <4>2. actor[x].at = "complete"
        BY <4>1 DEF Complete, At
      <4>3. current(x) = plan[p] /\ OwnerInv(x)
        BY <4>1, <4>2 DEF current, ActorInv, ActorOK, Actors
      <4>4. Removed(plan[p][i])
        <5>1. actor[x].k = Len(plan[p]) + 1 /\ \A j \in 1 .. actor[x].k - 1 : Removed(plan[p][j])
          BY <4>2, <4>3 DEF OwnerInv
        <5>2. Len(plan[p]) \in Nat
          BY <3>3, PlanEntries
        <5> QED
          BY <3>2, <5>1, <5>2
      <4>5. attempt[a].tomb # None /\ f \in attempt[a].tomb.files
        BY <3>2, <3>4, <3>5, <4>4 DEF Removed
      <4> QED
        BY <1>2, <4>5
    <3> QED
      BY <3>6, <3>7
  <2> QED
    BY <2>1, <2>2
<1>4. CASE f \in attempt[a].files
  <2>1. ~ AllQuiet
    BY <1>4 DEF AllQuiet, Quiet
  <2>2. ~ \E y \in Owners : Tombstone(y)
    BY <1>4, TombstoneFacts
  <2>3. PICK x \in Owners : Removes(x)
    BY <2>1, <2>2, Effects
  <2>4. PICK g \in Files, b \in Attempts :
             /\ b = actor[x].target /\ g \in attempt[b].files /\ g \in candidate(x).files
             /\ attempt'[b].files = attempt[b].files \ {g}
             /\ candidate(x).kind # "workspace" /\ plan' = plan /\ action' = action
    BY <2>3, RemovesFacts
  <2>5. \A d \in Attempts \ {b} : attempt'[d] = attempt[d]
    BY <2>3, <2>4 DEF Removes, TypeOK
  <2>6. a = b /\ f = g
    BY <1>4, <2>4, <2>5
  <2> DEFINE p == actor[x].plan
             k == actor[x].k
  <2>7. /\ p \in Plans /\ current(x) = plan[p] /\ k \in 1 .. Len(plan[p])
        /\ candidate(x).attempt = a /\ action[p] # "none"
    BY <2>3, <2>4, <2>6, Working DEF Removes, Looping
  <2>8. candidate(x) = plan[p][k]
    BY <2>7 DEF candidate
  <2>9. action[p] # "completed"
    BY <2>4, <2>6, <2>7, <2>8 DEF ActionInv, Removed
  <2>10. action[p] \in {"approved", "failed"}
    BY <2>7, <2>9 DEF TypeOK
  <2> QED
    BY <2>4, <2>6, <2>7, <2>8, <2>10
<1> QED
  BY <1>3, <1>4

LEMMA TypeStep ==
    ASSUME TypeOK, AttemptInv, PlanInv, ActorInv, DeletedInv, ActionInv, [Next]_vars
    PROVE  TypeOK'
<1>1. attempt' \in [Attempts -> Attempt]
  BY Evolution
<1>2. plan' \in [Plans -> {None} \cup Seq(Candidate)]
  BY PlanType
<1>3. actor' \in [Actors -> Activity]
  BY ActorStep
<1>4. action' \in [Plans -> {"none", "approved", "failed", "completed"}]
  <2>1. ASSUME NEW x \in Owners, Approve(x) \/ Complete(x) \/ RecordFailure(x)
        PROVE  action' \in [Plans -> {"none", "approved", "failed", "completed"}]
    BY <2>1 DEF Approve, Complete, RecordFailure, TypeOK
  <2> QED
    BY <2>1, RecordChange DEF TypeOK
<1>5. dirty' \subseteq Plans
  <2>1. ASSUME NEW x \in Owners, Removes(x) \/ GitRemove(x) PROVE actor[x].plan \in Plans
    BY <2>1, Working DEF Removes, GitRemove, At, Looping, Removing
  <2>2. \A x \in Owners : Removes(x) => dirty' = dirty \cup {actor[x].plan}
    BY DEF Removes
  <2> QED
    BY <2>1, <2>2, RecordChange DEF TypeOK
<1>6. calls' \in 0 .. MaxCalls /\ crashes' \in 0 .. MaxCrashes
  <2>1. \/ UNCHANGED count
        \/ calls < MaxCalls /\ calls' = calls + 1 /\ crashes' = crashes
        \/ crashes < MaxCrashes /\ crashes' = crashes + 1 /\ calls' = calls
    BY DEF Next, vars, Finish, RemoveOwn, Expire, DryRun, Apply, Begin, Validate, Approve, RemoveFile, Tombstone,
           Complete, RecordFailure, RemoveWorkspace, CheckRemoval, Register, LookForWorktree, GitRemove,
           AppendProven, AppendFailed, Call, Crash, count
  <2> QED
    BY <2>1, NumbersAssumption DEF TypeOK, count
<1> QED
  BY <1>1, <1>2, <1>3, <1>4, <1>5, <1>6 DEF TypeOK

-----------------------------------------------------------------------------
(* The theorems                                                            *)

\* GInv holds before the first attempt has ended, ...
LEMMA GInvInit == Init => GInv
<1> SUFFICES ASSUME Init PROVE GInv
  OBVIOUS
<1>1. \A a \in Attempts :
        /\ attempt[a] \in Attempt /\ attempt[a].files = Files /\ attempt[a].tomb = None
        /\ attempt[a].ws \in {"none", "pending"} /\ (a \notin Retained => attempt[a].ws = "pending")
  BY DEF Init, Attempt
<1>2. attempt \in [Attempts -> Attempt]
  <2>1. DOMAIN attempt = Attempts /\ attempt = [a \in Attempts |-> attempt[a]]
    BY DEF Init
  <2> QED
    BY <1>1, <2>1
<1>3. Idle \in Activity /\ Idle.at = "idle" /\ Idle.late = FALSE
  BY NumbersAssumption DEF Idle, Activity, Places
<1>4. TypeOK
  BY <1>2, <1>3, NumbersAssumption DEF Init, TypeOK
<1>5. AttemptInv /\ DeletionIsAccounted
  BY <1>1 DEF AttemptInv, DeletionIsAccounted
<1>6. PlanInv /\ ActionInv
  BY <1>1 DEF PlanInv, ActionInv, Init, Listed, Artifacts
<1>7. \A x \in Actors : actor[x].at = "idle" /\ ~ actor[x].late
  BY <1>3 DEF Init
<1>8. ActorInv /\ DeletedInv
  BY <1>7 DEF ActorInv, ActorOK, OwnerInv, RemovalInv, Looping, Removing, DeletedInv, Actors
<1> QED
  BY <1>4, <1>5, <1>6, <1>8 DEF GInv

\* ... and after every step: all that the plans, the processes and the records rely on.
THEOREM RetentionInvariant == Spec => []GInv
<1>1. GInv /\ [Next]_vars => GInv'
  <2> SUFFICES ASSUME GInv, [Next]_vars PROVE GInv'
    OBVIOUS
  <2> USE DEF GInv
  <2>1. TypeOK'
    BY TypeStep
  <2>2. AttemptInv'
    BY AttemptStep
  <2>3. PlanInv'
    BY PlanStep
  <2>4. ActorInv'
    BY ActorStep
  <2>5. DeletedInv' /\ ActionInv'
    BY DeletedStep, ActionStep
  <2>6. DeletionIsAccounted'
    BY AccountedStep
  <2> QED
    BY <2>1, <2>2, <2>3, <2>4, <2>5, <2>6
<1> QED
  BY GInvInit, <1>1, PTL DEF Spec

\* Every value has its type, in every reachable state.
THEOREM RetentionType == Spec => []TypeOK
<1>1. GInv => TypeOK
  BY DEF GInv
<1> QED
  BY RetentionInvariant, <1>1, PTL

\* Whatever happens between a plan and its application, only attempts that are terminal,
\* expired and not waiting for a review lose files (dryRun, revalidate).
THEOREM OnlyExpired == Spec => []OnlyExpiredIsPruned
<1>1. GInv => OnlyExpiredIsPruned
  BY DEF GInv, AttemptInv, Prunable, OnlyExpiredIsPruned
<1> QED
  BY RetentionInvariant, <1>1, PTL

\* No file of an attempt goes before its worktree (the two passes of dryRun).
THEOREM WorktreeGoesFirst == Spec => []WorktreeFirst
<1>1. GInv => WorktreeFirst
  BY DEF GInv, AttemptInv, WorktreeFirst
<1> QED
  BY RetentionInvariant, <1>1, PTL

\* Every file that is gone is in the tombstone, or under an action that inspectActions
\* shows, with any number of concurrent applications and crashes.
THEOREM EveryDeletionIsAccounted == Spec => []DeletionIsAccounted
<1>1. GInv => DeletionIsAccounted
  BY DEF GInv
<1> QED
  BY RetentionInvariant, <1>1, PTL

\* An action that is recorded as completed has removed all that its plan names.
THEOREM CompletedIsDone == Spec => []CompletedMeansRemoved
<1>1. ASSUME GInv PROVE CompletedMeansRemoved
  <2> SUFFICES ASSUME NEW p \in Plans, action[p] = "completed", NEW i \in 1 .. Len(plan[p])
               PROVE  LET c == plan[p][i] IN
                      IF c.kind = "workspace" THEN ~ attempt[c.attempt].worktree
                      ELSE c.files \cap attempt[c.attempt].files = {} /\ attempt[c.attempt].tomb # None
    BY DEF CompletedMeansRemoved
  <2>1. Removed(plan[p][i])
    BY <1>1 DEF GInv, ActionInv
  <2> QED
    BY <2>1 DEF Removed
<1> QED
  BY RetentionInvariant, <1>1, PTL

\* Once something is deleted under a plan, no later application of that plan gets past
\* revalidate: a binding that has failed never holds again.
THEOREM NeverReplayed == Spec => []NoReplay
<1>1. ASSUME GInv PROVE NoReplay
  <2> SUFFICES ASSUME NEW x \in Owners, actor[x].late PROVE actor[x].at \in {"idle", "validate"}
    BY DEF NoReplay
  <2>1. OwnerInv(x)
    BY <1>1 DEF GInv, ActorInv, ActorOK, Actors
  <2> QED
    BY <2>1 DEF OwnerInv
<1> QED
  BY RetentionInvariant, <1>1, PTL
=============================================================================
