------------------------------ MODULE History ------------------------------
(***************************************************************************)
(* What zhold records of a finished operation (crates/zhold-store:         *)
(* history/, reservation/service.rs): the growth of a build in the         *)
(* reservation profile, and a receipt in the history.  Receipts are files  *)
(* of their own; an index counts them, so that most publications need not  *)
(* read them; a policy bounds them, and the oldest ones go.                *)
(*                                                                         *)
(* Policy, index and profile are documents that are replaced at once and   *)
(* durably (JsonPublication).  The removal of a receipt is durable when    *)
(* the directory of the receipts has been synchronized.                    *)
(***************************************************************************)
EXTENDS Reservation

CONSTANTS
    Process,
    Receipt,    \* places in the order (recorded_at, receipt_id); bounds the receipts on the disk
    Size,       \* sizes of receipts, and growths of builds
    Policy,     \* policies the operator may want
    None,
    MaxFaults,  \* bound on deaths and errors
    MaxLosses   \* bound on losses of power

ASSUME HistoryAssumption ==
    /\ Receipt \subseteq Nat /\ IsFiniteSet(Receipt) /\ Size \subseteq Nat \ {0}
    /\ Policy \subseteq [enabled : BOOLEAN, count : Nat, bytes : Nat]
    /\ None \notin Process
    /\ MaxFaults \in Nat /\ MaxLosses \in Nat

VARIABLES
    receipts,   \* receipt -> its size, 0 when there is no such file
    unsynced,   \* receipt -> the size of a file whose removal is not durable, or 0
    index,      \* [clean, count, bytes], or None
    policy,     \* the policy in force
    samples,    \* the reservation profile of a class of commands
    history, reservation,   \* holders of the two locks
    pc, wanted, \* process -> its next operation, and the policy or the growth it carries
    image,      \* memory of the holder of the history lock: the index it read,
    published,  \*    the receipt it made,
    request,    \*    the bounds it prunes by,
    plan,       \*    the receipts that have to go,
    window,     \* process -> the profile it read, while it has the reservation lock
    faults, losses

files == <<receipts, unsynced, index, policy>>
profile == <<samples, reservation, window>>
memory == <<image, published, request, plan>>
vars == <<files, profile, history, pc, wanted, memory, faults, losses>>

Goto(p, place) == pc' = [pc EXCEPT ![p] = place]

\* read_receipts: the files whose content is what their name says; others are findings.
Present == {r \in Receipt : receipts[r] # 0}

Free == {r \in Receipt : receipts[r] = 0 /\ unsynced[r] = 0}

Bytes(R) == SumFunctionOnSet(receipts, R)

Totals(R) == [clean |-> TRUE, count |-> Cardinality(R), bytes |-> Bytes(R)]

Init ==
    /\ receipts = [r \in Receipt |-> 0] /\ unsynced = [r \in Receipt |-> 0]
    /\ index = None /\ policy \in Policy /\ samples = << >>
    /\ history = None /\ reservation = None
    /\ pc = [p \in Process |-> "idle"] /\ wanted = [p \in Process |-> None]
    /\ image = None /\ published = None /\ request = None /\ plan = {} /\ window = [p \in Process |-> None]
    /\ faults = 0 /\ losses = 0

-----------------------------------------------------------------------------
(* A build that ended: first its growth, then its receipt.                 *)

\* finish_observed after the manifest is written; a build that never started Cargo, a
\* hook, a collection, a recovery and a quota operation have a receipt only.
Finish(p) ==
    /\ pc[p] = "idle"
    /\ \/ \E growth \in Size : wanted' = [wanted EXCEPT ![p] = growth] /\ Goto(p, "learn")
       \/ Goto(p, "persist") /\ UNCHANGED wanted
    /\ UNCHANGED <<files, profile, history, memory, faults, losses>>

\* Mutant of ReadProfile: the profile is read without the lock.
ReadProfileUnlocked(p) ==
    /\ pc[p] = "learn"
    /\ reservation' = p /\ window' = [window EXCEPT ![p] = samples] /\ Goto(p, "record")
    /\ UNCHANGED <<files, samples, history, wanted, memory, faults, losses>>

\* record_reservation_growth reads the profile under its lock
ReadProfile(p) ==
    /\ pc[p] = "learn" /\ reservation = None
    /\ reservation' = p /\ window' = [window EXCEPT ![p] = samples] /\ Goto(p, "record")
    /\ UNCHANGED <<files, samples, history, wanted, memory, faults, losses>>

\* and writes it with one sample more.
RecordGrowth(p) ==
    /\ pc[p] = "record"
    /\ samples' = PushSample(window[p], wanted[p])
    /\ reservation' = None /\ window' = [window EXCEPT ![p] = None]
    /\ wanted' = [wanted EXCEPT ![p] = None] /\ Goto(p, "persist")
    /\ UNCHANGED <<files, history, memory, faults, losses>>

-----------------------------------------------------------------------------
(* persist_inner: under the history lock.                                  *)

Forgotten == image' = None /\ published' = None /\ request' = None /\ plan' = {}

Unlock(p) == history' = None /\ Goto(p, "idle") /\ Forgotten

\* Retention that follows a publication goes by the policy.
ByPolicy == [keep |-> policy.count, bytes |-> policy.bytes, since |-> 0]

BeginPersist(p) ==
    /\ pc[p] = "persist" /\ history = None
    /\ IF policy.enabled
          THEN history' = p /\ Goto(p, "index") /\ request' = ByPolicy
          ELSE history' = None /\ Goto(p, "idle") /\ UNCHANGED request
    /\ UNCHANGED <<files, profile, wanted, image, published, plan, faults, losses>>

\* read_or_rebuild: an index that is dirty or missing is rebuilt from the receipts.
ReadIndex(p) ==
    /\ pc[p] = "index"
    /\ index' = IF index = None THEN Totals(Present)
                ELSE IF index.clean THEN index ELSE Totals(Present)
    /\ image' = index' /\ Goto(p, "dirty")
    /\ UNCHANGED <<receipts, unsynced, policy, profile, history, wanted, published,
                   request, plan, faults, losses>>

\* Mutant of MarkDirty: the index stays clean while the receipt is made.
MarkNothing(p) ==
    /\ pc[p] = "dirty" /\ Goto(p, "create")
    /\ UNCHANGED <<files, profile, history, wanted, memory, faults, losses>>

\* From here to the projection the index says that it may be wrong.
MarkDirty(p) ==
    /\ pc[p] = "dirty" /\ index' = [image EXCEPT !.clean = FALSE] /\ Goto(p, "create")
    /\ UNCHANGED <<receipts, unsynced, policy, profile, history, wanted, memory,
                   faults, losses>>

\* The clock may have gone back: the receipt has any place in the order.  Its directory
\* is synchronized, or an error says that it may not be.
CreateReceipt(p) ==
    /\ pc[p] = "create"
    /\ \E r \in Free, size \in Size :
        /\ receipts' = [receipts EXCEPT ![r] = size]
        /\ \/ /\ published' = r /\ Goto(p, "project")
              /\ unsynced' = [s \in Receipt |-> 0]
              /\ UNCHANGED <<history, image, request, plan, faults>>
           \/ /\ faults < MaxFaults /\ faults' = faults + 1
              /\ Unlock(p) /\ UNCHANGED unsynced
    /\ UNCHANGED <<index, policy, profile, wanted, losses>>

\* The disk is full.
CreateNothing(p) ==
    /\ pc[p] = "create" /\ Free = {} /\ Unlock(p)
    /\ UNCHANGED <<files, profile, wanted, faults, losses>>

Fits(totals) == totals.count <= request.keep /\ totals.bytes <= request.bytes

Projected(size) == [clean |-> TRUE, count |-> image.count + 1, bytes |-> image.bytes + size]

\* publish_projection, and whether the bounds still hold by the index.
PublishProjection(p) ==
    /\ pc[p] = "project"
    /\ index' = Projected(receipts[published])
    /\ Goto(p, IF Fits(index') THEN "return" ELSE "plan")
    /\ UNCHANGED <<receipts, unsynced, policy, profile, history, wanted, memory,
                   faults, losses>>

\* Whether the receipt survived its own retention goes into the report.
Return(p) ==
    /\ pc[p] = "return" /\ Unlock(p)
    /\ UNCHANGED <<files, profile, wanted, faults, losses>>

-----------------------------------------------------------------------------
(* prune_locked.                                                           *)

Newer(R, r) == {s \in R : s >= r}

\* The oldest of R that exceed the count.
Excess(R, keep) == {r \in R : Cardinality(Newer(R, r)) > keep}

\* Mutant of RemovalPlan: the newest receipt may go for its size.
RemovalPlanOfAll(R, bounds) ==
    LET base == Excess(R, bounds.keep) \cup {r \in R : r < bounds.since}
    IN base \cup {r \in R \ base : Bytes(Newer(R \ base, r)) > bounds.bytes}

\* removal_plan: the oldest go for the count, those before the cutoff for their age, and
\* then the oldest until the rest is small enough, but never the last one.
RemovalPlan(R, bounds) ==
    LET base == Excess(R, bounds.keep) \cup {r \in R : r < bounds.since}
        Rest(r) == Newer(R \ base, r)
        TooLarge(r) == Bytes(Rest(r)) > bounds.bytes /\ Cardinality(Rest(r)) > 1
    IN base \cup {r \in R \ base : \A s \in R \ base : s <= r => TooLarge(s)}

\* An operator prunes by any bounds, and those left out are the policy's.
BeginPrune(p) ==
    /\ pc[p] \in {"idle", "prune"} /\ history = None
    /\ history' = p /\ Goto(p, "plan")
    /\ IF pc[p] = "prune"
          THEN request' = [keep |-> wanted[p].count, bytes |-> wanted[p].bytes, since |-> 0]
          ELSE \E keep \in {policy.count, 0}, since \in {0} \cup Receipt :
                    request' = [keep |-> keep, bytes |-> policy.bytes, since |-> since]
    /\ wanted' = [wanted EXCEPT ![p] = None]
    /\ UNCHANGED <<files, profile, image, published, plan, faults, losses>>

PlanRemoval(p) ==
    /\ pc[p] = "plan"
    /\ plan' = RemovalPlan(Present, request) /\ Goto(p, "remove")
    /\ UNCHANGED <<files, profile, history, wanted, image, published, request, faults, losses>>

\* Mutant of NextOf: the newest one goes first.
NewestOf(R) == Max(R)

NextOf(R) == Min(R)

\* prove_and_remove, in the order of the receipts.
RemoveReceipt(p) ==
    /\ pc[p] = "remove" /\ plan # {}
    /\ LET r == NextOf(plan) IN
        /\ receipts' = [receipts EXCEPT ![r] = 0]
        /\ unsynced' = [unsynced EXCEPT ![r] = receipts[r]]
        /\ plan' = plan \ {r}
    /\ UNCHANGED <<index, policy, profile, history, pc, wanted, image, published,
                   request, faults, losses>>

\* Mutant of SyncReceipts: the totals are published before the removals are durable.
SyncNothing(p) ==
    /\ pc[p] = "remove" /\ plan = {} /\ Goto(p, "totals")
    /\ UNCHANGED <<files, profile, history, wanted, memory, faults, losses>>

SyncReceipts(p) ==
    /\ pc[p] = "remove" /\ plan = {}
    /\ unsynced' = [r \in Receipt |-> 0] /\ Goto(p, "totals")
    /\ UNCHANGED <<receipts, index, policy, profile, history, wanted, memory,
                   faults, losses>>

PublishTotals(p) ==
    /\ pc[p] = "totals" /\ index' = Totals(Present)
    /\ IF published # None
          THEN Goto(p, "return") /\ UNCHANGED <<history, memory>>
          ELSE Unlock(p)
    /\ UNCHANGED <<receipts, unsynced, policy, profile, wanted, faults, losses>>

-----------------------------------------------------------------------------
(* history policy.                                                         *)

\* The command reads the policy without a lock and changes a part of it.
ReadPolicy(p) ==
    /\ pc[p] = "idle"
    /\ \E new \in Policy \ {policy} :
        /\ wanted' = [wanted EXCEPT ![p] = new] /\ Goto(p, "set")
    /\ UNCHANGED <<files, profile, history, memory, faults, losses>>

\* set_policy has the lock for itself; the pruning takes it again.
SetPolicy(p) ==
    /\ pc[p] = "set" /\ history = None
    /\ policy' = wanted[p] /\ Goto(p, "prune")
    /\ UNCHANGED <<receipts, unsynced, index, profile, history, wanted, memory, faults,
                   losses>>

-----------------------------------------------------------------------------
(* Faults.                                                                 *)

Abandon(P) ==
    /\ IF history \in P THEN history' = None /\ Forgotten ELSE UNCHANGED <<history, memory>>
    /\ reservation' = IF reservation \in P THEN None ELSE reservation
    /\ window' = [p \in Process |-> IF p \in P THEN None ELSE window[p]]
    /\ wanted' = [p \in Process |-> IF p \in P THEN None ELSE wanted[p]]
    /\ UNCHANGED samples

\* A process dies, or an operation of it fails and it gives up: a warning is all that
\* becomes of it.  An error in learning does not keep the receipt from being written.
Stop(p) ==
    /\ pc[p] # "idle" /\ faults < MaxFaults /\ faults' = faults + 1
    /\ Abandon({p})
    /\ \/ Goto(p, "idle")
       \/ pc[p] \in {"learn", "record"} /\ Goto(p, "persist")
    /\ UNCHANGED <<files, losses>>

\* The power goes: receipts whose removal was not synchronized may be back.
PowerLoss ==
    /\ losses < MaxLosses /\ losses' = losses + 1
    /\ \E back \in SUBSET {r \in Receipt : unsynced[r] # 0} :
        receipts' = [r \in Receipt |-> IF r \in back THEN unsynced[r] ELSE receipts[r]]
    /\ unsynced' = [r \in Receipt |-> 0]
    /\ Abandon(Process) /\ pc' = [p \in Process |-> "idle"]
    /\ UNCHANGED <<index, policy, faults>>

Next ==
    \/ \E p \in Process :
        \/ Finish(p) \/ ReadProfile(p) \/ RecordGrowth(p)
        \/ BeginPersist(p) \/ ReadIndex(p) \/ MarkDirty(p) \/ CreateReceipt(p)
        \/ CreateNothing(p) \/ PublishProjection(p) \/ Return(p)
        \/ BeginPrune(p) \/ PlanRemoval(p) \/ RemoveReceipt(p) \/ SyncReceipts(p)
        \/ PublishTotals(p) \/ ReadPolicy(p) \/ SetPolicy(p) \/ Stop(p)
    \/ PowerLoss

Spec == Init /\ [][Next]_vars

-----------------------------------------------------------------------------
(* Properties.                                                             *)

TypeOK ==
    /\ receipts \in [Receipt -> {0} \cup Size] /\ unsynced \in [Receipt -> {0} \cup Size]
    /\ index \in {None} \cup [clean : BOOLEAN, count : Nat, bytes : Nat]
    /\ policy \in Policy /\ samples \in Seq(Size) /\ Len(samples) <= SampleLimit
    /\ history \in Process \cup {None} /\ reservation \in Process \cup {None}
    /\ pc \in [Process -> {"idle", "learn", "record", "persist", "index", "dirty", "create",
                           "project", "plan", "remove", "totals", "return", "set", "prune"}]
    /\ plan \in SUBSET Receipt
    /\ faults \in 0..MaxFaults /\ losses \in 0..MaxLosses

Covers(R) == index.count >= Cardinality(R) /\ index.bytes >= Bytes(R)

\* Rebuilding does not synchronize the removals of a prune that died, so that a loss of
\* power can bring receipts back behind a clean index; otherwise the index is right.
Exact == losses = 0 \/ faults = 0

\* An index that calls itself clean never counts less than there is, whatever died or
\* failed in between: if it did, the history would outgrow its bounds unseen.
IndexCovers == Exact /\ index # None => (index.clean => Covers(Present))

\* Whether R is what the bounds allow: a single receipt is never too large.
Allowed(R, bounds) ==
    /\ Cardinality(R) <= bounds.keep /\ \A r \in R : r >= bounds.since
    /\ Bytes(R) <= bounds.bytes \/ Cardinality(R) = 1

\* A publication that ends without a warning leaves a history that the policy allows,
\* although most of them look at the index only.
RetentionHolds ==
    \A p \in Process : Exact /\ pc[p] = "return" => Allowed(Present, ByPolicy)

\* Pruning keeps as much as the bounds allow, and the newest: what it keeps is the largest
\* end of the history that is allowed.
KeepsMost ==
    \A p \in Process : pc[p] = "remove" =>
        LET kept == Present \ plan
        IN /\ Allowed(kept, request)
           /\ \A r \in Present : Allowed(Newer(Present, r), request) => Newer(Present, r) \subseteq kept

\* A receipt goes when all older ones are gone: a prune that is interrupted leaves no gap.
OldestFirst == [][\A r \in Present : receipts'[r] = 0 => \A s \in Present : s >= r]_receipts

\* Every learnt growth stays in the profile until it leaves the window.
NoSampleLost ==
    [][samples' # samples => \E growth \in Size : samples' = PushSample(samples, growth)]_samples

\* A reservation covers the growth of 95 of 100 builds of the window, and the last one.
ReservationCovers ==
    LET covered == {i \in DOMAIN samples : samples[i] <= Recommend(samples, 0)}
    IN /\ 100 * Cardinality(covered) >= 95 * Len(samples)
       /\ samples # << >> => Len(samples) \in covered

-----------------------------------------------------------------------------
(* An inductive invariant.                                                 *)

Holding == {"index", "dirty", "create", "project", "plan", "remove", "totals", "return"}

\* Who is about to record a growth has the lock, and has read the profile that is there.
SampleOK ==
    /\ DOMAIN wanted = Process /\ DOMAIN window = Process
    /\ \A p \in Process :
        /\ pc[p] \in {"learn", "record"} => wanted[p] \in Size
        /\ pc[p] = "record" => reservation = p /\ window[p] = samples

\* The history lock is held where it has to be, and what its holder remembers is right:
\* a publication goes by the policy, a prune by its own bounds.
MemoryOK ==
    /\ history = None => published = None
    /\ published # None => request = ByPolicy
    /\ \A p \in Process :
        /\ pc[p] \in Holding => history = p /\ request \in [keep : Nat, bytes : Nat, since : Nat]
        /\ pc[p] \in {"index", "dirty", "create", "project", "return"} => request = ByPolicy
        /\ pc[p] \in {"set", "prune"} => wanted[p] \in Policy
        /\ pc[p] \in {"dirty", "create", "project"} =>
              image \in [clean : BOOLEAN, count : Nat, bytes : Nat]
        /\ pc[p] \in {"create", "project"} => ~index.clean
        /\ pc[p] = "project" => published \in Present

\* S is the older part of R.
Oldest(S, R) == S \subseteq R /\ \A r \in S, s \in R : s <= r => s \in S

OrderOK == \A p \in Process : pc[p] = "remove" => Oldest(plan, Present)

\* What may be on the disk after a loss of power, at most.
Worst == [r \in Receipt |-> IF receipts[r] # 0 THEN receipts[r] ELSE unsynced[r]]

Counts(totals, f) ==
    /\ totals.count >= Cardinality({r \in Receipt : f[r] # 0})
    /\ totals.bytes >= SumFunctionOnSet(f, Receipt)

\* Up to a loss of power an index counts what is there, and without a fault what a loss
\* of power may bring back as well.
Right(totals) == (losses = 0 => Counts(totals, receipts)) /\ (faults = 0 => Counts(totals, Worst))

\* A clean index is right, and so is the one that a publication remembers; without a
\* fault only a prune leaves removals that are not durable, and not for long.
IndexOK ==
    /\ \A r \in Receipt : receipts[r] = 0 \/ unsynced[r] = 0
    /\ faults = 0 /\ (\E r \in Receipt : unsynced[r] # 0) => \E p \in Process : pc[p] = "remove"
    /\ index # None => (index.clean => Right(index))
    /\ \A p \in Process :
        /\ pc[p] \in {"dirty", "create"} => Right(image)
        /\ pc[p] = "project" => (Exact => Counts(image, [receipts EXCEPT ![published] = 0]))
        /\ pc[p] \in {"project", "totals"} => \A r \in Receipt : unsynced[r] = 0

\* What a prune leaves is allowed, and so is what a publication returns to.
BoundsOK ==
    /\ KeepsMost
    /\ \A p \in Process :
        /\ pc[p] = "totals" => Allowed(Present, request)
        /\ pc[p] = "return" => (Exact => Allowed(Present, request))

\* The inductive invariant: why the index may be trusted, and the bounds are kept.
Inv == TypeOK /\ SampleOK /\ MemoryOK /\ OrderOK /\ IndexOK /\ BoundsOK

=============================================================================
