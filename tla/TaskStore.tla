----------------------------- MODULE TaskStore -----------------------------
(***************************************************************************)
(* The in-memory registry of long-running operations                       *)
(* (internal/flink/operations.go; internal/failover/switch.go has the same *)
(* one for HA tasks): a map of entries, and the queue of the finished ones *)
(* in the order they finished, from which the oldest are evicted.          *)
(***************************************************************************)
EXTENDS Integers, Sequences

CONSTANTS MaxKeep   \* finished entries that are kept: 200, for HA tasks 100

ASSUME MaxKeepAssumption == MaxKeep \in Nat

VARIABLES
    tasks,      \* the entries, by id
    finished    \* ids of finished entries, the oldest first

storeVars == <<tasks, finished>>

Ended == {"succeeded", "failed"}
Status == {"running"} \cup Ended
Task == [status : Status, finishedAt : BOOLEAN]

StoreTypeOK ==
    /\ DOMAIN tasks \subseteq Nat
    /\ \A id \in DOMAIN tasks : tasks[id] \in Task
    /\ finished \in Seq(Nat)

EmptyStore == tasks = <<>> /\ finished = <<>>

Create(id) ==
    /\ tasks' = [i \in DOMAIN tasks \cup {id} |->
                    IF i = id THEN [status |-> "running", finishedAt |-> FALSE]
                    ELSE tasks[i]]
    /\ UNCHANGED finished

(* Variants: pruning one entry too late; pruning the newest.               *)
KeepOneMore(ids) ==
    IF Len(ids) > MaxKeep + 1 THEN SubSeq(ids, Len(ids) - MaxKeep, Len(ids)) ELSE ids

KeepOldest(ids) == IF Len(ids) > MaxKeep THEN SubSeq(ids, 1, MaxKeep) ELSE ids

(* pruneLocked: as long as there are too many, the oldest goes.            *)
Kept(ids) ==
    IF Len(ids) > MaxKeep THEN SubSeq(ids, Len(ids) - MaxKeep + 1, Len(ids)) ELSE ids

InSeq(id, ids) == \E i \in DOMAIN ids : ids[i] = id

(* An entry that ends is queued, once, and may push out older ones.        *)
Update(id, status) ==
    IF id \notin DOMAIN tasks
    THEN UNCHANGED storeVars
    ELSE LET ends == status # "running" /\ ~tasks[id].finishedAt
             queue == IF ends THEN Append(finished, id) ELSE finished
             kept == IF ends THEN Kept(queue) ELSE queue
             Evicted(i) == InSeq(i, queue) /\ ~InSeq(i, kept)
             task == [status |-> status,
                      finishedAt |-> tasks[id].finishedAt \/ ends]
         IN  /\ finished' = kept
             /\ tasks' = [i \in {j \in DOMAIN tasks : ~Evicted(j)} |->
                             IF i = id THEN task ELSE tasks[i]]

(* What a poll is answered; NotFound for an entry that is not there.       *)
NotFound == "notfound"
Get(id) == IF id \in DOMAIN tasks THEN tasks[id].status ELSE NotFound
=============================================================================
