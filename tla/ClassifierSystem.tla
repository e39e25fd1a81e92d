------------------------- MODULE ClassifierSystem -------------------------
(***************************************************************************)
(* PacketClassifier (src/unnamed/part_007) and the RuleManager it owns     *)
(* (src/src/utils/threading.cpp, from line 277), called concurrently by    *)
(* several threads.  Two ReadWriteLocks are involved: the classifier's     *)
(* specialized_structures_lock_ ("spec") and RuleManager::rw_lock_ ("rm"). *)
(*                                                                         *)
(* A rule's data is abstracted to its priority, its enabled flag, its     *)
(* PacketFilter's protocol and port ranges (the IP prefixes are never      *)
(* compared by PacketFilter::matches and are left out) and its ActionList, *)
(* a model value.  classify is called with the PacketHeader Header, of     *)
(* which matches reads the protocol and ports.  A pointer to a rule is the *)
(* node of std::map that holds it: `node` numbers the map nodes ever       *)
(* allocated, so a pointer outlives the erase of its node.                 *)
(*                                                                         *)
(* Each thread runs one API call at a time.  pc[t] is the point the call   *)
(* has reached; each step is one lock-method call (ReadWriteLock is        *)
(* atomic under its mutex_) or one access to shared rule data.  Logging    *)
(* and the conceptual trie/tree updates, which change no state, are left   *)
(* out; the Bloom filter's answer is ignored by classify, so its contents  *)
(* are not modelled, only the getRule calls made for it.                   *)
(***************************************************************************)
EXTENDS Naturals, Sequences, SequencesExt, FiniteSets

CONSTANTS
    Threads, NoThread,
    RuleIds,        \* the rule ids the callers use
    Priorities,     \* a set of naturals
    ActionSets,     \* ActionList values, model values
    Inputs,         \* the ClassificationRule values callers pass (RuleData)
    Ops,            \* the API calls the threads make, a subset of OpNames
    MaxOps,         \* bound on the number of API calls in a behaviour
    DetectConflictLocks, \* TRUE: detectConflict takes ReadLockGuard(rw_lock_)
    UseBloomFilter, \* the constructor's enable_bloom_filter_optimization
    NoRule,         \* matched_rule_id -1 of a result that matched nothing
    NoAction,       \* the default ActionList of such a result
    Header          \* the PacketHeader classify is called with

OpNames == {"addRule", "deleteRule", "modifyRule", "classify",
            "resetRuleStatistics", "resetStatistics", "getRuleStatistics",
            "getStatistics"}

Port == 0..65535

\* PacketFilter without the IP prefixes; 0 is "any" for protocol, and the
\* port range [0, 0] is "any" for ports.
Filters == [protocol : 0..255, source_port_low : Port, source_port_high : Port,
            dest_port_low : Port, dest_port_high : Port]

\* PacketHeader without the addresses, which matches never reads.
Headers == [protocol : 0..255, source_port : Port, dest_port : Port]

RuleData == [priority : Priorities, enabled : BOOLEAN, filter : Filters,
             actions : ActionSets]

\* The port check of PacketFilter::matches for one direction.
PortAllowed(low, high, port) == (low = 0 /\ high = 0) \/ (low <= port /\ port <= high)

\* PacketFilter::matches(header)
PacketFilterMatches(f, h) ==
    /\ f.protocol = 0 \/ f.protocol = h.protocol
    /\ PortAllowed(f.source_port_low, f.source_port_high, h.source_port)
    /\ PortAllowed(f.dest_port_low, f.dest_port_high, h.dest_port)


ASSUME /\ Ops \subseteq OpNames /\ Inputs \subseteq RuleData
       /\ MaxOps \in Nat /\ DetectConflictLocks \in BOOLEAN
       /\ UseBloomFilter \in BOOLEAN
       /\ NoRule \notin RuleIds /\ NoAction \notin ActionSets
       /\ Header \in Headers

VARIABLES
    locks,      \* locks["spec"], locks["rm"]: ReadWriteLock records
    rules,      \* RuleManager::rules_by_id_: id -> stored rule
    cache,      \* RuleManager::rules_by_priority_cache_: sequence of nodes
    nextNode,   \* the next std::map node to be allocated
    pc,         \* pc[t]: where thread t's current call is
    inWait,     \* inWait[t]: t is in writeLock's wait loop (counted as waiting)
    frame,      \* frame[t]: the call's arguments and locals
    result,     \* result[t]: the ClassificationResult of t's last classify
    seen,       \* seen[t]: every rule table that existed during t's classify
    opsLeft,    \* API calls still to be made
    freedRead   \* some reader dereferenced a rule whose node was erased

vars == <<locks, rules, cache, nextNode, pc, inWait, frame, result, seen,
          opsLeft, freedRead>>

RW == INSTANCE ReadWriteLock

LockNames == {"spec", "rm"}

\* What ClassificationRule holds: the caller's data, statistics, its node.
StoredRule(d, n) ==
    [priority |-> d.priority, enabled |-> d.enabled, filter |-> d.filter,
     actions |-> d.actions, match_count |-> 0, node |-> n]

\* The table as classification sees it (statistics left out).
Table(rs) ==
    [r \in DOMAIN rs |-> [priority |-> rs[r].priority, enabled |-> rs[r].enabled,
                          filter |-> rs[r].filter, actions |-> rs[r].actions]]

Nodes(rs) == {rs[r].node : r \in DOMAIN rs}

\* The id whose std::map node is n.
RuleAt(rs, n) == CHOOSE r \in DOMAIN rs : rs[r].node = n

\* A variant with the comparator reversed (a->priority < b->priority).
RebuiltCachesAscending(rs) ==
    {s \in SetToSeqs(Nodes(rs)) :
        \A i, j \in 1..Len(s) :
            i < j => rs[RuleAt(rs, s[i])].priority <= rs[RuleAt(rs, s[j])].priority}

(***************************************************************************)
(* rebuildPriorityCache: every live node, ordered by std::sort with the    *)
(* comparator a->priority > b->priority.  std::sort is not stable and the  *)
(* comparator ignores the id, so the order of equal priorities is any.     *)
(***************************************************************************)
RebuiltCaches(rs) ==
    {s \in SetToSeqs(Nodes(rs)) :
        \A i, j \in 1..Len(s) :
            i < j => rs[RuleAt(rs, s[i])].priority >= rs[RuleAt(rs, s[j])].priority}

NoMatch == [matched |-> FALSE, rule |-> NoRule, actions |-> NoAction]

ResultType ==
    {NoMatch} \cup [matched : {TRUE}, rule : RuleIds, actions : ActionSets]

FrameType ==
    [op : OpNames \cup {"none"}, id : RuleIds, data : Inputs,
     ptrs : Seq(Nat), idx : Nat]

TypeOK ==
    /\ locks \in [LockNames -> RW!LockType]
    /\ DOMAIN rules \subseteq RuleIds
    /\ \A r \in DOMAIN rules :
          /\ rules[r].priority \in Priorities /\ rules[r].match_count \in Nat
          /\ rules[r].node \in 0..nextNode - 1
    /\ cache \in Seq(0..nextNode - 1)
    /\ pc \in [Threads -> STRING]
    /\ inWait \in [Threads -> BOOLEAN]
    /\ frame \in [Threads -> FrameType]
    /\ result \in [Threads -> ResultType]
    /\ opsLeft \in 0..MaxOps
    /\ freedRead \in BOOLEAN

Init ==
    /\ locks = [l \in LockNames |-> RW!InitLock]
    /\ rules = <<>>
    /\ cache = <<>>
    /\ nextNode = 0
    /\ pc = [t \in Threads |-> "idle"]
    /\ inWait = [t \in Threads |-> FALSE]
    /\ frame = [t \in Threads |->
                  [op |-> "none", id |-> CHOOSE r \in RuleIds : TRUE,
                   data |-> CHOOSE d \in Inputs : TRUE, ptrs |-> <<>>, idx |-> 0]]
    /\ result = [t \in Threads |-> NoMatch]
    /\ seen = [t \in Threads |-> {}]
    /\ opsLeft = MaxOps
    /\ freedRead = FALSE

-----------------------------------------------------------------------------
(* Lock steps *)

Goto(t, label) == pc' = [pc EXCEPT ![t] = label]

\* One pass of readLock on lock l: granted (go on to next) or blocked.
AcquireRead(t, l, next) ==
    /\ t \notin locks[l].reader_cv
    /\ locks' = [locks EXCEPT ![l] = RW!ReadLock(@, t)]
    /\ Goto(t, IF RW!ReadPred(locks[l]) THEN next ELSE pc[t])
    /\ UNCHANGED inWait

\* The first call of writeLock on l, or one pass of its wait loop.
AcquireWrite(t, l, next) ==
    /\ t \notin locks[l].writer_cv
    /\ LET granted == IF inWait[t] THEN RW!WritePred(locks[l])
                      ELSE RW!WriteLockGranted(locks[l], t)
       IN  /\ locks' = [locks EXCEPT ![l] = IF inWait[t] THEN RW!WriteLockWait(@, t)
                                            ELSE RW!WriteLock(@, t)]
           /\ inWait' = [inWait EXCEPT ![t] = ~granted]
           /\ Goto(t, IF granted THEN next ELSE pc[t])

\* The lock functions possible after readUnlock / writeUnlock of l.
AfterReadUnlock(ls, l) == {[ls EXCEPT ![l] = x] : x \in RW!ReadUnlock(ls[l])}
AfterWriteUnlock(ls, l, t) == {[ls EXCEPT ![l] = x] : x \in RW!WriteUnlock(ls[l], t)}

\* Replacing rules_by_id_: every classify in progress may observe the new table.
SetRules(new) ==
    /\ rules' = new
    /\ seen' = [u \in Threads |->
                  IF frame[u].op = "classify" /\ pc[u] # "idle"
                  THEN seen[u] \cup {Table(new)} ELSE seen[u]]

Return(t) == Goto(t, "idle")

-----------------------------------------------------------------------------
(* Calls *)

FirstLabel ==
    [addRule |-> "add_rm_lock", deleteRule |-> "del_spec_lock",
     modifyRule |-> "mod_rm_lock", classify |-> "cls_spec_lock",
     resetRuleStatistics |-> "rst_lock", resetStatistics |-> "rsa_lock",
     getRuleStatistics |-> "grs_lock", getStatistics |-> "gs_lock"]

\* A thread starts an API call; arguments a call does not take are fixed.
Call(t) ==
    /\ pc[t] = "idle"
    /\ opsLeft > 0
    /\ \E op \in Ops :
       \E r \in IF op \in {"classify", "resetStatistics", "getStatistics"}
                THEN {frame[t].id} ELSE RuleIds :
       \E d \in IF op \in {"addRule", "modifyRule"} THEN Inputs ELSE {frame[t].data} :
          /\ frame' = [frame EXCEPT ![t] = [op |-> op, id |-> r, data |-> d,
                                            ptrs |-> <<>>, idx |-> 0]]
          /\ Goto(t, FirstLabel[op])
          /\ seen' = IF op = "classify" THEN [seen EXCEPT ![t] = {Table(rules)}]
                     ELSE seen
    /\ opsLeft' = opsLeft - 1
    /\ UNCHANGED <<locks, rules, cache, nextNode, inWait, result, freedRead>>

\* Every call made has returned and no call is left to make.
Finished ==
    /\ opsLeft = 0
    /\ \A t \in Threads : pc[t] = "idle"
    /\ UNCHANGED vars

-----------------------------------------------------------------------------
(* RuleManager::addRule and the write-locked part of modifyRule *)

Id(t) == frame[t].id

AddRmLock(t) ==
    /\ pc[t] = "add_rm_lock"
    /\ AcquireWrite(t, "rm", "add_rm_check")
    /\ UNCHANGED <<rules, cache, nextNode, frame, result, seen, opsLeft, freedRead>>

\* The duplicate check; detectConflict follows.
AddRmCheck(t) ==
    /\ pc[t] = "add_rm_check"
    /\ \/ /\ Id(t) \in DOMAIN rules
          /\ locks' \in AfterWriteUnlock(locks, "rm", t)
          /\ Return(t)
       \/ /\ Id(t) \notin DOMAIN rules
          /\ Goto(t, "add_conflict")
          /\ UNCHANGED locks
    /\ UNCHANGED <<rules, cache, nextNode, inWait, frame, result, seen, opsLeft, freedRead>>

(***************************************************************************)
(* detectConflict, called by addRule and modifyRule while they hold the    *)
(* write lock, always returns false.  As written it takes                  *)
(* ReadLockGuard(rw_lock_): one pass of readLock, which either returns     *)
(* (and the guard is released at once) or blocks.  With                   *)
(* DetectConflictLocks = FALSE the guard is left out and the call does     *)
(* nothing.                                                                *)
(***************************************************************************)
ConflictNext == [add_conflict |-> "add_emplace", mod_conflict |-> "mod_assign"]

DetectConflict(t) ==
    /\ pc[t] \in {"add_conflict", "mod_conflict"}
    /\ IF DetectConflictLocks
       THEN /\ t \notin locks["rm"].reader_cv
            /\ LET ls == [locks EXCEPT !["rm"] = RW!ReadLock(@, t)]
               IN  IF RW!ReadPred(locks["rm"])
                   THEN locks' \in AfterReadUnlock(ls, "rm") /\ Goto(t, ConflictNext[pc[t]])
                   ELSE locks' = ls /\ UNCHANGED pc
       ELSE Goto(t, ConflictNext[pc[t]]) /\ UNCHANGED locks
    /\ UNCHANGED <<rules, cache, nextNode, inWait, frame, result, seen, opsLeft, freedRead>>

\* emplace, rebuildPriorityCache, and the guard's writeUnlock.
AddEmplace(t) ==
    /\ pc[t] = "add_emplace"
    /\ LET new == (Id(t) :> StoredRule(frame[t].data, nextNode)) @@ rules
       IN  /\ SetRules(new)
           /\ cache' \in RebuiltCaches(new)
    /\ nextNode' = nextNode + 1
    /\ locks' \in AfterWriteUnlock(locks, "rm", t)
    /\ Goto(t, "add_spec_lock")
    /\ UNCHANGED <<inWait, frame, result, opsLeft, freedRead>>

ModRmLock(t) ==
    /\ pc[t] = "mod_rm_lock"
    /\ AcquireWrite(t, "rm", "mod_rm_find")
    /\ UNCHANGED <<rules, cache, nextNode, frame, result, seen, opsLeft, freedRead>>

ModRmFind(t) ==
    /\ pc[t] = "mod_rm_find"
    /\ \/ /\ Id(t) \notin DOMAIN rules
          /\ locks' \in AfterWriteUnlock(locks, "rm", t)
          /\ Return(t)
       \/ /\ Id(t) \in DOMAIN rules
          /\ Goto(t, "mod_conflict")
          /\ UNCHANGED locks
    /\ UNCHANGED <<rules, cache, nextNode, inWait, frame, result, seen, opsLeft, freedRead>>

\* A variant that rebuilds the cache only when it is empty.
ModAssignKeepCache(t) ==
    /\ pc[t] = "mod_assign"
    /\ LET new == [rules EXCEPT ![Id(t)] = StoredRule(frame[t].data, rules[Id(t)].node)]
       IN  /\ SetRules(new)
           /\ cache' \in IF cache = <<>> THEN RebuiltCaches(new) ELSE {cache}
    /\ locks' \in AfterWriteUnlock(locks, "rm", t)
    /\ Goto(t, "mod_spec_lock")
    /\ UNCHANGED <<nextNode, inWait, frame, result, opsLeft, freedRead>>

(***************************************************************************)
(* it->second = new_rule_data (statistics included) keeping id and node;   *)
(* the cache is rebuilt only if the priority changed or the cache is empty.*)
(***************************************************************************)
ModAssign(t) ==
    /\ pc[t] = "mod_assign"
    /\ LET old == rules[Id(t)]
           new == [rules EXCEPT ![Id(t)] = StoredRule(frame[t].data, old.node)]
           priorityChanged == old.priority # frame[t].data.priority
       IN  /\ SetRules(new)
           /\ cache' \in IF priorityChanged \/ cache = <<>>
                         THEN RebuiltCaches(new) ELSE {cache}
    /\ locks' \in AfterWriteUnlock(locks, "rm", t)
    /\ Goto(t, "mod_spec_lock")
    /\ UNCHANGED <<nextNode, inWait, frame, result, opsLeft, freedRead>>

-----------------------------------------------------------------------------
(* PacketClassifier: the specialized-structure phase of add/modify/delete *)

Unchanged_data == UNCHANGED <<rules, cache, nextNode, frame, result, seen, opsLeft, freedRead>>

\* addRule / modifyRule: WriteLockGuard spec_lock(specialized_structures_lock_).
AddSpecLock(t) ==
    /\ pc[t] = "add_spec_lock"
    /\ AcquireWrite(t, "spec", "upd_lock")
    /\ Unchanged_data

ModSpecLock(t) ==
    /\ pc[t] = "mod_spec_lock"
    /\ AcquireWrite(t, "spec", "rem_lock")
    /\ Unchanged_data

DelSpecLock(t) ==
    /\ pc[t] = "del_spec_lock"
    /\ AcquireWrite(t, "spec", "rem_lock")
    /\ Unchanged_data

\* updateSpecializedStructuresForRule: its own (recursive) WriteLockGuard ...
UpdLock(t) ==
    /\ pc[t] = "upd_lock"
    /\ AcquireWrite(t, "spec", "upd_get")
    /\ Unchanged_data

\* ... then getRule, under ReadLockGuard(rw_lock_) ...
UpdGet(t) ==
    /\ pc[t] = "upd_get"
    /\ AcquireRead(t, "rm", "upd_found")
    /\ Unchanged_data

(***************************************************************************)
(* ... getRule returns (read guard released); the helper returns false if  *)
(* the rule is gone, true otherwise (inner guard released).  On false the  *)
(* caller returns false at once (outer guard released), with the rule left *)
(* as it is in the RuleManager: nothing is rolled back.  On true it looks  *)
(* the rule up once more for the Bloom filter if that is in use.           *)
(***************************************************************************)
UpdFound(t) ==
    /\ pc[t] = "upd_found"
    /\ \E l1 \in AfterReadUnlock(locks, "rm") :
       \E l2 \in AfterWriteUnlock(l1, "spec", t) :
          IF Id(t) \in DOMAIN rules /\ UseBloomFilter
          THEN locks' = l2 /\ Goto(t, "bloom_get")
          ELSE locks' \in AfterWriteUnlock(l2, "spec", t) /\ Return(t)
    /\ UNCHANGED inWait
    /\ Unchanged_data

BloomGet(t) ==
    /\ pc[t] = "bloom_get"
    /\ AcquireRead(t, "rm", "bloom_done")
    /\ Unchanged_data

\* getRule returns; bloom_filter_->insert (not modelled); outer guard released.
BloomDone(t) ==
    /\ pc[t] = "bloom_done"
    /\ \E l1 \in AfterReadUnlock(locks, "rm") :
          locks' \in AfterWriteUnlock(l1, "spec", t)
    /\ Return(t)
    /\ UNCHANGED inWait
    /\ Unchanged_data

\* removeRuleFromSpecializedStructures: recursive WriteLockGuard, getRule.
RemLock(t) ==
    /\ pc[t] = "rem_lock"
    /\ AcquireWrite(t, "spec", "rem_get")
    /\ Unchanged_data

RemGet(t) ==
    /\ pc[t] = "rem_get"
    /\ AcquireRead(t, "rm", "rem_done")
    /\ Unchanged_data

(***************************************************************************)
(* The helper always returns true.  modifyRule goes on to update the       *)
(* structures under the same outer guard; deleteRule releases its guard    *)
(* and only then erases the rule from the RuleManager.                     *)
(***************************************************************************)
RemDone(t) ==
    /\ pc[t] = "rem_done"
    /\ \E l1 \in AfterReadUnlock(locks, "rm") :
       \E l2 \in AfterWriteUnlock(l1, "spec", t) :
          IF frame[t].op = "deleteRule"
          THEN locks' \in AfterWriteUnlock(l2, "spec", t) /\ Goto(t, "del_rm_lock")
          ELSE locks' = l2 /\ Goto(t, "upd_lock")
    /\ UNCHANGED inWait
    /\ Unchanged_data

\* RuleManager::deleteRule: erase, rebuildPriorityCache if erased.
DelRmLock(t) ==
    /\ pc[t] = "del_rm_lock"
    /\ AcquireWrite(t, "rm", "del_rm_body")
    /\ Unchanged_data

DelRmBody(t) ==
    /\ pc[t] = "del_rm_body"
    /\ IF Id(t) \in DOMAIN rules
       THEN LET new == [r \in DOMAIN rules \ {Id(t)} |-> rules[r]]
            IN  SetRules(new) /\ cache' \in RebuiltCaches(new)
       ELSE UNCHANGED <<rules, seen, cache>>
    /\ locks' \in AfterWriteUnlock(locks, "rm", t)
    /\ Return(t)
    /\ UNCHANGED <<nextNode, inWait, frame, result, opsLeft, freedRead>>

-----------------------------------------------------------------------------
(* PacketClassifier::classify *)

Live(n) == n \in Nodes(rules)

(***************************************************************************)
(* Reading a field of the rule behind pointer n.  If its node was erased   *)
(* the read is of freed memory: undefined behaviour, any value may come    *)
(* back.                                                                   *)
(***************************************************************************)
ReadField(n, f, anyValue) == IF Live(n) THEN {rules[RuleAt(rules, n)][f]} ELSE anyValue

Ptr(t) == frame[t].ptrs[frame[t].idx]

NextRule(t) == frame' = [frame EXCEPT ![t].idx = @ + 1]

ClsSpecLock(t) ==
    /\ pc[t] = "cls_spec_lock"
    /\ AcquireRead(t, "spec", "cls_get")
    /\ Unchanged_data

\* getRulesByPriority: ReadLockGuard(rw_lock_), copy the pointers, release.
ClsGet(t) ==
    /\ pc[t] = "cls_get"
    /\ AcquireRead(t, "rm", "cls_copy")
    /\ Unchanged_data

ClsCopy(t) ==
    /\ pc[t] = "cls_copy"
    /\ frame' = [frame EXCEPT ![t].ptrs = cache, ![t].idx = 1]
    /\ locks' \in AfterReadUnlock(locks, "rm")
    /\ Goto(t, "cls_enabled")
    /\ UNCHANGED <<rules, cache, nextNode, inWait, result, seen, opsLeft, freedRead>>

\* The loop head and `if (!rule || !rule->enabled) continue;`.
ClsEnabled(t) ==
    /\ pc[t] = "cls_enabled"
    /\ \/ /\ frame[t].idx > Len(frame[t].ptrs)
          /\ result' = [result EXCEPT ![t] = NoMatch]
          /\ locks' \in AfterReadUnlock(locks, "spec")
          /\ Return(t)
          /\ UNCHANGED <<frame, freedRead>>
       \/ /\ frame[t].idx <= Len(frame[t].ptrs)
          /\ freedRead' = (freedRead \/ ~Live(Ptr(t)))
          /\ \E en \in ReadField(Ptr(t), "enabled", BOOLEAN) :
                IF en THEN Goto(t, "cls_match") /\ UNCHANGED frame
                ELSE NextRule(t) /\ UNCHANGED pc
          /\ UNCHANGED <<locks, result>>
    /\ UNCHANGED <<rules, cache, nextNode, inWait, seen, opsLeft>>

\* rule->filter.matches(header)
ClsMatch(t) ==
    /\ pc[t] = "cls_match"
    /\ freedRead' = (freedRead \/ ~Live(Ptr(t)))
    /\ \E m \in IF Live(Ptr(t))
                THEN {PacketFilterMatches(rules[RuleAt(rules, Ptr(t))].filter, Header)}
                ELSE BOOLEAN :
          IF m THEN Goto(t, "cls_result") /\ UNCHANGED frame
          ELSE NextRule(t) /\ Goto(t, "cls_enabled")
    /\ UNCHANGED <<locks, rules, cache, nextNode, inWait, result, seen, opsLeft>>

\* result.matched_rule_id = rule->rule_id; result.actions = rule->actions;
ClsResult(t) ==
    /\ pc[t] = "cls_result"
    /\ freedRead' = (freedRead \/ ~Live(Ptr(t)))
    /\ \E r \in IF Live(Ptr(t)) THEN {RuleAt(rules, Ptr(t))} ELSE RuleIds :
       \E a \in ReadField(Ptr(t), "actions", ActionSets) :
          result' = [result EXCEPT ![t] = [matched |-> TRUE, rule |-> r, actions |-> a]]
    /\ Goto(t, "cls_inc")
    /\ UNCHANGED <<locks, rules, cache, nextNode, inWait, frame, seen, opsLeft>>

\* incrementRuleMatchCount(rule->rule_id, now) under WriteLockGuard(rw_lock_).
ClsInc(t) ==
    /\ pc[t] = "cls_inc"
    /\ AcquireWrite(t, "rm", "cls_inc_body")
    /\ Unchanged_data

\* The count is bumped if the id is found; then classify returns (spec guard released).
ClsIncBody(t) ==
    /\ pc[t] = "cls_inc_body"
    /\ LET r == result[t].rule
       IN  IF r \in DOMAIN rules
           THEN SetRules([rules EXCEPT ![r].match_count = @ + 1])
           ELSE UNCHANGED <<rules, seen>>
    /\ \E l1 \in AfterWriteUnlock(locks, "rm", t) :
          locks' \in AfterReadUnlock(l1, "spec")
    /\ Return(t)
    /\ UNCHANGED <<cache, nextNode, inWait, frame, result, opsLeft, freedRead>>

-----------------------------------------------------------------------------
(* Statistics: resetRuleStatistics / resetStatistics -> RuleManager *)

RstLock(t) ==
    /\ pc[t] = "rst_lock"
    /\ AcquireWrite(t, "rm", "rst_body")
    /\ Unchanged_data

RstBody(t) ==
    /\ pc[t] = "rst_body"
    /\ IF Id(t) \in DOMAIN rules
       THEN SetRules([rules EXCEPT ![Id(t)].match_count = 0])
       ELSE UNCHANGED <<rules, seen>>
    /\ locks' \in AfterWriteUnlock(locks, "rm", t)
    /\ Return(t)
    /\ UNCHANGED <<cache, nextNode, inWait, frame, result, opsLeft, freedRead>>

RsaLock(t) ==
    /\ pc[t] = "rsa_lock"
    /\ AcquireWrite(t, "rm", "rsa_body")
    /\ Unchanged_data

RsaBody(t) ==
    /\ pc[t] = "rsa_body"
    /\ SetRules([r \in DOMAIN rules |-> [rules[r] EXCEPT !.match_count = 0]])
    /\ locks' \in AfterWriteUnlock(locks, "rm", t)
    /\ Return(t)
    /\ UNCHANGED <<cache, nextNode, inWait, frame, result, opsLeft, freedRead>>

-----------------------------------------------------------------------------
(***************************************************************************)
(* Statistics getters.  Both take RuleManager's read lock only to copy     *)
(* pointers and read match_count through them after it is released.  The  *)
(* value read is returned to the caller and nothing in the system uses it, *)
(* so only the dereference is kept.                                        *)
(***************************************************************************)

\* getRuleStatistics: getRule takes ReadLockGuard(rw_lock_) ...
GrsLock(t) ==
    /\ pc[t] = "grs_lock"
    /\ AcquireRead(t, "rm", "grs_find")
    /\ Unchanged_data

\* ... and returns &it->second or nullptr (guard released); 0 if not found.
GrsFind(t) ==
    /\ pc[t] = "grs_find"
    /\ locks' \in AfterReadUnlock(locks, "rm")
    /\ IF Id(t) \in DOMAIN rules
       THEN /\ frame' = [frame EXCEPT ![t].ptrs = <<rules[Id(t)].node>>, ![t].idx = 1]
            /\ Goto(t, "grs_read")
       ELSE Return(t) /\ UNCHANGED frame
    /\ UNCHANGED <<rules, cache, nextNode, inWait, result, seen, opsLeft, freedRead>>

\* return rule->match_count;
GrsRead(t) ==
    /\ pc[t] = "grs_read"
    /\ freedRead' = (freedRead \/ ~Live(Ptr(t)))
    /\ Return(t)
    /\ UNCHANGED <<locks, rules, cache, nextNode, inWait, frame, result, seen, opsLeft>>

\* getStatistics: getAllRules takes ReadLockGuard(rw_lock_) ...
GsLock(t) ==
    /\ pc[t] = "gs_lock"
    /\ AcquireRead(t, "rm", "gs_copy")
    /\ Unchanged_data

\* ... copies (id, &rule) for every rule in id order and releases it.
GsCopy(t) ==
    /\ pc[t] = "gs_copy"
    /\ LET ids == SetToSortSeq(DOMAIN rules, LAMBDA a, b : a < b)
       IN  frame' = [frame EXCEPT ![t].ptrs = [i \in DOMAIN ids |-> rules[ids[i]].node],
                                  ![t].idx = 1]
    /\ locks' \in AfterReadUnlock(locks, "rm")
    /\ Goto(t, "gs_read")
    /\ UNCHANGED <<rules, cache, nextNode, inWait, result, seen, opsLeft, freedRead>>

\* The loop stats[id] = pair.second->match_count, one pointer per step.
GsRead(t) ==
    /\ pc[t] = "gs_read"
    /\ \/ /\ frame[t].idx > Len(frame[t].ptrs)
          /\ Return(t)
          /\ UNCHANGED <<frame, freedRead>>
       \/ /\ frame[t].idx <= Len(frame[t].ptrs)
          /\ freedRead' = (freedRead \/ ~Live(Ptr(t)))
          /\ NextRule(t)
          /\ UNCHANGED pc
    /\ UNCHANGED <<locks, rules, cache, nextNode, inWait, result, seen, opsLeft>>

-----------------------------------------------------------------------------

Step(t) ==
    \/ AddRmLock(t) \/ AddRmCheck(t) \/ DetectConflict(t) \/ AddEmplace(t)
    \/ ModRmLock(t) \/ ModRmFind(t) \/ ModAssign(t)
    \/ AddSpecLock(t) \/ ModSpecLock(t) \/ DelSpecLock(t)
    \/ UpdLock(t) \/ UpdGet(t) \/ UpdFound(t) \/ BloomGet(t) \/ BloomDone(t)
    \/ RemLock(t) \/ RemGet(t) \/ RemDone(t) \/ DelRmLock(t) \/ DelRmBody(t)
    \/ ClsSpecLock(t) \/ ClsGet(t) \/ ClsCopy(t) \/ ClsEnabled(t) \/ ClsMatch(t)
    \/ ClsResult(t) \/ ClsInc(t) \/ ClsIncBody(t)
    \/ RstLock(t) \/ RstBody(t) \/ RsaLock(t) \/ RsaBody(t)
    \/ GrsLock(t) \/ GrsFind(t) \/ GrsRead(t) \/ GsLock(t) \/ GsCopy(t) \/ GsRead(t)

Next == (\E t \in Threads : Call(t) \/ Step(t)) \/ Finished

\* Every runnable thread is eventually scheduled; callers need not call.
Fairness == \A t \in Threads : WF_vars(Step(t))

Spec == Init /\ [][Next]_vars

FairSpec == Spec /\ Fairness

-----------------------------------------------------------------------------
(* Properties *)

PriorityOf(n) == rules[RuleAt(rules, n)].priority

(***************************************************************************)
(* The priority cache classify walks always holds each live rule exactly   *)
(* once, in order of non-increasing current priority, whatever sequence of *)
(* addRule, modifyRule (which rebuilds only on a priority change) and      *)
(* deleteRule calls has happened.                                          *)
(***************************************************************************)
CacheMatchesRules ==
    /\ Len(cache) = Cardinality(DOMAIN rules)
    /\ Range(cache) = Nodes(rules)
    /\ \A i, j \in 1..Len(cache) : i < j => PriorityOf(cache[i]) >= PriorityOf(cache[j])

\* What classifying against one rule table may return (ties in any order).
Classifications(T) ==
    LET cand == {r \in DOMAIN T : T[r].enabled /\ PacketFilterMatches(T[r].filter, Header)}
        best == {r \in cand : \A q \in cand : T[r].priority >= T[q].priority}
    IN  IF cand = {} THEN {NoMatch}
        ELSE {[matched |-> TRUE, rule |-> r, actions |-> T[r].actions] : r \in best}

(***************************************************************************)
(* spec.md: a reader sees the rule set before or after an update, never a  *)
(* mixture.  Every classify that has returned returned what classifying    *)
(* against one rule table that existed during the call gives: the matched *)
(* rule was the best enabled matching rule of that table and the actions   *)
(* are that rule's actions in that table.  classify reads the rules        *)
(* through pointers after RuleManager's lock is released.                  *)
(***************************************************************************)
ClassifyLinearizable ==
    \A t \in Threads :
        frame[t].op = "classify" /\ pc[t] = "idle" =>
            result[t] \in UNION {Classifications(T) : T \in seen[t]}

(***************************************************************************)
(* No reader (classify, getRuleStatistics, getStatistics) dereferences a   *)
(* rule pointer whose std::map node has been erased by deleteRule.         *)
(***************************************************************************)
NoUseAfterFree == ~freedRead

(***************************************************************************)
(* Every API call returns: no thread waits forever on either lock.         *)
(***************************************************************************)
EveryCallReturns == \A t \in Threads : pc[t] # "idle" ~> pc[t] = "idle"

=============================================================================
