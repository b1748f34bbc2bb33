----------------------------- MODULE AuditChain -----------------------------
(***************************************************************************)
(* The append side of the audit chain: _AuditAppender, _write_chain_batch  *)
(* and _insert_chain_links of backend/services/security_service.py. The    *)
(* threads of a process queue their events; one of them, the leader,       *)
(* writes a batch of the queue and wakes the others. Processes exclude     *)
(* each other by an advisory lock that lasts as long as the transaction.   *)
(*                                                                         *)
(* Thread t appends event t. The hash of a link is modelled by all it      *)
(* covers: the events of the chain up to and including the link's.         *)
(*                                                                         *)
(* Where a thread is:                                                      *)
(*   new       has not called append     queued   waits, or may lead       *)
(*   leading   has taken a batch         locked   holds the advisory lock  *)
(*                                                and has read the head    *)
(*   unwinding interrupted, its session is not closed yet                  *)
(*   returned, failed, crashed                                             *)
(***************************************************************************)
EXTENDS Naturals, Sequences, FiniteSets

CONSTANTS Threads,
          Processes,
          ProcessOf,    \* thread |-> its process
          Bad,          \* threads whose event the database refuses
          Nobody,       \* nobody holds the advisory lock
          BatchMax,     \* _AUDIT_BATCH_MAX
          MaxFaults     \* bound on database errors, interruptions, crashes

ASSUME ChainAssumption ==
    /\ ProcessOf \in [Threads -> Processes]
    /\ Bad \subseteq Threads
    /\ Nobody \notin Threads
    /\ BatchMax \in Nat \ {0} /\ MaxFaults \in Nat

VARIABLES chain,     \* audit_logs with audit_chain_links: a set of links
          lock,      \* the thread whose transaction holds the advisory lock
          queue,     \* per process: _AuditAppender._queue
          writing,   \* per process: _AuditAppender._writing
          pc,
          batch,     \* per leader: the batch it took off the queue
          todo,      \* per leader: the groups of the batch still to be inserted
          head,      \* per leader: the newest link it read
          done,      \* per thread: _PendingAudit.done
          error,     \* per thread: _PendingAudit.error is set
          faults

appender  == <<queue, writing>>
leaderVars == <<batch, todo, head>>
vars == <<chain, lock, appender, pc, leaderVars, done, error, faults>>

Genesis == [sequence |-> 0, hash |-> << >>]

Init ==
    /\ chain = {} /\ lock = Nobody
    /\ queue   = [p \in Processes |-> << >>]
    /\ writing = [p \in Processes |-> FALSE]
    /\ pc      = [t \in Threads |-> "new"]
    /\ batch   = [t \in Threads |-> << >>]
    /\ todo    = [t \in Threads |-> << >>]
    /\ head    = [t \in Threads |-> Genesis]
    /\ done    = [t \in Threads |-> FALSE]
    /\ error   = [t \in Threads |-> FALSE]
    /\ faults  = 0

Goto(t, loc) == pc' = [pc EXCEPT ![t] = loc]

Members(g) == {g[i] : i \in DOMAIN g}

-----------------------------------------------------------------------------
(* _AuditAppender.append *)

Enqueue(t) ==
    /\ pc[t] = "new"
    /\ Goto(t, "queued")
    /\ queue' = [queue EXCEPT ![ProcessOf[t]] = Append(@, t)]
    /\ UNCHANGED <<chain, lock, writing, leaderVars, done, error, faults>>

(* The thread whose event is not written yet and that finds nobody writing *)
(* takes the front of the queue, which need not hold its own event.        *)
Lead(t) ==
    LET p == ProcessOf[t]
        n == IF Len(queue[p]) < BatchMax THEN Len(queue[p]) ELSE BatchMax
    IN /\ pc[t] = "queued" /\ ~done[t] /\ ~writing[p]
       /\ writing' = [writing EXCEPT ![p] = TRUE]
       /\ batch'   = [batch EXCEPT ![t] = SubSeq(queue[p], 1, n)]
       /\ todo'    = [todo EXCEPT ![t] = <<SubSeq(queue[p], 1, n)>>]
       /\ queue'   = [queue EXCEPT ![p] = SubSeq(@, n + 1, Len(@))]
       /\ Goto(t, "leading")
       /\ UNCHANGED <<chain, lock, head, done, error, faults>>

Return(t) ==
    /\ pc[t] = "queued" /\ done[t]
    /\ Goto(t, IF error[t] THEN "failed" ELSE "returned")
    /\ UNCHANGED <<chain, lock, appender, leaderVars, done, error, faults>>

-----------------------------------------------------------------------------
(* _insert_chain_links: one transaction per group *)

(* The lock, then the newest link, in one round trip. *)
LockHead(t) ==
    /\ pc[t] = "leading" /\ todo[t] # << >> /\ lock = Nobody
    /\ lock' = t
    /\ head' = [head EXCEPT ![t] =
                   IF chain = {} THEN Genesis
                   ELSE LET newest == CHOOSE l \in chain : \A m \in chain : m.sequence <= l.sequence
                        IN [sequence |-> newest.sequence, hash |-> newest.hash]]
    /\ Goto(t, "locked")
    /\ UNCHANGED <<chain, appender, batch, todo, done, error, faults>>

(* All links of a group point at the head (mutant of Links). *)
LinksToHead(h, g) ==
    {[sequence |-> h.sequence + i, event |-> g[i], previous |-> h.hash,
      hash |-> h.hash \o SubSeq(g, 1, i)] : i \in 1..Len(g)}

Links(h, g) ==
    {[sequence |-> h.sequence + i, event |-> g[i], previous |-> h.hash \o SubSeq(g, 1, i - 1),
      hash |-> h.hash \o SubSeq(g, 1, i)] : i \in 1..Len(g)}

Group(t) == todo[t][1]

(* The unique columns of the two tables, and the events' own constraints. *)
Insertable(t) ==
    /\ Members(Group(t)) \cap Bad = {}
    /\ \A l \in chain, m \in Links(head[t], Group(t)) :
          l.sequence # m.sequence /\ l.event # m.event

Unlock(t) == lock' = IF lock = t THEN Nobody ELSE lock

InsertLinks(t) ==
    /\ pc[t] = "locked" /\ Insertable(t)
    /\ chain' = chain \cup Links(head[t], Group(t))
    /\ todo'  = [todo EXCEPT ![t] = Tail(@)]
    /\ Goto(t, "leading") /\ Unlock(t)
    /\ UNCHANGED <<appender, batch, head, done, error, faults>>

(* The error of a single append is dropped (mutant of Refused). *)
RefusedSilently(t) ==
    /\ todo' = [todo EXCEPT ![t] = IF Len(Group(t)) = 1 THEN Tail(@)
                                   ELSE [i \in DOMAIN batch[t] |-> <<batch[t][i]>>]]
    /\ UNCHANGED error

(* _write_chain_batch: a refused batch of several is tried again one by    *)
(* one, a refused append fails its caller.                                 *)
Refused(t) ==
    IF Len(Group(t)) = 1
    THEN /\ error' = [error EXCEPT ![Group(t)[1]] = TRUE]
         /\ todo'  = [todo EXCEPT ![t] = Tail(@)]
    ELSE /\ todo' = [todo EXCEPT ![t] = [i \in DOMAIN batch[t] |-> <<batch[t][i]>>]]
         /\ UNCHANGED error

InsertRefused(t) ==
    /\ pc[t] = "locked" /\ ~Insertable(t)
    /\ Refused(t)
    /\ Goto(t, "leading") /\ Unlock(t)
    /\ UNCHANGED <<chain, appender, batch, head, done, faults>>

(* The database fails: before the commit, or after it and before the       *)
(* answer, so that the transaction is in the chain all the same.           *)
DatabaseFails(t) ==
    /\ pc[t] = "locked" /\ faults < MaxFaults
    /\ faults' = faults + 1
    /\ \/ UNCHANGED chain
       \/ Insertable(t) /\ chain' = chain \cup Links(head[t], Group(t))
    /\ Refused(t)
    /\ Goto(t, "leading") /\ Unlock(t)
    /\ UNCHANGED <<appender, batch, head, done>>

-----------------------------------------------------------------------------
(* The end of a batch *)

(* The leader goes back to the loop: its own event may still be queued. *)
FinishBatch(t) ==
    /\ pc[t] = "leading" /\ todo[t] = << >>
    /\ done'    = [u \in Threads |-> done[u] \/ u \in Members(batch[t])]
    /\ writing' = [writing EXCEPT ![ProcessOf[t]] = FALSE]
    /\ batch'   = [batch EXCEPT ![t] = << >>]
    /\ head'    = [head EXCEPT ![t] = Genesis]
    /\ Goto(t, "queued")
    /\ UNCHANGED <<chain, lock, queue, todo, error, faults>>

(* Nobody is told (mutant of Interrupt). *)
InterruptUnnoticed(t) ==
    /\ faults < MaxFaults /\ pc[t] \in {"leading", "locked"}
    /\ faults' = faults + 1
    /\ batch'   = [batch EXCEPT ![t] = << >>]
    /\ todo'    = [todo EXCEPT ![t] = << >>]
    /\ head'    = [head EXCEPT ![t] = Genesis]
    /\ Goto(t, "unwinding")
    /\ UNCHANGED <<chain, lock, appender, done, error>>

(* A BaseException ends the leader: the finally clause fails the batch,    *)
(* whatever of it is already in the chain, and lets the next leader on.    *)
(* The transaction lasts until the session is closed.                      *)
Interrupt(t) ==
    /\ faults < MaxFaults /\ pc[t] \in {"leading", "locked"}
    /\ faults' = faults + 1
    /\ done'    = [u \in Threads |-> done[u] \/ u \in Members(batch[t])]
    /\ error'   = [u \in Threads |-> error[u] \/ u \in Members(batch[t])]
    /\ writing' = [writing EXCEPT ![ProcessOf[t]] = FALSE]
    /\ batch'   = [batch EXCEPT ![t] = << >>]
    /\ todo'    = [todo EXCEPT ![t] = << >>]
    /\ head'    = [head EXCEPT ![t] = Genesis]
    /\ Goto(t, "unwinding")
    /\ UNCHANGED <<chain, lock, queue>>

CloseSession(t) ==
    /\ pc[t] = "unwinding"
    /\ Goto(t, "failed") /\ Unlock(t)
    /\ UNCHANGED <<chain, appender, leaderVars, done, error, faults>>

(* A process dies with its queue; its open transaction is rolled back. *)
Crash(p) ==
    LET own == {t \in Threads : ProcessOf[t] = p /\ pc[t] # "new"}
    IN /\ faults < MaxFaults
       /\ faults' = faults + 1
       /\ pc'     = [t \in Threads |-> IF t \in own THEN "crashed" ELSE pc[t]]
       /\ queue'  = [queue EXCEPT ![p] = << >>]
       /\ writing' = [writing EXCEPT ![p] = FALSE]
       /\ batch'  = [t \in Threads |-> IF t \in own THEN << >> ELSE batch[t]]
       /\ todo'   = [t \in Threads |-> IF t \in own THEN << >> ELSE todo[t]]
       /\ head'   = [t \in Threads |-> IF t \in own THEN Genesis ELSE head[t]]
       /\ lock'   = IF lock \in own THEN Nobody ELSE lock
       /\ UNCHANGED <<chain, done, error>>

-----------------------------------------------------------------------------
Step(t) ==
    \/ Lead(t) \/ Return(t) \/ LockHead(t) \/ InsertLinks(t) \/ InsertRefused(t)
    \/ FinishBatch(t) \/ CloseSession(t)

Next ==
    \/ \E t \in Threads : Enqueue(t) \/ Step(t) \/ DatabaseFails(t) \/ Interrupt(t)
    \/ \E p \in Processes : Crash(p)

Spec == Init /\ [][Next]_vars

(* A thread that can go on for good does: notify_all wakes every waiting   *)
(* thread, and a process that waits for a free advisory lock gets it.      *)
FairSpec == Spec /\ \A t \in Threads : WF_vars(Step(t))

-----------------------------------------------------------------------------
(* Properties *)

Link == [sequence : Nat \ {0}, event : Threads, previous : Seq(Threads), hash : Seq(Threads)]

(* Every variable has its type; a batch, for which the whole deployment    *)
(* waits while it is signed, has at most BatchMax events.                  *)
TypeOK ==
    /\ chain \in SUBSET Link
    /\ lock \in Threads \cup {Nobody}
    /\ queue   \in [Processes -> Seq(Threads)]
    /\ writing \in [Processes -> BOOLEAN]
    /\ pc \in [Threads -> {"new", "queued", "leading", "locked", "unwinding", "returned",
                           "failed", "crashed"}]
    /\ batch \in [Threads -> Seq(Threads)] /\ todo \in [Threads -> Seq(Seq(Threads))]
    /\ \A t \in Threads : Len(batch[t]) <= BatchMax
    /\ head  \in [Threads -> [sequence : Nat, hash : Seq(Threads)]]
    /\ done  \in [Threads -> BOOLEAN] /\ error \in [Threads -> BOOLEAN]
    /\ faults \in 0..MaxFaults

(* The audit history is one chain: the sequence numbers have no gap, each  *)
(* link points at the one before it, and no event is linked twice,         *)
(* whichever processes wrote it and whatever failed on the way. (Pointers  *)
(* and hashes are what audit_chain_status checks, not gaps or repetition.) *)
ChainIsLinear ==
    /\ {l.sequence : l \in chain} = 1..Cardinality(chain)
    /\ Cardinality({l.event : l \in chain}) = Cardinality(chain)
    /\ \A l \in chain : l.sequence = 1 => l.previous = << >>
    /\ \A l, m \in chain : m.sequence = l.sequence + 1 => m.previous = l.hash

(* append returns without an error only when the event is in the chain,    *)
(* and "one bad append ... fails only its own caller" (_write_chain_batch):*)
(* as long as the database works, no other append fails, in the same batch *)
(* or racing for the same sequence number.                                 *)
AppendsAreHonest ==
    \A t \in Threads :
        /\ pc[t] = "returned" => \E l \in chain : l.event = t
        /\ error[t] /\ faults = 0 => t \in Bad

(* Every append returns or fails: no thread waits for a leader that is     *)
(* gone, and a leader whose own event was not in its batch leads again.    *)
EveryAppendReturns ==
    \A t \in Threads : pc[t] = "queued" ~> pc[t] \in {"returned", "failed", "crashed"}

Linked(t) == \E l \in chain : l.event = t

Distinct(s) == \A i, j \in DOMAIN s : s[i] = s[j] => i = j

Leading(t) == pc[t] \in {"leading", "locked"}

(* The head a leader works from is the head of the chain until it commits. *)
HeadIsTrue ==
    /\ \E n \in {0} \cup {l.sequence : l \in chain} : {l.sequence : l \in chain} = 1..n
    /\ \A l, m \in chain : l.sequence = m.sequence \/ l.event = m.event => l = m
    /\ \A l \in chain : l.sequence = 1 => l.previous = << >>
    /\ \A l, m \in chain : m.sequence = l.sequence + 1 => m.previous = l.hash
    /\ \A t \in Threads : pc[t] = "locked" =>
          /\ lock = t /\ todo[t] # << >>
          /\ {l.sequence : l \in chain} = 1..head[t].sequence
          /\ \A l \in chain : l.sequence = head[t].sequence => l.hash = head[t].hash
          /\ head[t].sequence = 0 => head[t].hash = << >>

(* An event is in at most one queue or batch of its own process, and once: *)
(* the leaders of a process follow each other.                             *)
EventsAreApart ==
    /\ \A t, u \in Threads : Leading(t) /\ Leading(u) /\ ProcessOf[t] = ProcessOf[u] => t = u
    /\ \A t \in Threads :
          /\ Leading(t) => writing[ProcessOf[t]]
          /\ Distinct(batch[t])
          /\ ~Leading(t) => batch[t] = << >> /\ todo[t] = << >>
          /\ \A u \in Members(batch[t]) :
                pc[u] # "new" /\ ProcessOf[u] = ProcessOf[t] /\ u \notin Members(queue[ProcessOf[t]])
          /\ \/ todo[t] = <<batch[t]>>
             \/ /\ Distinct(todo[t])
                /\ \A i \in DOMAIN todo[t] : \E u \in Members(batch[t]) : todo[t][i] = <<u>>
    /\ \A p \in Processes :
          /\ Distinct(queue[p])
          /\ \A u \in Members(queue[p]) : pc[u] # "new" /\ ProcessOf[u] = p

(* What a batch owes: every event of it is linked, failed or still to be   *)
(* tried; an event that nobody appended is not linked; and while nothing   *)
(* fails, neither is what is still to be tried.                            *)
BatchesAreHonest ==
    /\ \A t \in Threads :
          /\ \A u \in Members(batch[t]) :
                error[u] \/ Linked(u) \/ \E i \in DOMAIN todo[t] : u \in Members(todo[t][i])
          /\ done[t] => error[t] \/ Linked(t)
          /\ pc[t] = "returned" => Linked(t)
          /\ pc[t] = "new" => ~Linked(t)
          /\ error[t] /\ faults = 0 => t \in Bad
    /\ faults = 0 =>
          /\ \A t \in Threads : \A i \in DOMAIN todo[t] : \A u \in Members(todo[t][i]) : ~Linked(u)
          /\ \A p \in Processes : \A u \in Members(queue[p]) : ~Linked(u)

(* Why the chain is linear and append honest *)
ChainInv == TypeOK /\ HeadIsTrue /\ EventsAreApart /\ BatchesAreHonest
=============================================================================
