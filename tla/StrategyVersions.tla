-------------------------- MODULE StrategyVersions --------------------------
(***************************************************************************)
(* Publishing and listing strategies (packages/shared/goodmoneying_shared/ *)
(* strategy_store.py): API threads, each in a READ COMMITTED transaction,  *)
(* serialised by advisory locks that live as long as the transaction: one  *)
(* per idempotency key, one per strategy for its version numbers.          *)
(*                                                                         *)
(* A request is [op, key, body, ...]: its body stands for the fields that  *)
(* are hashed with the key (requestId, actorId, requestedAt, reason).      *)
(***************************************************************************)
EXTENDS StrategyGraph

CONSTANTS Threads,    \* the API's threads
          PageSize    \* pageSize of the listings

VARIABLES todo,       \* thread -> the requests it still has to serve
          pc,         \* thread -> the statement it is at
          locks,      \* thread -> the advisory locks of its transaction
          inserted,   \* thread -> the row it has inserted and not committed
          strategies, \* the committed rows of strategy_definitions
          versions,   \* the committed rows of strategy_versions and strategy_graphs
          nextId,     \* table -> the next value of its identity column
          answers,    \* the answers the clients got (a history)
          refused,    \* the graphs the validation turned down (a history)
          page,       \* thread -> the cursor of its listing
          extras      \* the connections that may still break

storeVars == <<todo, pc, locks, inserted, strategies, versions, nextId, answers, refused,
               page, extras>>

NoRow == [table |-> "none"]
NoPage == [ceiling |-> 0]

Job(t) == Head(todo[t])
IdsOf(rows) == {r.id : r \in rows}
MaxId(rows) == IF rows = {} THEN 0 ELSE Max(IdsOf(rows))

(* pg_advisory_xact_lock: waits while another transaction holds the lock.  *)
Grab(t, lock) ==
    /\ \A u \in Threads \ {t} : lock \notin locks[u]
    /\ locks' = [locks EXCEPT ![t] = @ \union {lock}]

(* The advisory lock that numbers the versions of a strategy. *)
GrabSequence(t, s) == Grab(t, <<"strategy-version-sequence", s>>)

(* The transaction is over, by COMMIT or ROLLBACK: its locks are free. *)
EndTransaction(t) ==
    /\ todo' = [todo EXCEPT ![t] = Tail(@)]
    /\ pc' = [pc EXCEPT ![t] = "idle"]
    /\ locks' = [locks EXCEPT ![t] = {}]
    /\ inserted' = [inserted EXCEPT ![t] = NoRow]

Answer(job, id) ==
    answers' = answers \union {[job |-> job, id |-> id]}

(* request_hash: of the kind of the request, its body and what it asks for.*)
RequestHash(job) ==
    [op |-> job.op, body |-> job.body,
     what |-> IF job.op = "publish" THEN <<job.strategy, GraphHash(job.graph)>> ELSE job.what]

(* Mutant: whoever uses the key is given its row. *)
AnswerAnyway(t, old) == Answer(Job(t), old.id) /\ EndTransaction(t)

(* The key is known: the same request is answered again, another one is a  *)
(* conflict (StrategyIdempotencyConflictError).                            *)
AnswerAgain(t, old) ==
    /\ IF old.hash = RequestHash(Job(t))
       THEN Answer(Job(t), old.id)
       ELSE UNCHANGED answers
    /\ EndTransaction(t)

WithKey(rows, key) == {r \in rows : r.key = key}

-----------------------------------------------------------------------------
(* create_strategy: the lock of the key, then the look for it and the      *)
(* insertion, which no other transaction can disturb.                      *)
CreateStrategy(t) ==
    LET job == Job(t)
        old == WithKey(strategies, job.key)
    IN /\ pc[t] = "idle" /\ todo[t] # <<>> /\ job.op = "create"
       /\ \A u \in Threads \ {t} : <<"strategy-definition", job.key>> \notin locks[u]
       /\ \/ /\ old # {}
             /\ \E r \in old : AnswerAgain(t, r)
             /\ UNCHANGED nextId
          \/ /\ old = {}
             /\ locks' = [locks EXCEPT ![t] = {<<"strategy-definition", job.key>>}]
             /\ inserted' = [inserted EXCEPT ![t] =
                   [table |-> "strategies", id |-> nextId.strategies, key |-> job.key,
                    hash |-> RequestHash(job)]]
             /\ nextId' = [nextId EXCEPT !.strategies = @ + 1]
             /\ pc' = [pc EXCEPT ![t] = "commit"]
             /\ UNCHANGED <<todo, answers>>
       /\ UNCHANGED <<strategies, versions, refused, page, extras>>

(* publish_version up to its first lock: a graph that breaks a rule is     *)
(* turned down before the database is asked.                               *)
Validate(t) ==
    /\ pc[t] = "idle" /\ todo[t] # <<>> /\ Job(t).op = "publish"
    /\ \/ /\ Valid(Job(t).graph)
          /\ pc' = [pc EXCEPT ![t] = "key"]
          /\ UNCHANGED <<todo, locks, inserted, refused>>
       \/ /\ ~Valid(Job(t).graph)
          /\ refused' = refused \union {Job(t).graph}
          /\ EndTransaction(t)
    /\ UNCHANGED <<strategies, versions, nextId, answers, page, extras>>

(* The lock of the key, the look for it, and for the strategy. *)
PublishKey(t) ==
    LET job == Job(t)
        old == WithKey(versions, job.key)
    IN /\ pc[t] = "key"
       /\ \/ /\ old # {}
             /\ \A u \in Threads \ {t} : <<"strategy-version", job.key>> \notin locks[u]
             /\ \E r \in old : AnswerAgain(t, r)
          \/ /\ old = {} /\ job.strategy \in IdsOf(strategies)
             /\ Grab(t, <<"strategy-version", job.key>>)
             /\ pc' = [pc EXCEPT ![t] = "sequence"]
             /\ UNCHANGED <<todo, inserted, answers>>
          \/ /\ old = {} /\ job.strategy \notin IdsOf(strategies)
             /\ \A u \in Threads \ {t} : <<"strategy-version", job.key>> \notin locks[u]
             /\ EndTransaction(t)
             /\ UNCHANGED answers
       /\ UNCHANGED <<strategies, versions, nextId, refused, page, extras>>

Siblings(s) == {v \in versions : v.strategy = s}

MaxVersion(s) ==
    IF Siblings(s) = {} THEN 0 ELSE Max({v.version : v \in Siblings(s)})

(* UNIQUE (strategy_id, version) and UNIQUE (strategy_id, graph_hash). *)
Taken(job, number) ==
    \E v \in Siblings(job.strategy) : v.version = number \/ v.graphHash = GraphHash(job.graph)

(* The lock of the strategy's numbers, the next number, the two rows.  An  *)
(* insertion that is refused has used up its identity value.               *)
PublishNumber(t) ==
    LET job == Job(t)
        number == MaxVersion(job.strategy) + 1
    IN /\ pc[t] = "sequence"
       /\ \/ /\ ~Taken(job, number)
             /\ GrabSequence(t, job.strategy)
             /\ inserted' = [inserted EXCEPT ![t] =
                   [table |-> "versions", id |-> nextId.versions, key |-> job.key,
                    hash |-> RequestHash(job), strategy |-> job.strategy,
                    version |-> number,
                    graph |-> job.graph, graphHash |-> GraphHash(job.graph)]]
             /\ pc' = [pc EXCEPT ![t] = "commit"]
             /\ UNCHANGED todo
          \/ /\ Taken(job, number)
             /\ \A u \in Threads \ {t} :
                   <<"strategy-version-sequence", job.strategy>> \notin locks[u]
             /\ EndTransaction(t)
       /\ nextId' = [nextId EXCEPT !.versions = @ + 1]
       /\ UNCHANGED <<strategies, versions, answers, refused, page, extras>>

(* COMMIT, and the answer. *)
CommitStore(t) ==
    /\ pc[t] = "commit"
    /\ \/ /\ inserted[t].table = "strategies"
          /\ strategies' = strategies \union {inserted[t]}
          /\ UNCHANGED versions
       \/ /\ inserted[t].table = "versions"
          /\ versions' = versions \union {inserted[t]}
          /\ UNCHANGED strategies
    /\ Answer(Job(t), inserted[t].id)
    /\ EndTransaction(t)
    /\ UNCHANGED <<nextId, refused, page, extras>>

(* The connection breaks inside a transaction: everything is rolled back,  *)
(* except the identity values, and the client knows nothing.               *)
Break(t) ==
    /\ extras > 0
    /\ pc[t] \in {"key", "sequence", "input", "commit"}
    /\ extras' = extras - 1
    /\ EndTransaction(t)
    /\ UNCHANGED <<strategies, versions, nextId, answers, refused, page>>

-----------------------------------------------------------------------------
(* list_versions.  The ceiling of the first page is a statement of its own.*)
Ceiling(t, of, rows) ==
    /\ page' = [page EXCEPT ![t] =
          [of |-> of, ceiling |-> MaxId(rows), last |-> MaxId(rows) + 1, got |-> <<>>,
           seen |-> IdsOf(rows), over |-> FALSE]]
    /\ pc' = [pc EXCEPT ![t] = "page"]
    /\ UNCHANGED <<todo, locks, inserted>>

(* ORDER BY id DESC *)
Descending(ids) ==
    [k \in 1..Cardinality(ids) |-> CHOOSE i \in ids : Cardinality({j \in ids : j > i}) = k - 1]

(* One page: at most PageSize rows below the cursor, newest first; the     *)
(* cursor of the next one is given when there is a further row.            *)
ReadPage(t, rows) ==
    LET p == page[t]
        below == {i \in IdsOf(rows) : i <= p.ceiling /\ i < p.last}
        sorted == Descending(below)
        taken == SubSeq(sorted, 1, IF Len(sorted) < PageSize THEN Len(sorted) ELSE PageSize)
        more == Len(sorted) > PageSize
    IN /\ page' = [page EXCEPT ![t].got = @ \o taken,
                               ![t].last = IF taken = <<>> THEN @ ELSE Last(taken),
                               ![t].over = ~more]
       /\ IF more THEN UNCHANGED <<todo, pc, locks, inserted>> ELSE EndTransaction(t)

ListVersions(t) ==
    /\ todo[t] # <<>> /\ Job(t).op = "list"
    /\ \/ pc[t] = "idle" /\ Ceiling(t, "versions", Siblings(Job(t).strategy))
       \/ pc[t] = "page" /\ ReadPage(t, Siblings(Job(t).strategy))
    /\ UNCHANGED <<strategies, versions, nextId, answers, refused, extras>>

StoreStep(t) ==
    \/ CreateStrategy(t) \/ Validate(t) \/ PublishKey(t) \/ PublishNumber(t)
    \/ ListVersions(t)

-----------------------------------------------------------------------------
InOrder(rows) ==
    \A v \in rows :
        /\ \A n \in 1..v.version : \E w \in rows : w.strategy = v.strategy /\ w.version = n
        /\ \A w \in rows : w.strategy = v.strategy => (w.id < v.id <=> w.version < v.version)

(* The validation takes exactly the graphs that can be run: Kahn's count   *)
(* finds a cycle, through any number of nodes, if and only if there is one *)
(* (validate_strategy_graph, _has_cycle).                                  *)
VerdictIsRight ==
    /\ \A v \in versions : Runnable(v.graph)
    /\ \A g \in refused : ~Runnable(g)

(* The versions of a strategy are numbered 1, 2, ... in the order of their *)
(* ids, however the publications overlap and break (the sequence lock of   *)
(* publish_version).                                                       *)
VersionsInOrder == InOrder(versions)
=============================================================================
