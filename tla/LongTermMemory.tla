---------------------------- MODULE LongTermMemory ----------------------------
(***************************************************************************)
(* The long-term memory of one tenant: PostgreSQL rows keyed by session    *)
(* and key (pg.MemoryStore), written by the write_memory tool and by       *)
(* post-turn extraction (LLMExtractor.AfterTurn), and rewritten session by *)
(* session by the periodic pass of DreamConsolidator.                      *)
(* The database runs at READ COMMITTED: a statement sees what is committed *)
(* when it starts, and a row a transaction deleted or inserted is locked   *)
(* until it ends.                                                          *)
(* A row is the number of the write that made it, so that two writes of a  *)
(* key can be told apart; what the model makes of the rows is Dreamed.     *)
(***************************************************************************)
EXTENDS Integers, Sequences, FiniteSets

CONSTANTS
  Writers,       \* turns and extraction jobs that write memories
  NumSessions,   \* sessions 1..NumSessions, in the order the pass visits them
  NumKeys,       \* keys 1..NumKeys, in the order rows are listed
  MaxRowsLoad,   \* LIMIT of the listing
  MinRowsToRun,
  MaxRowsOutput,
  MaxItems,      \* memories one job writes at most
  MaxWrites      \* bound: no job starts after so many writes

ASSUME CountsAssumption ==
  /\ NumSessions \in Nat /\ NumKeys \in Nat /\ MaxWrites \in Nat
  /\ MaxRowsLoad \in Nat \ {0} /\ MinRowsToRun \in Nat \ {0}
  /\ MaxRowsOutput \in Nat \ {0} /\ MaxItems \in Nat \ {0}

Sessions == 1..NumSessions
Keys == 1..NumKeys
NoSession == 0

NoRow == 0
Dreamed == -1

\* A job is its session and the keys it still has to write.
NoJob == [session |-> NoSession, keys |-> <<>>]

\* Lists of one to n keys, repetitions included.
KeyLists(n) == UNION {[1..i -> Keys] : i \in 1..n}

VARIABLES
  db,        \* committed rows, per session and key
  writes,    \* number of writes so far
  job,       \* per writer: the memories it still has to write
  \* DreamConsolidator.Consolidate:
  pc,        \* "idle", "list", "model", "delete" or "insert"
  todo,      \* sessions not yet reached
  session,   \* the session at hand
  seen,      \* the rows listed for it
  raced,     \* keys written between the listing and the DELETE (history)
  repl,      \* what is still to be inserted
  \* its transaction:
  deleted,   \* keys whose rows it deleted
  inserted   \* keys whose rows it inserted

pass == <<pc, todo, session, seen, raced, repl, deleted, inserted>>
vars == <<db, writes, job, pass>>

Rows(rows) == {k \in Keys : rows[k] # NoRow}

NoRows == [k \in Keys |-> NoRow]

\* Rows of earlier processes are there at the start, numbered by their keys.
Init ==
  /\ db \in [Sessions -> {r \in [Keys -> {NoRow} \cup Keys] : \A k \in Keys : r[k] \in {NoRow, k}}]
  /\ writes = NumKeys
  /\ job = [w \in Writers |-> NoJob]
  /\ pc = "idle" /\ todo = {} /\ session = NoSession
  /\ seen = NoRows /\ raced = {} /\ repl = <<>>
  /\ deleted = {} /\ inserted = {}
-------------------------------------------------------------------------------
\* The writers.

Locked(s, k) == s = session /\ k \in deleted \cup inserted

\* The write_memory tool: one memory.
ToolWrite(w) ==
  /\ job[w] = NoJob /\ writes < MaxWrites
  /\ \E s \in Sessions, k \in Keys :
       job' = [job EXCEPT ![w] = [session |-> s, keys |-> <<k>>]]
  /\ UNCHANGED <<db, writes, pass>>

\* An extraction whose reply was parsed and cut to MaxItems.
Extract(w) ==
  /\ job[w] = NoJob /\ writes < MaxWrites
  /\ \E s \in Sessions, ks \in KeyLists(MaxItems) :
       job' = [job EXCEPT ![w] = [session |-> s, keys |-> ks]]
  /\ UNCHANGED <<db, writes, pass>>

Rest(j) == IF Len(j.keys) = 1 THEN NoJob ELSE [j EXCEPT !.keys = Tail(@)]

\* WriteScoped: an upsert, which waits for a lock on its key.
WriteScoped(w) ==
  LET s == job[w].session
      k == Head(job[w].keys)
  IN /\ job[w] # NoJob
     /\ ~Locked(s, k)
     /\ db' = [db EXCEPT ![s][k] = writes + 1]
     /\ writes' = writes + 1
     /\ job' = [job EXCEPT ![w] = Rest(@)]
     /\ raced' = IF s = session /\ pc \in {"model", "delete"} THEN raced \cup {k} ELSE raced
     /\ UNCHANGED <<pc, todo, session, seen, repl, deleted, inserted>>

\* A memory without key or content, or too long, is skipped; the first write
\* that fails or times out ends the job.
SkipItem(w) ==
  /\ job[w] # NoJob
  /\ job' = [job EXCEPT ![w] = Rest(@)]
  /\ UNCHANGED <<db, writes, pass>>

WriteFails(w) ==
  /\ job[w] # NoJob
  /\ job' = [job EXCEPT ![w] = NoJob]
  /\ UNCHANGED <<db, writes, pass>>
-------------------------------------------------------------------------------
\* The pass.

NextSessionStuck ==
  /\ seen' = NoRows /\ raced' = {} /\ repl' = <<>>
  /\ deleted' = {} /\ inserted' = {}
  /\ pc' = "list" /\ UNCHANGED <<session, todo>>

\* On to the next session, or the end of the pass.
NextSession ==
  /\ seen' = NoRows /\ raced' = {} /\ repl' = <<>>
  /\ deleted' = {} /\ inserted' = {}
  /\ IF todo = {} THEN pc' = "idle" /\ session' = NoSession /\ todo' = {}
     ELSE /\ pc' = "list"
          /\ session' = CHOOSE s \in todo : \A t \in todo : s <= t
          /\ todo' = todo \ {session'}

\* An error ends the pass; the deferred Rollback ends the transaction.
EndPass ==
  /\ pc' = "idle" /\ todo' = {} /\ session' = NoSession
  /\ seen' = NoRows /\ raced' = {} /\ repl' = <<>>
  /\ deleted' = {} /\ inserted' = {}

\* The ticker fires: ListDistinctSessionsForTenant.
StartPass ==
  /\ pc = "idle"
  /\ LET found == {s \in Sessions : Rows(db[s]) # {}}
     IN /\ found # {}
        /\ session' = CHOOSE s \in found : \A t \in found : s <= t
        /\ todo' = found \ {session'}
  /\ pc' = "list"
  /\ UNCHANGED <<db, writes, job, seen, raced, repl, deleted, inserted>>

\* The first MaxRowsLoad rows in the order of their keys.
ListAllForSession(s) ==
  [k \in Keys |->
     IF Cardinality({j \in Rows(db[s]) : j <= k}) <= MaxRowsLoad THEN db[s][k] ELSE NoRow]

TooFewRows ==
  /\ pc = "list" /\ Cardinality(Rows(ListAllForSession(session))) < MinRowsToRun
  /\ NextSession
  /\ UNCHANGED <<db, writes, job>>

List ==
  /\ pc = "list" /\ Cardinality(Rows(ListAllForSession(session))) >= MinRowsToRun
  /\ seen' = ListAllForSession(session)
  /\ pc' = "model"
  /\ UNCHANGED <<db, writes, job, todo, session, raced, repl, deleted, inserted>>

ReplacementsOrNone == KeyLists(MaxRowsOutput) \cup {<<>>}

\* What the filtered reply may hold: the model picks keys freely, twice too.
Replacements == KeyLists(MaxRowsOutput)

ModelReplies ==
  /\ pc = "model"
  /\ repl' \in Replacements
  /\ pc' = "delete"
  /\ UNCHANGED <<db, writes, job, todo, session, seen, raced, deleted, inserted>>

\* An empty array, or no item that passes the filter.
NothingToReplace ==
  /\ pc = "model"
  /\ NextSession
  /\ UNCHANGED <<db, writes, job>>

DeleteAutocommit ==
  /\ pc = "delete"
  /\ db' = [db EXCEPT ![session] = NoRows]
  /\ deleted' = Rows(db[session])
  /\ pc' = "insert"
  /\ UNCHANGED <<writes, job, todo, session, seen, raced, repl, inserted>>

\* BEGIN and DELETE.
Delete ==
  /\ pc = "delete"
  /\ deleted' = Rows(db[session])
  /\ pc' = "insert"
  /\ UNCHANGED <<db, writes, job, todo, session, seen, raced, repl, inserted>>

\* A committed row, or an insert of this transaction, already has the key.
Duplicate(k) == k \in inserted \/ (db[session][k] # NoRow /\ k \notin deleted)

InsertRow ==
  /\ pc = "insert" /\ repl # <<>> /\ ~Duplicate(Head(repl))
  /\ inserted' = inserted \cup {Head(repl)} /\ repl' = Tail(repl)
  /\ UNCHANGED <<db, writes, job, pc, todo, session, seen, raced, deleted>>

DuplicateKey ==
  /\ pc = "insert" /\ repl # <<>> /\ Duplicate(Head(repl))
  /\ EndPass
  /\ UNCHANGED <<db, writes, job>>

CommittedAll ==
  [k \in Keys |-> IF k \in inserted THEN Dreamed ELSE NoRow]

\* The rows of the session after the commit.
Committed ==
  [k \in Keys |-> CASE k \in inserted -> Dreamed
                    [] k \in deleted \ inserted -> NoRow
                    [] OTHER -> db[session][k]]

Commit ==
  /\ pc = "insert" /\ repl = <<>>
  /\ db' = [db EXCEPT ![session] = Committed]
  /\ NextSession \/ EndPass   \* EndPass: the answer of the commit was lost
  /\ UNCHANGED <<writes, job>>

\* A statement, the model or the parsing of its reply fails, or the 15 minutes
\* are over.
CallFails ==
  /\ pc # "idle"
  /\ EndPass
  /\ UNCHANGED <<db, writes, job>>

\* The process dies; the database rolls the transaction back.
Crash ==
  /\ EndPass
  /\ job' = [w \in Writers |-> NoJob]
  /\ UNCHANGED <<db, writes>>

PassStep ==
  \/ TooFewRows \/ List \/ ModelReplies \/ NothingToReplace
  \/ Delete \/ InsertRow \/ DuplicateKey \/ Commit \/ CallFails

WriterStep(w) == WriteScoped(w) \/ SkipItem(w) \/ WriteFails(w)

Next ==
  \/ StartPass \/ PassStep \/ Crash
  \/ \E w \in Writers : ToolWrite(w) \/ Extract(w) \/ WriterStep(w)

Spec == Init /\ [][Next]_vars

\* Calls of the pass return: it has a deadline of 15 minutes.
FairSpec == Spec /\ WF_vars(PassStep)
-------------------------------------------------------------------------------
\* A session that has memories keeps some, whatever the model answers and
\* wherever the pass fails or the process dies (dream.go:138, 164; the
\* transaction of memory_store.go:202-226).
NeverEmptied ==
  [][\A s \in Sessions : Rows(db[s]) # {} => Rows(db'[s]) # {}]_vars

\* A memory is overwritten by a later write of its key, or is lost to a pass
\* that listed it; but for the writes between the listing and the DELETE and
\* for rows beyond the LIMIT, no memory is lost that the model has not seen.
\* Writes that meet the open transaction survive it.
LossExplained ==
  [][\A s \in Sessions, k \in Keys :
       db[s][k] > 0 /\ db'[s][k] \in {NoRow, Dreamed} =>
         /\ s = session
         /\ \/ seen[k] = db[s][k]
            \/ k \in raced
            \/ Cardinality(Rows(seen)) = MaxRowsLoad /\ \A j \in Rows(seen) : j < k]_vars

\* A commit puts in all of the replacement the model gave for the listed rows,
\* or the session is as before: no step leaves a part of it behind
\* (memory_store.go:202-226).
AllOrNothing ==
  [][\A s \in Sessions :
       db'[s] # db[s] =>
         \/ \E k \in Keys : db'[s] = [db[s] EXCEPT ![k] = writes']
         \/ /\ repl = <<>>
            /\ \A k \in Keys :
                 db'[s][k] = Dreamed
                   <=> k \in inserted \/ (db[s][k] = Dreamed /\ k \notin deleted)]_vars

\* A pass ends: no session, reply or conflict keeps it from returning. And its
\* transaction lets go of all its rows, and so of the writers that wait for
\* them, however it ends (memory_store.go:206, the deferred Rollback).
PassEnds ==
  /\ pc # "idle" ~> pc = "idle"
  /\ deleted \cup inserted # {} ~> deleted \cup inserted = {}

\* CAPABILITIES.md:49: the pass "merges/dedupes memories": what it replaces is
\* what it has merged.
NoUnseenLoss ==
  [][\A s \in Sessions, k \in Keys :
       db[s][k] > 0 /\ db'[s][k] \in {NoRow, Dreamed} => seen[k] = db[s][k]]_vars
===============================================================================
