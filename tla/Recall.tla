-------------------------------- MODULE Recall --------------------------------
(***************************************************************************)
(* Recall of long-term memories for a turn: SideQuery.SelectForTurn asks   *)
(* PostgreSQL twice, for keyword hits (ReadForTenant) and for the newest   *)
(* rows (ListRecentForTenant), unites the answers and keeps the newest      *)
(* few, while other turns and the consolidation pass write to the table.    *)
(* The rows are those of one tenant, of whatever session. A row's text is   *)
(* the number of the write that gave it and whether it matches the user's   *)
(* message. A query that fails ends the turn (SelectForTurnFails of         *)
(* ChatSession).                                                            *)
(***************************************************************************)
EXTENDS Integers, FiniteSets

CONSTANTS
  Limit,         \* memories a turn is given
  MatchExtra,    \* keyword hits are asked for up to Limit + MatchExtra
  RecentExtra,   \* newest rows that are asked for
  MaxFirst,      \* bound on the rows there are at first
  MaxWrites,     \* bound on the writes during a recall
  MaxMerged      \* bound on the rows a pass puts in place of others

ASSUME LimitsAssumption ==
  /\ Limit \in Nat \ {0} /\ MatchExtra \in Nat
  /\ RecentExtra \in Nat /\ RecentExtra >= Limit
  /\ MaxFirst \in Nat /\ MaxWrites \in Nat /\ MaxMerged \in Nat

VARIABLES
  rows,      \* the table: id, created (the column created_at), text and hit
  lastId,    \* ids are a sequence: none is used twice
  writes,    \* number of writes, which is also the clock of created_at
  \* SelectForTurn:
  recall,    \* the query it makes next: "match" or "recent", then "done"
  byID,      \* the rows read so far
  picked,    \* the rows the turn is given
  \* history:
  matched,   \* the rows the first query returned
  newest     \* the rows the second query returned

table == <<rows, lastId, writes>>
recallVars == <<table, recall, byID, picked, matched, newest>>

\* The n newest of s; which of those of one age come first is open.
Newest(s, n) ==
  {p \in SUBSET s :
     /\ Cardinality(p) = IF Cardinality(s) < n THEN Cardinality(s) ELSE n
     /\ \A r \in p, q \in s \ p : r.created >= q.created}

RecallInit ==
  /\ lastId \in 0..MaxFirst
  /\ \E h \in [1..lastId -> BOOLEAN] :
       rows = {[id |-> i, created |-> i, text |-> i, hit |-> h[i]] : i \in 1..lastId}
  /\ writes = MaxFirst
  /\ recall = "match"
  /\ byID = {} /\ picked = {}
  /\ matched = {} /\ newest = {}
-------------------------------------------------------------------------------
\* The other writers.

CanWrite == recall # "done" /\ writes < MaxFirst + MaxWrites

\* WriteScoped of a new key.
Insert ==
  /\ CanWrite
  /\ \E h \in BOOLEAN :
       rows' = rows \cup {[id |-> lastId + 1, created |-> writes + 1, text |-> writes + 1, hit |-> h]}
  /\ lastId' = lastId + 1 /\ writes' = writes + 1
  /\ UNCHANGED <<recall, byID, picked, matched, newest>>

\* WriteScoped of a key that is there: content and category change, created_at
\* does not.
Upsert ==
  /\ CanWrite
  /\ \E r \in rows, h \in BOOLEAN :
       rows' = (rows \ {r}) \cup {[r EXCEPT !.text = writes + 1, !.hit = h]}
  /\ writes' = writes + 1
  /\ UNCHANGED <<lastId, recall, byID, picked, matched, newest>>

\* ReplaceSessionMemories: rows of a session give way to new ones, which all
\* have the time at which the transaction began, any number of writes ago.
Replace ==
  /\ CanWrite
  /\ \E old \in SUBSET rows \ {{}}, n \in 1..MaxMerged, h \in BOOLEAN,
        began \in 1..writes + 1 :
       /\ rows' = (rows \ old) \cup
            {[id |-> i, created |-> began, text |-> writes + 1, hit |-> h] : i \in lastId + 1..lastId + n}
       /\ lastId' = lastId + n
  /\ writes' = writes + 1
  /\ UNCHANGED <<recall, byID, picked, matched, newest>>
-------------------------------------------------------------------------------
\* The recall.

\* The first query; none is made for a message of blanks.
ReadForTenant ==
  /\ recall = "match" /\ recall' = "recent"
  /\ matched' \in {{}} \cup Newest({r \in rows : r.hit}, Limit + MatchExtra)
  /\ byID' = matched'
  /\ UNCHANGED <<table, picked, newest>>

UniteByRow(old, new) == old \cup new

UniteKeepsFirst(old, new) == old \cup {r \in new : \A q \in old : q.id # r.id}

\* A row read twice is taken as it was read last.
Unite(old, new) == new \cup {r \in old : \A q \in new : q.id # r.id}

\* Sorting by created_at and cutting to the limit.
Cut(s) == Newest(s, Limit)

ListRecentForTenant ==
  /\ recall = "recent" /\ recall' = "done"
  /\ newest' \in Newest(rows, RecentExtra)
  /\ byID' = Unite(byID, newest')
  /\ picked' \in Cut(byID')
  /\ UNCHANGED <<table, matched>>
-------------------------------------------------------------------------------
RecallNext ==
  \/ Insert \/ Upsert \/ Replace
  \/ ReadForTenant \/ ListRecentForTenant

RecallSpec == RecallInit /\ [][RecallNext]_recallVars
-------------------------------------------------------------------------------
\* The places of a turn are put to use: no memory takes two of them, although
\* it may be read in two versions when it is changed between the two queries,
\* and a memory of the table is left out only when all Limit places are taken,
\* whatever was written or replaced in between (sidequery.go:37-65).
PlacesUsed ==
  recall = "done" =>
    /\ \A r, q \in picked : r.id = q.id => r = q
    /\ \A r \in rows : (\E p \in picked : p.id = r.id) \/ Cardinality(picked) = Limit

\* "merges keyword hits with recent writes for better recall coverage"
\* (sidequery.go:16): what the keyword query found is given to the turn, unless
\* other hits take the places.
HitsKept ==
  recall = "done" =>
    \A m \in matched :
      \/ \E p \in picked : p.id = m.id
      \/ \A p \in picked : \E q \in matched : q.id = p.id

\* What a turn is given of a memory is out of date only if a pass replaced the
\* memory between the two queries. A memory changed between them is read again,
\* as the second query asks for more rows than a turn is given; only among rows
\* of one age (which a pass leaves) it may miss the changed one.
StaleExplained ==
  recall = "done" =>
    \A p \in picked \ rows :
      /\ p \in matched
      /\ \A r \in rows : r.id = p.id =>
           Cardinality({q \in newest : q.created = p.created}) >= RecentExtra - Limit + 1
==============================================================================
