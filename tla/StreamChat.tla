------------------------------ MODULE StreamChat ------------------------------
(***************************************************************************)
(* llm.Client.StreamChat: one streamed completion.  The provider sends its *)
(* reply in chunks: pieces of text, and for every tool call a head (id and *)
(* name) and fragments of its arguments, each with the index of the call.  *)
(* The client collects them by index and returns the calls when the stream *)
(* ends, be it with [DONE] or with the end of the body.                    *)
(* The provider may work on several calls at once, leave a call without a  *)
(* name, stop early at its token limit, and break off at any point.        *)
(* A fragment is a pair of the call's number and its own.                  *)
(***************************************************************************)
EXTENDS Integers, Sequences, FiniteSets

CONSTANTS
  MaxCalls,   \* bound: tool calls of a reply
  MaxFrags,   \* bound: fragments of a call's arguments
  MaxPieces   \* bound: pieces of text

ASSUME StreamAssumption == MaxCalls \in Nat /\ MaxFrags \in Nat /\ MaxPieces \in Nat

VARIABLES
  \* the provider:
  plan,     \* plan[i]: call i (from 1): how many fragments its arguments have, and
            \* whether it has a name
  first,    \* the index of the first call: 0, or 1 with some providers
  sent,     \* sent[i]: chunks of call i sent so far, its head first
  \* StreamChat:
  stage,    \* "request", "read", "done"
  pieces,   \* pieces in assistantText
  accums,   \* per index: what has come of a call
  usage,    \* lastUsage: "none", "seen", and "recorded" once emitted
  outcome,  \* "none", "ok", "err"
  reply     \* the returned text and tool calls

streamVars == <<plan, first, sent, stage, pieces, accums, usage, outcome, reply>>

PlannedCall == [frags : 0..MaxFrags, named : BOOLEAN]

Calls == DOMAIN plan

Fragments(i, n) == [k \in 1..n |-> <<i, k>>]

\* The index chunks of call i carry.
Index(i) == first + i - 1

NoReply == [text |-> 0, calls |-> <<>>]

StreamInit ==
  /\ plan \in UNION {[1..n -> PlannedCall] : n \in 0..MaxCalls}
  /\ first \in {0, 1}
  /\ sent = [i \in Calls |-> 0]
  /\ stage = "request" /\ pieces = 0 /\ accums = <<>> /\ usage = "none"
  /\ outcome = "none" /\ reply = NoReply
-------------------------------------------------------------------------------
\* The request cannot be made, or is not answered with 2xx.
RequestFails ==
  /\ stage = "request"
  /\ stage' = "done" /\ outcome' = "err"
  /\ UNCHANGED <<plan, first, sent, pieces, accums, usage, reply>>

RequestAnswered ==
  /\ stage = "request"
  /\ stage' = "read"
  /\ UNCHANGED <<plan, first, sent, pieces, accums, usage, outcome, reply>>

\* A chunk with text: kept, and passed to onTextDelta.
TextChunk ==
  /\ stage = "read" /\ pieces < MaxPieces
  /\ pieces' = pieces + 1
  /\ UNCHANGED <<plan, first, sent, stage, accums, usage, outcome, reply>>

\* A chunk with usage and no choices.  Other lines change nothing, and a chunk
\* that carries several parts is one step for each.
UsageChunk ==
  /\ stage = "read"
  /\ usage' = "seen"
  /\ UNCHANGED <<plan, first, sent, stage, pieces, accums, outcome, reply>>

\* toolCallAccum.
NewAccum == [id |-> 0, name |-> FALSE, args |-> <<>>]

AccumLatest(index) ==
  IF DOMAIN accums = {} THEN NewAccum
  ELSE accums[CHOOSE i \in DOMAIN accums : \A j \in DOMAIN accums : j <= i]

\* accums[tc.Index], made when it is missing.
Accum(index) == IF index \in DOMAIN accums THEN accums[index] ELSE NewAccum

\* Empty keys of the chunk leave the accumulator alone; arguments are added.
Added(acc, id, name, args) ==
  [id |-> IF id # 0 THEN id ELSE acc.id, name |-> acc.name \/ name, args |-> acc.args \o args]

\* The next chunk of call i: its head, alone or with the first fragment, or a
\* fragment; some providers repeat the head's keys in every chunk.
CallChunk(i, frags, repeat) ==
  /\ stage = "read" /\ i \in Calls
  /\ LET head == sent[i] = 0
         from == IF head THEN 1 ELSE sent[i]   \* number of the next fragment
         args == SubSeq(Fragments(i, plan[i].frags), from, from + frags - 1)
         id   == IF head \/ repeat THEN i ELSE 0
     IN /\ from + frags - 1 <= plan[i].frags
        /\ head \/ frags = 1
        /\ sent' = [sent EXCEPT ![i] = from + frags]
        /\ accums' = [x \in DOMAIN accums \cup {Index(i)} |->
                        IF x = Index(i) THEN Added(Accum(x), id, (head \/ repeat) /\ plan[i].named, args)
                        ELSE accums[x]]
  /\ UNCHANGED <<plan, first, stage, pieces, usage, outcome, reply>>
-------------------------------------------------------------------------------
CollectedFromOne ==
  LET f[n \in 0..Cardinality(DOMAIN accums)] ==
        IF n = 0 THEN <<>>
        ELSE IF n \in DOMAIN accums /\ accums[n].name THEN Append(f[n - 1], accums[n])
        ELSE f[n - 1]
  IN f[Cardinality(DOMAIN accums)]

\* The loop over 0..len(accums)-1; a missing index and a nameless call are
\* skipped.
Collected ==
  LET f[n \in 0..Cardinality(DOMAIN accums)] ==
        IF n = 0 THEN <<>>
        ELSE IF n - 1 \in DOMAIN accums /\ accums[n - 1].name
             THEN Append(f[n - 1], accums[n - 1])
        ELSE f[n - 1]
  IN f[Cardinality(DOMAIN accums)]

\* With a recorder; "seen" is a usage that is not all zero.
emitUsage == IF usage = "seen" THEN "recorded" ELSE usage

\* [DONE], or the end of the body: the reply is returned, the usage recorded.
StreamEnds ==
  /\ stage = "read"
  /\ stage' = "done" /\ outcome' = "ok"
  /\ reply' = [text |-> pieces, calls |-> Collected]
  /\ usage' = emitUsage
  /\ UNCHANGED <<plan, first, sent, pieces, accums>>

\* Reading fails or times out: all that has come is dropped.
ReadFails ==
  /\ stage = "read"
  /\ stage' = "done" /\ outcome' = "err"
  /\ UNCHANGED <<plan, first, sent, pieces, accums, usage, reply>>

StreamNext ==
  \/ RequestFails \/ RequestAnswered \/ TextChunk \/ UsageChunk
  \/ \E i \in 1..MaxCalls, frags \in {0, 1}, repeat \in BOOLEAN : CallChunk(i, frags, repeat)
  \/ StreamEnds \/ ReadFails

StreamSpec == StreamInit /\ [][StreamNext]_streamVars
-------------------------------------------------------------------------------
AllSent == \A i \in Calls : sent[i] = plan[i].frags + 1

\* A reply that was sent to its end is returned whole: every call that has a
\* name, in the order of the indexes, with its own id and all of its arguments
\* in order, however the chunks of the calls were interleaved. The one exception
\* is the last call of a provider that counts from 1: the loop ends before its
\* index (client.go:343-389).
WholeReply ==
  outcome = "ok" /\ AllSent =>
    /\ {reply.calls[k] : k \in DOMAIN reply.calls} =
         {[id |-> i, name |-> TRUE, args |-> Fragments(i, plan[i].frags)] :
            i \in {j \in Calls : plan[j].named /\ Index(j) < Len(plan)}}
    /\ \A k \in 2..Len(reply.calls) : reply.calls[k - 1].id < reply.calls[k].id

\* A reply that was cut short holds nothing the provider has not said: calls in
\* their order, none twice, each with an initial part of its own arguments; and
\* an error comes with no reply, however much had come (client.go:291-389).
PartialReply ==
  IF outcome = "ok"
  THEN /\ \A k \in DOMAIN reply.calls :
            LET c == reply.calls[k]
            IN c.id \in Calls /\ c.name /\ c.args = Fragments(c.id, sent[c.id] - 1)
       /\ \A k \in 2..Len(reply.calls) : reply.calls[k - 1].id < reply.calls[k].id
  ELSE reply = NoReply
===============================================================================
