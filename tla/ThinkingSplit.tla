---------------------------- MODULE ThinkingSplit ----------------------------
(***************************************************************************)
(* The splitter of a model's stream into thinking and visible text         *)
(* (thinking.ProcessChunk and Flush). Chunks end anywhere, also inside a    *)
(* tag; what may be the beginning of a tag is carried over to the next one. *)
(* Tags and text are sequences over a small alphabet.                       *)
(***************************************************************************)
EXTENDS Integers, Sequences, SequencesExt, FiniteSetsExt

CONSTANTS
  Chars,      \* the alphabet
  tagOpen,
  tagClose,
  MaxText,    \* bound on the length of the stream
  MaxChunk    \* bound on the length of a chunk

ASSUME TagsAssumption ==
  /\ tagOpen \in Seq(Chars) /\ tagClose \in Seq(Chars)
  /\ tagOpen # <<>> /\ tagClose # <<>>
ASSUME ChunksAssumption == MaxText \in Nat /\ MaxChunk \in Nat

VARIABLES
  stream,       \* what was received so far (history)
  call,         \* "idle", "scan" or "flushed"
  full,         \* what the running ProcessChunk has still to look at
  inThinking,
  carry,
  thinking,     \* what OnThinking got
  text          \* what OnText got

splitVars == <<stream, call, full, inThinking, carry, thinking, text>>

SplitInit ==
  /\ stream = <<>> /\ call = "idle" /\ full = <<>>
  /\ inThinking = FALSE /\ carry = <<>>
  /\ thinking = <<>> /\ text = <<>>

\* The tag the parser waits for in a mode, and now.
TagOf(think) == IF think THEN tagClose ELSE tagOpen
Tag == TagOf(inThinking)

\* Where tag occurs in s.
Found(s, tag) == {i \in 1..Len(s) - Len(tag) + 1 : SubSeq(s, i, i + Len(tag) - 1) = tag}

Emit(s) ==
  IF inThinking THEN thinking' = thinking \o s /\ UNCHANGED text
  ELSE text' = text \o s /\ UNCHANGED thinking

\* ProcessChunk is called.
Receive(chunk) ==
  /\ call = "idle" /\ Len(stream) + Len(chunk) <= MaxText
  /\ stream' = stream \o chunk
  /\ full' = carry \o chunk /\ carry' = <<>>
  /\ call' = "scan"
  /\ UNCHANGED <<inThinking, thinking, text>>

\* A round of its loop that finds the tag: the first one, and the rest is
\* looked at in the other mode.
SplitAtTag ==
  /\ call = "scan" /\ Found(full, Tag) # {}
  /\ LET i == CHOOSE j \in Found(full, Tag) : \A k \in Found(full, Tag) : j <= k
     IN /\ Emit(SubSeq(full, 1, i - 1))
        /\ full' = SubSeq(full, i + Len(Tag), Len(full))
  /\ inThinking' = ~inThinking
  /\ UNCHANGED <<stream, call, carry>>

\* Lengths, up to max, of the ends of s that begin the tag.
Partial(s, tag, max) ==
  {k \in 1..max : k <= Len(s) /\ IsPrefix(SubSeq(s, Len(s) - k + 1, Len(s)), tag)}

partialSuffixOneShort(s, tag) == Max({0} \cup Partial(s, tag, Len(tag) - 2))

\* The longest of them shorter than the tag.
partialSuffix(s, tag) == Max({0} \cup Partial(s, tag, Len(tag) - 1))

\* The last round: an end that may begin the tag is carried over.
EmitRest ==
  /\ call = "scan" /\ Found(full, Tag) = {}
  /\ LET n == Len(full) - partialSuffix(full, Tag)
     IN /\ Emit(SubSeq(full, 1, n))
        /\ carry' = SubSeq(full, n + 1, Len(full))
  /\ full' = <<>> /\ call' = "idle"
  /\ UNCHANGED <<stream, inThinking>>

\* The stream ended.
Flush ==
  /\ call = "idle"
  /\ Emit(carry)
  /\ carry' = <<>> /\ call' = "flushed"
  /\ UNCHANGED <<stream, full, inThinking>>

SplitNext ==
  \/ \E n \in 1..MaxChunk : \E chunk \in [1..n -> Chars] : Receive(chunk)
  \/ SplitAtTag \/ EmitRest \/ Flush

SplitSpec == SplitInit /\ [][SplitNext]_splitVars
-------------------------------------------------------------------------------
\* The reference: the stream read from left to right, one character at a time,
\* with a tag taken where it starts.
Nothing == [text |-> <<>>, thinking |-> <<>>]

\* s in front of what o has on the side of the mode.
Put(think, s, o) ==
  [text |-> IF think THEN o.text ELSE s \o o.text,
   thinking |-> IF think THEN s \o o.thinking ELSE o.thinking]

\* What is read from place i on, given what is read from later places on.
ReadAt(s, read, i, think) ==
  IF i \in Found(s, TagOf(think)) THEN read[i + Len(TagOf(think))][~think]
  ELSE Put(think, <<s[i]>>, read[i + 1][think])

Demux(s) ==
  LET read[i \in 1..Len(s) + 1] ==
        [think \in BOOLEAN |-> IF i > Len(s) THEN Nothing ELSE ReadAt(s, read, i, think)]
  IN read[1][FALSE]

\* However the stream was cut into chunks, what was handed out and what is
\* held back are together what the uncut stream gives: no character of a tag
\* reaches the user, none of the text is lost or goes to the wrong side. And
\* what is held back could still become the tag that is waited for: text is not
\* delayed longer than needed.
SplitRight ==
  call # "scan" =>
    /\ Demux(stream) = [text |-> IF inThinking THEN text ELSE text \o carry,
                        thinking |-> IF inThinking THEN thinking \o carry ELSE thinking]
    /\ IsStrictPrefix(carry, Tag)
==============================================================================
