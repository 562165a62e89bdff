------------------------------- MODULE Chunking -------------------------------
(* ParentChildChunker of knowledge/application/ingestion.py: each section of a *)
(* parsed document becomes a parent chunk, followed by the child chunks that   *)
(* are embedded and indexed.  Texts are sequences of characters.               *)
EXTENDS Integers, Sequences, SequencesExt

CONSTANT MaxChild \* max_child_characters

ASSUME MaxChildAssumption == MaxChild \in Nat \ {0}

\* str.strip
Strip(text) ==
  LET first == SelectInSeq(text, LAMBDA c : c # " ")
      last  == SelectLastInSeq(text, LAMBDA c : c # " ")
  IN IF first = 0 THEN <<>> ELSE SubSeq(text, first, last)

Parent(ordinal, content) ==
  [ordinal |-> ordinal, kind |-> "parent", content |-> content,
   start |-> 0, end |-> Len(content), parent |-> -1]

\* Mutant: forgets a last slice that is not full.
FullSlices(content) == Len(content) \div MaxChild

\* range(0, len(content), MaxChild) has this many members.
Slices(content) == (Len(content) + MaxChild - 1) \div MaxChild

Child(ordinal, parent, i) ==
  LET start == (i - 1) * MaxChild
      text  == SubSeq(parent.content, start + 1,
                      IF start + MaxChild < Len(parent.content)
                      THEN start + MaxChild ELSE Len(parent.content))
  IN [ordinal |-> ordinal, kind |-> "child", content |-> text,
      start |-> start, end |-> start + Len(text), parent |-> parent.ordinal]

\* The drafts so far and those of one more section; a blank section adds none.
AddSection(drafts, section) ==
  LET content == Strip(section)
      parent  == Parent(Len(drafts), content)
      children == [i \in 1 .. Slices(content) |-> Child(Len(drafts) + i, parent, i)]
  IN IF content = <<>> THEN drafts ELSE Append(drafts, parent) \o children

Chunk(sections) ==
  LET drafts[n \in 0 .. Len(sections)] ==
        IF n = 0 THEN <<>> ELSE AddSection(drafts[n - 1], sections[n])
  IN drafts[Len(sections)]
=============================================================================
