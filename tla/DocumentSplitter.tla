--------------------------- MODULE DocumentSplitter -------------------------
(* How a document becomes chunks (rag/processor.py): cut at its headings,   *)
(* and within a section the code blocks and tables apart from the text      *)
(* around them, which is cut at paragraphs and sentences with some overlap. *)
(* One loop iteration of _split_text is one step.                           *)
(* A document is a sequence of "x" text, "." the end of a sentence, "n" a   *)
(* newline, "#" a heading line, "f" the fence a code block begins and ends  *)
(* with, "|" and "-" the bars and dashes of tables.  Chunks are the         *)
(* positions of their text; blanks are left out.                            *)
EXTENDS Naturals, Sequences, Orders

CONSTANTS
    Documents,  \* the documents that may be processed
    MaxChars,   \* chunk_size in characters
    Overlap     \* chunk_overlap in characters

\* A heading is a line of its own.
OwnLine(d, i) == (i = 1 \/ d[i - 1] = "n") /\ (i = Len(d) \/ d[i + 1] = "n")

Characters == {"x", ".", "n", "#", "f", "|", "-"}

\* The code takes any two numbers; beyond half a chunk of overlap it may repeat
\* a chunk for ever.
ASSUME SplitterAssumption ==
    /\ MaxChars \in Nat \ {0} /\ Overlap \in Nat /\ Overlap <= MaxChars \div 2
    /\ \A d \in Documents : d \in Seq(Characters)
    /\ \A d \in Documents : \A i \in 1..Len(d) : d[i] = "#" => OwnLine(d, i)

VARIABLES
    doc,        \* the document
    sections,   \* sections still to be cut: heading and positions
    title,      \* position of the heading of the section at hand, 0: none
    text,       \* positions of its text without code blocks and tables
    blocks,     \* its code blocks, then its tables
    start,      \* where the next chunk starts, as an offset into text
    reach,      \* the end of the last chunk
    rounds,     \* iterations of the loop for this text
    chunks      \* the chunks made so far

splitterVars == <<doc, sections, title, text, blocks, start, reach, rounds, chunks>>

IsBlank(p) == doc[p] = "n"

----------------------------------------------------------------------------
\* _split_by_headings: the lines between headings, none for a heading that is
\* followed by another; a document of headings only is one section as it is.
HeadingsOf(d) == {h \in 1..Len(d) : d[h] = "#"}
SectionOf(d, h) ==
    LET beyond == Least({k \in HeadingsOf(d) \cup {Len(d) + 2} : h < k})
    IN  [title |-> h, from |-> IF h = 0 THEN 1 ELSE h + 2, beyond |-> beyond]
SplitByHeadings(d) ==
    LET found == {h \in {0} \cup HeadingsOf(d) : SectionOf(d, h).from < SectionOf(d, h).beyond}
        order == Ascending(found)
    IN  IF found = {} THEN <<[title |-> 0, span |-> 1..Len(d)]>>
        ELSE [k \in 1..Cardinality(found) |->
                LET section == SectionOf(d, order[k])
                IN  [title |-> order[k], span |-> section.from..section.beyond - 2]]

\* From a fence to the next one within the section.
CodeBlocks(span) ==
    LET fences == Ascending({p \in span : doc[p] = "f"})
    IN  [k \in 1..(Len(fences) \div 2) |->
           {p \in span : fences[2 * k - 1] <= p /\ p <= fences[2 * k]}]

\* A row is a line of a text from a bar to another with something in between,
\* a separator one of dashes and bars only.
LineOf(S, p) == {q \in S : \A x \in S : x \in p..q \cup q..p => doc[x] # "n"}
IsRow(S, p) == LET line == LineOf(S, p)
               IN  Cardinality(line) >= 3 /\ doc[Least(line)] = "|" /\ doc[Furthest(line)] = "|"
IsSeparator(S, p) == IsRow(S, p) /\ \A q \in LineOf(S, p) : doc[q] \in {"|", "-"}

\* The rows of a text, each with the newline behind it, and those from h on.
Rows(S) ==
    LET ends(p, q) == q < p /\ IsRow(S, q) /\ \A x \in S : ~(q < x /\ x < p)
    IN  {p \in S : IsRow(S, p) \/ (doc[p] = "n" /\ \E q \in S : ends(p, q))}
RowsFrom(S, h) == LET rows == Rows(S)
                  IN  {p \in S : h <= p /\ \A q \in S : h <= q /\ q <= p => q \in rows}

\* A table goes from a row that a separator and one more row follow to the last
\* row that follows them.
IsHead(S, h) ==
    LET below(p) == Cardinality({q \in S : h < q /\ q < p /\ doc[q] = "n"})
    IN  /\ IsRow(S, h) /\ h = Least(LineOf(S, h))
        /\ \E p, q \in RowsFrom(S, h) : /\ below(p) = 1 /\ IsSeparator(S, p)
                                       /\ below(q) = 2 /\ IsRow(S, q)
Tables(S) ==
    LET heads == {h \in S : IsHead(S, h)}
        first == {h \in heads : \A g \in heads : g < h => h \notin RowsFrom(S, g)}
        order == Ascending(first)
    IN  [k \in 1..Cardinality(first) |-> RowsFrom(S, order[k])]

\* _extract_atomic_blocks: also the tables are found in the section as it is.
AtomicBlocks(span) == CodeBlocks(span) \o Tables(span)

Positions(pieces) == UNION {pieces[k] : k \in DOMAIN pieces}

\* Faulty: every row is taken for one of a table.
TablesRemoved_Rows(S) == Rows(S)

TablesRemoved(S) == Positions(Tables(S))

\* _remove_atomic_blocks: tables are found in what the code blocks leave.
WithoutCode(span) == span \ Positions(CodeBlocks(span))
RemainingText(span) == WithoutCode(span) \ TablesRemoved(WithoutCode(span))

OpenSection ==
    /\ start >= Len(text) /\ blocks = <<>> /\ sections # <<>>
    /\ LET section == Head(sections)
       IN /\ title' = section.title
          /\ blocks' = AtomicBlocks(section.span)
          /\ text' = Ascending(RemainingText(section.span))
    /\ sections' = Tail(sections)
    /\ start' = 0 /\ reach' = 0 /\ rounds' = 0
    /\ UNCHANGED <<doc, chunks>>

\* A chunk of blanks only is not kept.
WithChunk(ps) == IF \A p \in ps : IsBlank(p) THEN chunks
                 ELSE Append(chunks, [title |-> title, kept |-> {p \in ps : ~IsBlank(p)}])
Slice(a, b) == {text[i] : i \in {i \in 1..Len(text) : a < i /\ i <= b}}

\* Breaks of the text before offset b and beyond the middle of a chunk from a.
Middle(a) == a + MaxChars \div 2
Paragraphs(a, b) == {i \in Middle(a) + 1..b - 2 : doc[text[i + 1]] = "n" /\ doc[text[i + 2]] = "n"}
Sentences(a, b) == {i \in Middle(a) + 1..b - 1 : doc[text[i + 1]] \in {".", "n"}}

\* The last paragraph break if there is one, else the last end of a sentence,
\* else a full chunk.
End(a) ==
    LET b == a + MaxChars
    IN IF b >= Len(text) THEN b
       ELSE IF Paragraphs(a, b) # {} THEN Furthest(Paragraphs(a, b)) + 2
       ELSE IF Sentences(a, b) # {} THEN Furthest(Sentences(a, b)) + 1
       ELSE b

\* Faulty: the next chunk is placed as if this one had its full size.
NextStart_FullSize(a) == a + MaxChars - Overlap

NextStart(a) == End(a) - Overlap

SplitShort ==
    /\ start = 0 /\ text # <<>> /\ Len(text) <= MaxChars
    /\ chunks' = WithChunk(Slice(0, Len(text)))
    /\ start' = Len(text) /\ reach' = Len(text)
    /\ UNCHANGED <<doc, sections, title, text, blocks, rounds>>

SplitRound ==
    /\ start < Len(text) /\ Len(text) > MaxChars
    /\ chunks' = WithChunk(Slice(start, End(start)))
    /\ start' = NextStart(start) /\ reach' = End(start) /\ rounds' = rounds + 1
    /\ UNCHANGED <<doc, sections, title, text, blocks>>

\* After the text every block of the section is a chunk of its own.
TakeBlock ==
    /\ start >= Len(text) /\ blocks # <<>>
    /\ chunks' = WithChunk(Head(blocks))
    /\ blocks' = Tail(blocks)
    /\ UNCHANGED <<doc, sections, title, text, start, reach, rounds>>

SplitterInit ==
    /\ doc \in Documents /\ sections = SplitByHeadings(doc)
    /\ title = 0 /\ text = <<>> /\ blocks = <<>> /\ chunks = <<>>
    /\ start = 0 /\ reach = 0 /\ rounds = 0

SplitterNext == OpenSection \/ SplitShort \/ SplitRound \/ TakeBlock
SplitterSpec == SplitterInit /\ [][SplitterNext]_splitterVars

----------------------------------------------------------------------------
SplitterTypeOK ==
    /\ doc \in Seq(Characters)
    /\ text \in Seq(1..Len(doc)) /\ title \in 0..Len(doc)
    /\ start \in Nat /\ reach \in Nat /\ rounds \in Nat
    /\ \A k \in DOMAIN chunks : chunks[k].kept \subseteq 1..Len(doc)

\* The heading a position stands under.
Under(p) == Furthest({0} \cup {h \in 1..p : doc[h] = "#"})
Processed == sections = <<>> /\ blocks = <<>> /\ start >= Len(text)

(* Every round of the loop moves on, so it ends.                             *)
SplitAdvances == rounds <= start

(* What the rounds have passed is in a chunk of the section.                 *)
PassedIsKept ==
    \A i \in 1..Len(text) :
        i <= reach /\ ~IsBlank(text[i]) =>
            \E k \in DOMAIN chunks : text[i] \in chunks[k].kept /\ chunks[k].title = title

\* What is removed from a section as a table and not found as a block.
Vanishing(span) == span \ (RemainingText(span) \cup Positions(AtomicBlocks(span)))
Spans == LET found == SplitByHeadings(doc) IN {found[k].span : k \in DOMAIN found}
Vanishes(p) == \E span \in Spans : p \in Vanishing(span)

IsText(p) == p \in 1..Len(doc) /\ doc[p] \notin {"n", "#"}
Indexed(p) == \E k \in DOMAIN chunks : p \in chunks[k].kept /\ chunks[k].title = Under(p)

(* No text of a document is lost on its way into the index, wherever breaks, *)
(* overlaps, fences and headings fell: when it has been processed, all but   *)
(* its headings is in a chunk under the heading it stood under, except for   *)
(* what becomes a table only when the code blocks are gone; and the loop     *)
(* over a section went on with every round (process, _split_text).           *)
SplitKeepsText ==
    /\ SplitAdvances /\ PassedIsKept
    /\ Processed => \A p \in 1..Len(doc) : IsText(p) => Indexed(p) \/ Vanishes(p)

(* That exception needs a code block which begins or ends on a line with a   *)
(* bar, as in the cell of a table: in all other sections nothing is lost     *)
(* (_extract_atomic_blocks, _remove_atomic_blocks).                          *)
FencedBar(span) ==
    LET code == CodeBlocks(span)
    IN  \E k \in DOMAIN code : \E fence \in {Least(code[k]), Furthest(code[k])} :
            \E p \in LineOf(span, fence) \ code[k] : doc[p] = "|"
LossNeedsFencedBar ==
    Processed => \A span \in Spans :
        FencedBar(span) \/ \A p \in span : IsText(p) => Indexed(p)
=============================================================================
