----------------------------- MODULE Redaction ------------------------------
(***************************************************************************)
(* How detected spans become redacted text: _merge_findings of the         *)
(* detector agent, _apply_redactions of the sanitizer agent, and           *)
(* tool_sanitize of the MCP API, which merges overlapping spans first.     *)
(*                                                                         *)
(* A document is the sequence of its positions 1 .. L, so that every       *)
(* character tells where it comes from; 0 is a character of the marker     *)
(* "[REDACTED]".  A span [start, end) covers positions start + 1 .. end.   *)
(***************************************************************************)
EXTENDS Integers, Sequences, FiniteSets, FiniteSetsExt

CONSTANTS
    Rule,           \* rules of the detectors; two of them may find one span
    L,              \* length of the document
    MarkerLength,   \* length of the marker, 10 in the code
    MaxFindings     \* bound on what the two detectors report together

ASSUME RedactionAssumption ==
    /\ L \in Nat
    /\ MarkerLength \in Nat
    /\ MaxFindings \in Nat

VARIABLES
    regex,          \* what the RegexDetector reports
    presidio,       \* what the PresidioDetector reports
    findings,       \* rows of the findings table
    todo,           \* findings that the loop under way has still to treat
    merged,         \* tool_sanitize: groups of spans that are not replaced yet
    chars,          \* the text that is being redacted
    pc

redactionVars == <<regex, presidio, findings, todo, merged, chars, pc>>

Span == {f \in [start : 0 .. L, end : 0 .. L] : f.start < f.end}

Finding == {f \in [rule : Rule, start : 0 .. L, end : 0 .. L] : f.start < f.end}

Document == [i \in 1 .. L |-> i]

marker == [i \in 1 .. MarkerLength |-> 0]

\* The sets of at most n findings.
Reports(n) == {{s[i] : i \in 1 .. n} : s \in [1 .. n -> Finding]} \cup {{}}

RedactionInit ==
    /\ regex \in Reports(MaxFindings)
    /\ presidio \in Reports(MaxFindings - Cardinality(regex))
    /\ findings = {}
    /\ todo = {}
    /\ merged = << >>
    /\ chars = Document
    /\ pc = "detected"

Overlap(f, g) == f.start < g.end /\ g.start < f.end

\* A Presidio finding that overlaps a regex finding is dropped.
_merge_findings(r, p) == r \cup {f \in p : \A g \in r : ~Overlap(f, g)}

\* The detector stores the merged findings.
Merge ==
    /\ pc = "detected"
    /\ findings' = _merge_findings(regex, presidio)
    /\ pc' = "stored"
    /\ UNCHANGED <<regex, presidio, todo, merged, chars>>

\* The slice assignment s[from:to] = new; a slice ends where the list ends.
Assign(s, from, to, new) ==
    SubSeq(s, 1, from) \o new \o SubSeq(s, to + 1, Len(s))

-----------------------------------------------------------------------------
(* _apply_redactions.                                                      *)

\* The sanitizer loads the findings and the document.
_apply_redactions ==
    /\ pc = "stored"
    /\ todo' = findings
    /\ pc' = "agent"
    /\ UNCHANGED <<regex, presidio, findings, merged, chars>>

\* Mutant of Splice: spans are applied from the start of the text.
SpliceForward(f) ==
    /\ pc = "agent"
    /\ f \in todo
    /\ \A g \in todo : f.start <= g.start
    /\ chars' = Assign(chars, f.start, f.end, marker)
    /\ todo' = todo \ {f}
    /\ UNCHANGED <<regex, presidio, findings, merged, pc>>

\* Mutant of Splice: the last character of a span is left.
SpliceShort(f) ==
    /\ pc = "agent"
    /\ f \in todo
    /\ \A g \in todo : g.start <= f.start
    /\ chars' = Assign(chars, f.start, f.end - 1, marker)
    /\ todo' = todo \ {f}
    /\ UNCHANGED <<regex, presidio, findings, merged, pc>>

(***************************************************************************)
(* One turn of the loop of _apply_redactions, from the last span to the    *)
(* first.  Spans that start together come in the order of the query, which *)
(* has no ORDER BY.                                                        *)
(***************************************************************************)
Splice(f) ==
    /\ pc = "agent"
    /\ f \in todo
    /\ \A g \in todo : g.start <= f.start
    /\ chars' = Assign(chars, f.start, f.end, marker)
    /\ todo' = todo \ {f}
    /\ UNCHANGED <<regex, presidio, findings, merged, pc>>

-----------------------------------------------------------------------------
(* tool_sanitize, for an operation that has been scanned.                  *)

tool_sanitize ==
    /\ pc = "stored"
    /\ todo' = findings
    /\ pc' = "tool"
    /\ UNCHANGED <<regex, presidio, findings, merged, chars>>

Before(f, g) == f.start < g.start \/ (f.start = g.start /\ f.end < g.end)

\* Mutant of Extend: a group ends where its last span ends.
ExtendToLast(g, f) == [start |-> g.start, end |-> f.end]

Extend(g, f) == [start |-> g.start, end |-> IF g.end < f.end THEN f.end ELSE g.end]

\* A span that starts within the last group extends it; others begin a group.
Group(f) ==
    /\ pc = "tool"
    /\ f \in todo
    /\ \A g \in todo : ~Before(g, f)
    /\ merged' = IF merged # << >> /\ f.start < merged[Len(merged)].end
                 THEN [merged EXCEPT ![Len(merged)] = Extend(merged[Len(merged)], f)]
                 ELSE Append(merged, [start |-> f.start, end |-> f.end])
    /\ todo' = todo \ {f}
    /\ UNCHANGED <<regex, presidio, findings, chars, pc>>

\* Once all spans are grouped, the groups are replaced, from the last to the first.
Replace ==
    /\ pc = "tool"
    /\ todo = {}
    /\ merged # << >>
    /\ LET g == merged[Len(merged)]
       IN  chars' = Assign(chars, g.start, g.end, marker)
    /\ merged' = SubSeq(merged, 1, Len(merged) - 1)
    /\ UNCHANGED <<regex, presidio, findings, todo, pc>>

-----------------------------------------------------------------------------
RedactionNext ==
    \/ Merge
    \/ _apply_redactions
    \/ tool_sanitize
    \/ \E f \in Finding : Splice(f) \/ Group(f)
    \/ Replace

RedactionSpec == RedactionInit /\ [][RedactionNext]_redactionVars

-----------------------------------------------------------------------------
(* What redaction should do, position by position.                         *)

Covered(i, fs) == \E f \in fs : f.start < i /\ i <= f.end

\* A span covers both i and the position before it.
Joined(i, fs) == \E f \in fs : f.start + 1 < i /\ i <= f.end

\* What becomes of position i.
Piece(i, fs) ==
    IF ~Covered(i, fs) THEN <<i>> ELSE IF Joined(i, fs) THEN << >> ELSE marker

\* What becomes of the last n positions.
Tails(fs) ==
    LET tail[n \in 0 .. L] == IF n = 0 THEN << >> ELSE Piece(L - n + 1, fs) \o tail[n - 1]
    IN  tail

Reference(fs) == Tails(fs)[L]

Applied == pc = "agent" /\ todo = {}

-----------------------------------------------------------------------------
(* Properties.                                                             *)

(***************************************************************************)
(* If no two findings overlap, _apply_redactions replaces each span by one *)
(* marker and keeps everything else, in order: no replacement invalidates  *)
(* the offsets of a later one.                                             *)
(***************************************************************************)
DisjointIsExact ==
    Applied /\ (\A f, g \in findings : f # g => ~Overlap(f, g)) =>
        chars = Reference(findings)

(***************************************************************************)
(* However findings overlap, none of their characters is left by           *)
(* _apply_redactions if no finding is shorter than the marker: the text    *)
(* then only shrinks, and an outer span reaches beyond its end.            *)
(***************************************************************************)
LongFindingsAreCovered ==
    Applied /\ (\A f \in findings : f.end - f.start >= MarkerLength) =>
        \A i \in 1 .. Len(chars) : ~Covered(chars[i], findings)

(***************************************************************************)
(* tool_sanitize is exact for any findings, overlapping, nested or         *)
(* touching: one marker for each maximal group, all else kept in order.    *)
(***************************************************************************)
ToolIsExact ==
    pc = "tool" /\ todo = {} /\ merged = << >> => chars = Reference(findings)
=============================================================================
