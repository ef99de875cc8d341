---------------------------- MODULE SectionRemap ----------------------------
(***************************************************************************)
(* How AgentMemory finds a section of a file again after the file changed  *)
(* (memory_c_remap.py): by name in the syntax tree, by heading or by tag;  *)
(* else in ever wider windows around the lines where it was; else by a     *)
(* search of the whole file.  Where it is not sure, the section is left    *)
(* for the model to find.                                                  *)
(*                                                                         *)
(* One section; a line is known by how it bears the section's name, and    *)
(* "other" if it does not.  A definition is one line long.  Thresholds     *)
(* have their defaults, under which each way of finding is good enough.    *)
(***************************************************************************)
EXTENDS Naturals, Sequences, FiniteSets, FiniteSetsExt

CONSTANTS
    Margins,        \* how far each window goes beyond the lines of the hint, ascending
    WholeMax,       \* lines of a file that is searched as a whole by the windows, too
    Run,            \* lines that are taken from a line whose definition has no known end
    MaxLines, MaxEdits

ASSUME RemapAssumption ==
    /\ Margins \in Seq(Nat)
    /\ {WholeMax, Run, MaxLines, MaxEdits} \subseteq Nat

VARIABLES
    suffix, nodeKind, \* of the file, and of the section
    lines,          \* the file
    hint,           \* the lines where the section was, or NoHint
    found,          \* how it was found last: [by, at, sure]; "sure" is staleness_state = "fresh"
    home,           \* history: the line that defines the section, 0 once that is deleted
    settled,        \* history: no edit since the last remap
    edits

remapVars == <<suffix, nodeKind, lines, hint, found, home, settled, edits>>

(* Lines that bear the name, by the kind of file: "def", "async", "class"  *)
(* at the margin, "method" and "inner" indented; "mention" has the words   *)
(* "function n(" somewhere in it.                                          *)
LineForms ==
    [py  |-> {"def", "async", "method", "class", "inner"},
     ts  |-> {"export", "function", "class", "mention"},
     md  |-> {"heading", "def"},
     xml |-> {"tag", "def"}]

AllForms == UNION {LineForms[s] : s \in DOMAIN LineForms} \cup {"other"}

(* The form of a section, and the kind its node has.                       *)
KindOf ==
    [def |-> "function", async |-> "function", method |-> "function", class |-> "class",
     inner |-> "class", export |-> "function", function |-> "function",
     heading |-> "md_section", tag |-> "element"]

CanBeSection(s) == LineForms[s] \ (IF s \in {"md", "xml"} THEN {"def"} ELSE {"mention"})

NoHint == [start |-> 0, end |-> 0]

(* A node that has just been made has its lines, or comes without them.    *)
RemapInit ==
    /\ suffix \in DOMAIN LineForms
    /\ \E form \in CanBeSection(suffix) : lines = <<form>> /\ nodeKind = KindOf[form]
    /\ hint \in {NoHint, [start |-> 1, end |-> 1]}
    /\ found = [by |-> "extractor", at |-> 1, sure |-> TRUE]
    /\ home = 1 /\ settled = TRUE /\ edits = 0

-----------------------------------------------------------------------------
(* What the searches find; 0 is nothing.                                    *)

Least(S) == IF S = {} THEN 0 ELSE Min(S)

First(forms) == Least({i \in DOMAIN lines : lines[i] \in forms})

(* _structural_hits_in_range: lines that look like the definition.          *)
Structural ==
    IF nodeKind = "class" THEN {"class", "inner"} ELSE {"def", "async", "method", "export", "function"}

HitsIn(w) == {i \in w.lo .. w.hi : lines[i] \in Structural}

AllHits == HitsIn([lo |-> 1, hi |-> Len(lines)])

(* _PythonLocater: the first top-level definition, if the file parses.      *)
InTree(parses) ==
    IF suffix = "py" /\ parses
    THEN First(IF nodeKind = "class" THEN {"class"} ELSE {"def", "async"})
    ELSE 0

(* _search_signature_in_text: one pattern after the other, whatever the     *)
(* kind of the section.                                                     *)
Patterns ==
    <<{"def"}, {"class"}>>
        \o IF suffix = "ts" THEN <<{"export"}, {"export", "function", "mention"}>> ELSE <<>>

Signature ==
    LET matching == {p \in DOMAIN Patterns : First(Patterns[p]) # 0} IN
    IF matching = {} THEN 0 ELSE First(Patterns[Min(matching)])

(* _line_hint_search_windows                                                *)
Around(margin) ==
    [lo |-> Min({Len(lines), Max({1, hint.start - margin})}),
     hi |-> Min({Len(lines), hint.end + margin})]

Windows ==
    <<Around(0)>>
        \o [m \in DOMAIN Margins |-> Around(Margins[m])]
        \o IF Len(lines) <= WholeMax THEN <<[lo |-> 1, hi |-> Len(lines)]>> ELSE <<>>

(* The hits in the first window that has any.                               *)
Nearest ==
    LET seeing == {w \in DOMAIN Windows : HitsIn(Windows[w]) # {}} IN
    IF hint = NoHint \/ lines = <<>> \/ seeing = {} THEN {} ELSE HitsIn(Windows[Min(seeing)])

-----------------------------------------------------------------------------
(* _remap_node_span: the ways of finding, each with where it leads.         *)

At(by, i)  == [by |-> by, at |-> i, sure |-> TRUE]
Unsure     == [by |-> "none", at |-> 0, sure |-> FALSE]

FirstHeading == First({"heading"})

(* By name: the syntax tree if no other line looks like the definition, the *)
(* first heading with the title, the tag if it is in one line only.         *)
Named(parses) ==
    IF suffix = "py" /\ Cardinality(AllHits) <= 1 THEN InTree(parses)
    ELSE IF suffix = "md" THEN FirstHeading
    ELSE IF suffix = "xml" THEN First({"tag"})
    ELSE 0

TagIsRepeated == suffix = "xml" /\ Cardinality({i \in DOMAIN lines : lines[i] = "tag"}) > 1

(* The only hit, which is near the hint.  (The tree has been asked already.) *)
InWindow(parses) ==
    IF InTree(parses) # 0 THEN At("tree", InTree(parses))
    ELSE IF suffix = "ts" /\ Signature # 0 THEN At("signature", Signature)
    ELSE At("window", Min(Nearest))

(* Mutant: a window is trusted without a look at the rest of the file.     *)
Span_NearIsEnough(parses) ==
    IF TagIsRepeated THEN Unsure
    ELSE IF Named(parses) # 0 THEN At("name", Named(parses))
    ELSE IF Cardinality(Nearest) > 1 THEN Unsure
    ELSE IF Nearest # {} THEN InWindow(parses)
    ELSE IF Signature # 0 /\ Cardinality(AllHits) = 1 THEN At("signature", Signature)
    ELSE Unsure

Span(parses) ==
    IF TagIsRepeated THEN Unsure
    ELSE IF Named(parses) # 0 THEN At("name", Named(parses))
    ELSE IF Cardinality(Nearest) > 1 \/ Cardinality(AllHits) > 1 THEN Unsure
    ELSE IF Nearest # {} THEN InWindow(parses)
    ELSE IF Signature # 0 /\ AllHits # {} THEN At("signature", Signature)
    ELSE Unsure

(* Nothing tells where a definition ends that was found by its line, or an *)
(* element.                                                                *)
EndOf(span) ==
    IF span.by = "window" \/ suffix = "xml" THEN Min({Len(lines), span.at + Run}) ELSE span.at

(* _remap_c_node: the node gets the new lines, or is left for the model     *)
(* with the old ones.  The file may not parse at the moment.                *)
Remap(parses) ==
    LET span == Span(parses) IN
    /\ found' = span
    /\ hint' = IF span.sure THEN [start |-> span.at, end |-> EndOf(span)] ELSE hint
    /\ settled' = TRUE
    /\ UNCHANGED <<suffix, nodeKind, lines, home, edits>>

-----------------------------------------------------------------------------
(* The file is edited.                                                      *)

InsertLine(i, form) ==
    /\ edits < MaxEdits /\ Len(lines) < MaxLines
    /\ i \in 1 .. Len(lines) + 1
    /\ form \in LineForms[suffix] \cup {"other"}
    /\ lines' = SubSeq(lines, 1, i - 1) \o <<form>> \o SubSeq(lines, i, Len(lines))
    /\ home' = IF i <= home THEN home + 1 ELSE home
    /\ settled' = FALSE
    /\ edits' = edits + 1
    /\ UNCHANGED <<suffix, nodeKind, hint, found>>

DeleteLine(i) ==
    /\ edits < MaxEdits
    /\ i \in DOMAIN lines
    /\ lines' = SubSeq(lines, 1, i - 1) \o SubSeq(lines, i + 1, Len(lines))
    /\ home' = IF i = home THEN 0 ELSE IF i < home THEN home - 1 ELSE home
    /\ settled' = FALSE
    /\ edits' = edits + 1
    /\ UNCHANGED <<suffix, nodeKind, hint, found>>

RemapNext ==
    \/ \E parses \in BOOLEAN : Remap(parses)
    \/ \E i \in 1 .. MaxLines, form \in AllForms : InsertLine(i, form)
    \/ \E i \in 1 .. MaxLines : DeleteLine(i)

RemapSpec == RemapInit /\ [][RemapNext]_remapVars

-----------------------------------------------------------------------------

RemapTypeOK ==
    /\ suffix \in DOMAIN LineForms /\ nodeKind \in {KindOf[f] : f \in DOMAIN KindOf}
    /\ \A i \in DOMAIN lines : lines[i] \in LineForms[suffix] \cup {"other"}
    /\ Len(lines) <= MaxLines /\ home \in 0 .. Len(lines)
    /\ hint.start \in Nat /\ hint.end >= hint.start
    /\ settled \in BOOLEAN /\ edits \in 0 .. MaxEdits

(* A section that was found again is the one that was lost, not another of *)
(* its name, as long as it is in the file: however the file was edited,    *)
(* wherever the hint points by now, whether the file parses or not.  But   *)
(* of two equal headings the first is taken, and the search of the whole   *)
(* file may take a class for a function, a function for a class or a       *)
(* mention for a definition (_remap_node_span).                            *)
FoundIsTheSame ==
    (settled /\ found.sure /\ home # 0) =>
        \/ found.at = home
        \/ suffix = "md" /\ \E i \in 1 .. home - 1 : lines[i] = "heading"
        \/ found.by = "signature" /\ lines[found.at] \notin Structural

=============================================================================
