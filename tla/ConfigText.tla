------------------------------- MODULE ConfigText ------------------------------
(***************************************************************************)
(* The device configuration in the config viewer of the web UI             *)
(* (features/config/Config.jsx): it is fetched in one of the formats,      *)
(* indented again, and rendered line by line, where the lines that the     *)
(* open service has written, after their backpointers, are highlighted.    *)
(*                                                                         *)
(* The configuration is a document that is read one line ahead: NextLines  *)
(* is the grammar of NSO's output after `slice` has removed what is around *)
(* the config node.  A statement may hold others, and a backpointer names  *)
(* the services of the statement after it (in XML: of its own statement)   *)
(* and of all it holds that have no backpointer of their own.              *)
(***************************************************************************)
EXTENDS Integers, Sequences, FiniteSets

CONSTANTS Leading,    \* the leading space of the lines of the document, by depth
          MaxDepth    \* bound: how deep statements are nested

ASSUME TextAssumption ==
  /\ MaxDepth \in Nat \ {0} /\ Leading \in [0..MaxDepth -> Nat]
  /\ \A d \in 1..MaxDepth : Leading[d - 1] < Leading[d]

Formats == {"cli", "curly-braces", "xml", "json"}

\* Whom a backpointer names: no one, the open service too, or only others.
Pointers == {"none", "open", "other"}

VARIABLES
  format, serviceMetaData, isFetching,   \* the state of the component
  document,   \* what has been read: see DocumentStart
  line,       \* iter: the line that is read ahead, or EndOfText
  frames,     \* the calls of processBlock
  shown,      \* the line that was pushed last
  ragged      \* history: a line without text was read

textVars == <<format, serviceMetaData, isFetching, document, line, frames, shown, ragged>>

\* stack: for each open statement whether it is to be highlighted.  note: the
\* backpointer before the next statement.  text: within a text of several lines.
\* indent and last: the variables of reIndent, or nextIndent of reIndentXml.
DocumentStart(f) ==
  [stack |-> <<>>, note |-> "none", text |-> FALSE,
   indent |-> IF f = "xml" THEN 0 ELSE IF f = "json" THEN -1 ELSE -2, last |-> -1]

Line(kind, indent, ptr, want) ==
  [kind |-> kind, indent |-> indent, ptr |-> ptr, want |-> want]

EndOfText == Line("end", -1, "none", FALSE)
Unread    == Line("unread", -1, "none", FALSE)

NoLine == [want |-> FALSE, highlight |-> FALSE]

\* Every variable has its type.
TextTypeOK ==
  /\ format \in Formats \cup {"undefined"}
  /\ serviceMetaData \in BOOLEAN /\ isFetching \in BOOLEAN /\ ragged \in BOOLEAN
  /\ document.stack \in Seq(BOOLEAN) /\ Len(document.stack) <= MaxDepth
  /\ document.note \in Pointers
  /\ line.indent \in Int /\ line.ptr \in Pointers /\ line.want \in BOOLEAN
  /\ Len(frames) <= MaxDepth + 2
  /\ \A i \in DOMAIN frames : /\ frames[i].backpointer \in Pointers
                              /\ frames[i].highlight \in BOOLEAN
  /\ shown \in [want: BOOLEAN, highlight: BOOLEAN]

------------------------------------------------------------------------------
(* Indenting: the indentation of a line, and what is remembered for the next. *)

trim(doc, lead) == [indent |-> lead - Leading[0], next |-> doc.indent]

reIndent(doc, lead, level) ==
  LET new == CASE lead > doc.last -> doc.indent + level
               [] lead < doc.last /\ doc.indent > 0 -> doc.indent - level
               [] OTHER -> doc.indent
  IN [indent |-> new, next |-> new]

\* By the kind of the line: "exit" is an end tag, "textEnd" ends a text with an
\* end tag, "open" is a start tag, alone or with a text that does not end.
reIndentXml(doc, kind) ==
  CASE kind = "exit"    -> [indent |-> doc.indent - 2, next |-> doc.indent - 2]
    [] kind = "textEnd" -> [indent |-> doc.indent, next |-> doc.indent - 2]
    [] kind = "open"    -> [indent |-> doc.indent, next |-> doc.indent + 2]
    [] OTHER            -> [indent |-> doc.indent, next |-> doc.indent]

pretty(doc, kind, lead) ==
  CASE format = "cli"  -> trim(doc, lead)
    [] format = "json" -> reIndent(doc, lead, 1)
    [] format = "xml"  -> reIndentXml(doc, kind)
    [] OTHER           -> reIndent(doc, lead, 2)

------------------------------------------------------------------------------
(* The lines that may come next, each with the document after it.            *)

Read(doc, kind, depth, ptr, want, stack, note, text) ==
  LET p == pretty(doc, kind, Leading[depth])
  IN [line |-> Line(kind, p.indent, ptr, want),
      document |-> [stack |-> stack, note |-> note, text |-> text,
                    indent |-> p.next, last |-> Leading[depth]]]

Depth(doc) == Len(doc.stack)
Top(doc)   == IF doc.stack = <<>> THEN FALSE ELSE doc.stack[Depth(doc)]

\* Backpointers of a line of their own, as comments, and within a line.
Commented == format \in {"cli", "curly-braces"}

Annotations(doc) ==
  IF ~Commented \/ doc.note # "none" THEN {}
  ELSE {Read(doc, "meta", Depth(doc), ptr, FALSE, doc.stack, ptr, FALSE) : ptr \in Pointers}

Marked(doc, ptr) ==
  LET by == IF doc.note = "none" THEN ptr ELSE doc.note
  IN IF by = "none" THEN Top(doc) ELSE by = "open"

OwnPointers == IF format = "xml" THEN Pointers ELSE {"none"}

Leaves(doc) ==
  {Read(doc, "leaf", Depth(doc), ptr, Marked(doc, ptr), doc.stack, "none", FALSE) :
     ptr \in OwnPointers}

\* Whether a text begins that does not end on its line, which only XML has.
Unfinished == IF format = "xml" THEN BOOLEAN ELSE {FALSE}

Opens(doc) ==
  IF Depth(doc) = MaxDepth THEN {}
  ELSE {Read(doc, "open", Depth(doc), ptr, Marked(doc, ptr),
             Append(doc.stack, Marked(doc, ptr)), "none", text) :
          ptr \in OwnPointers, text \in Unfinished}

\* `exit`, `!`, `}` or an end tag; in JSON also followed by a comma, which is
\* no exit for processBlock.
Exits(doc) ==
  IF doc.note # "none" THEN {}
  ELSE {Read(doc, k, Depth(doc) - 1, "none", Top(doc), SubSeq(doc.stack, 1, Depth(doc) - 1),
             "none", FALSE) :
          k \in {"exit"} \cup (IF format = "json" /\ Depth(doc) > 1 THEN {"comma"} ELSE {})}

Texts(doc) ==
  {Read(doc, "text", Depth(doc), "none", Top(doc), doc.stack, "none", TRUE),
   Read(doc, "textEnd", Depth(doc), "none", Top(doc),
        SubSeq(doc.stack, 1, Depth(doc) - 1), "none", FALSE)}

AtEnd(doc) == {[line |-> EndOfText, document |-> doc]}

\* The exit of the config node itself may have been sliced off.
NextLines(doc) ==
  IF doc.stack = <<>> THEN AtEnd(doc)
  ELSE IF doc.text THEN Texts(doc)
  ELSE Annotations(doc) \cup Leaves(doc) \cup Opens(doc) \cup Exits(doc)
         \cup (IF Depth(doc) = 1 /\ doc.note = "none" THEN AtEnd(doc) ELSE {})

\* iter.next(): or a line without text, as in a banner, which has no indentation.
ReadNext ==
  \/ \E n \in NextLines(document) : line' = n.line /\ document' = n.document /\ UNCHANGED ragged
  \/ /\ format = "cli" /\ document.stack # <<>> /\ ~ragged
     /\ line' = Line("leaf", -1, "none", Top(document))
     /\ ragged' = TRUE /\ UNCHANGED document

------------------------------------------------------------------------------
(* Fetching.                                                                 *)

Rendered == frames = <<>>

\* The mount of a managed device, without a format, and the buttons.
getConfig ==
  /\ Rendered /\ ~isFetching
  /\ isFetching' = TRUE
  /\ UNCHANGED <<format, serviceMetaData, document, line, frames, shown, ragged>>

\* processBlock(false) of the first line, the config node.
Render(f) ==
  /\ format' = f
  /\ document' = [DocumentStart(f) EXCEPT !.stack = <<FALSE>>, !.last = Leading[0],
                    !.indent = IF f = "xml" THEN 2 ELSE 0]
  /\ frames' = <<[blockIndent |-> 0, indent |-> 1, backpointer |-> "none", highlight |-> FALSE]>>
  /\ line' = Unread /\ shown' = NoLine /\ ragged' = FALSE

ReceiveConfig ==
  /\ Rendered /\ isFetching
  /\ isFetching' = FALSE
  /\ \/ \E f \in Formats : Render(f)
     \/ UNCHANGED <<format, document, line, frames, shown, ragged>>   \* handleError
  /\ UNCHANGED serviceMetaData

\* The button svc-meta, and any other reason to render again.
toggleMetaData ==
  /\ Rendered /\ format # "undefined"
  /\ serviceMetaData' = ~serviceMetaData
  /\ Render(format)
  /\ UNCHANGED isFetching

------------------------------------------------------------------------------
(* highlightService: the loop of the innermost processBlock.                 *)

Frame == frames[Len(frames)]
Outer == SubSeq(frames, 1, Len(frames) - 1)

Looping == line.kind # "unread" /\ Frame.indent > Frame.blockIndent /\ line.kind # "end"

Pushed(highlight) == shown' = [want |-> line.want, highlight |-> highlight]

\* The frame after it has looked at the line.
Looked ==
  [Frame EXCEPT !.indent = line.indent,
     !.backpointer = IF @ = "none" THEN line.ptr ELSE @]

IsExit == line.kind = "exit"

\* The line after the config node, which is read before its loop begins.
ReadFirst ==
  /\ line.kind = "unread"
  /\ ReadNext
  /\ UNCHANGED <<format, serviceMetaData, isFetching, frames, shown>>

ExitLine ==
  /\ frames # <<>> /\ Looping /\ line.indent = Frame.blockIndent /\ IsExit
  /\ Pushed(Frame.highlight)
  /\ frames' = Append(Outer, Looked)
  /\ ReadNext
  /\ UNCHANGED <<format, serviceMetaData, isFetching>>

\* A line that does not belong to the block.
LookAtNext ==
  /\ frames # <<>> /\ Looping
  /\ line.indent < Frame.blockIndent \/ (line.indent = Frame.blockIndent /\ ~IsExit)
  /\ frames' = Append(Outer, Looked)
  /\ UNCHANGED <<format, serviceMetaData, isFetching, document, line, shown, ragged>>

MetaLine ==
  /\ frames # <<>> /\ Looping /\ line.indent > Frame.blockIndent /\ line.kind = "meta"
  /\ IF serviceMetaData THEN Pushed(FALSE) ELSE UNCHANGED shown
  /\ frames' = Append(Outer, Looked)
  /\ ReadNext
  /\ UNCHANGED <<format, serviceMetaData, isFetching>>

\* Mutant: the backpointer of a statement is kept for the next one.
AfterBlock_Kept(f) == f

AfterBlock(f) == [f EXCEPT !.backpointer = "none"]

BlockHighlight(f) == IF f.backpointer = "none" THEN f.highlight ELSE f.backpointer = "open"

processBlock ==
  /\ frames # <<>> /\ Looping /\ line.indent > Frame.blockIndent /\ line.kind # "meta"
  /\ Pushed(BlockHighlight(Looked))
  /\ frames' = Outer \o <<AfterBlock(Looked),
                          [blockIndent |-> line.indent, indent |-> line.indent + 1,
                           backpointer |-> "none", highlight |-> BlockHighlight(Looked)]>>
  /\ ReadNext
  /\ UNCHANGED <<format, serviceMetaData, isFetching>>

EndBlock ==
  /\ frames # <<>> /\ line.kind # "unread" /\ ~Looping
  /\ frames' = Outer
  /\ UNCHANGED <<format, serviceMetaData, isFetching, document, line, shown, ragged>>

TextInit ==
  /\ format = "undefined" /\ serviceMetaData = FALSE /\ isFetching = FALSE
  /\ document = DocumentStart("cli") /\ line = EndOfText
  /\ frames = <<>> /\ shown = NoLine /\ ragged = FALSE

TextNext ==
  \/ getConfig \/ ReceiveConfig \/ toggleMetaData
  \/ ReadFirst \/ ExitLine \/ LookAtNext \/ MetaLine \/ processBlock \/ EndBlock

TextSpec == TextInit /\ [][TextNext]_textVars

------------------------------------------------------------------------------
(* Properties.                                                               *)

\* Unless a line is indented out of order, a line is highlighted if and only if
\* the open service is named by the backpointer of its statement, or of the
\* nearest around it that has one; and the configuration is shown to its end.
ConfigShown ==
  ~ragged => /\ shown.highlight = shown.want
             /\ Rendered => line.kind = "end"
==============================================================================
