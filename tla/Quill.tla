-------------------------------- MODULE Quill --------------------------------
(***************************************************************************)
(* The document of the rich editor, as far as text-editor.tsx relies on    *)
(* the library (external): lines with an alignment, of characters, images  *)
(* and formulas with formats; how HTML becomes a document, and back.       *)
(* Blocks of code are left out.                                            *)
(***************************************************************************)
EXTENDS EditorTransforms

Line(align, leaves) == [align |-> align, leaves |-> leaves]
Leaf(node, bold, color, size) ==
  [node |-> node, bold |-> bold, color |-> color, size |-> size]
Unformatted(node) == Leaf(node, FALSE, "", "")

EmptyDocument == <<Line("", <<>>)>>

\* clipboard.convert: leaves, and ends of lines.
RECURSIVE Leaves(_, _)
Leaves(nodes, fmt) ==
  FlattenSeq([i \in DOMAIN nodes |->
    LET x == nodes[i]
        kids == Leaves(x.kids, [fmt EXCEPT
                  !.bold = @ \/ x.tag \in {"b", "strong"},
                  !.color = IF x.tag = "span" THEN Attr(x, "style", @) ELSE @,
                  !.size = IF x.tag = "span" THEN Attr(x, "class", @) ELSE @])
    IN CASE x.tag \in {"text", "img", "formula"} -> <<[fmt EXCEPT !.node = x]>>
         [] x.tag = "br" -> <<Unformatted(Br)>>
         [] x.tag = "div" -> kids \o (IF x.kids = <<>> THEN <<>>
              ELSE <<Unformatted(Node("br", WithAttrs(x, {"class"}), <<>>))>>)
         [] OTHER -> kids])

\* setContents of what convert returns: the last line need not be ended.
Converted(nodes) ==
  LET leaves == Leaves(nodes, Unformatted(Br))
      Step(doc, x) ==
        IF x.node.tag = "br"
        THEN Append([doc EXCEPT ![Len(doc)].align = Attr(x.node, "class", "")], Line("", <<>>))
        ELSE [doc EXCEPT ![Len(doc)].leaves = Append(@, x)]
      doc == Fold(Step, EmptyDocument, leaves)
  IN IF Len(doc) > 1 /\ Last(doc).leaves = <<>> THEN Front(doc) ELSE doc

\* getSemanticHTML: neighbours of one format share their elements.
SemanticHTML(doc) ==
  LET Element(x, nodes) ==
        LET span == IF x.color = "" /\ x.size = "" THEN nodes
                    ELSE <<Node("span", (IF x.color # "" THEN "style" :> x.color ELSE NoAttrs)
                                        @@ (IF x.size # "" THEN "class" :> x.size ELSE NoAttrs),
                                nodes)>>
        IN IF x.bold THEN <<Node("strong", NoAttrs, span)>> ELSE span
      Step(runs, x) ==
        IF runs # <<>> /\ Last(runs)[1] = [x EXCEPT !.node = Br]
        THEN [runs EXCEPT ![Len(runs)][2] = Append(@, x.node)]
        ELSE Append(runs, <<[x EXCEPT !.node = Br], <<x.node>>>>)
      Runs(leaves) == Fold(Step, <<>>, leaves)
  IN [i \in DOMAIN doc |->
       LET runs == Runs(doc[i].leaves)
       IN Node("p", IF doc[i].align = "" THEN NoAttrs ELSE "class" :> doc[i].align,
               FlattenSeq([j \in DOMAIN runs |-> Element(runs[j][1], runs[j][2])]))]
=============================================================================
