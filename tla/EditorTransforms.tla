-------------------------- MODULE EditorTransforms --------------------------
(***************************************************************************)
(* How the text of a task goes from the code an administrator types to the *)
(* preview that is stored and to the rich editor, and back                 *)
(* (ui/src/utils/editor-transforms.ts and traverse.ts).                    *)
(*                                                                         *)
(* A fragment of HTML is a sequence of nodes; a text node is one           *)
(* character.  Code is a sequence of characters of which what could be the *)
(* name and the attributes of a tag is one.  What the parser and the       *)
(* serializer of the browser, and Quill, make of either is external.       *)
(*                                                                         *)
(* An image is named by its attachment.  Its link is <<"real", id>> in the *)
(* preview and <<"fake", id>> in the code, and works while the id is in    *)
(* ctx.ids, the keys of realMap and of fakeMap.                            *)
(***************************************************************************)
EXTENDS Integers, SequencesExt, TLC

\* FoldLeft of SequencesExt, which takes too long for fragments.
Fold(op(_, _), base, seq) ==
  LET f[i \in 0..Len(seq)] == IF i = 0 THEN base ELSE op(f[i - 1], seq[i])
  IN f[Len(seq)]

Node(tag, attrs, kids) == [tag |-> tag, attrs |-> attrs, kids |-> kids]
NoAttrs == [x \in {} |-> ""]
Char(c) == Node("text", "data" :> c, <<>>)
Br == Node("br", NoAttrs, <<>>)
NewLine == Char("\n")
Image(kind, id) == Node("img", "src" :> <<kind, id>>, <<>>)

Attr(node, name, default) == IF name \in DOMAIN node.attrs THEN node.attrs[name] ELSE default
WithAttrs(node, names) == Restrict(node.attrs, names \cap DOMAIN node.attrs)

ALLOWED_TAGS == {"a", "b", "i", "s", "u", "div", "img", "font", "sub", "sup", "br", "formula", "pre"}
ALLOWED_CLOSE_TAGS == ALLOWED_TAGS \ {"img"}

PREVIEW_TO_QUILL_SIZE ==
  "1" :> "ql-size-xsmall" @@ "2" :> "ql-size-small" @@ "4" :> "ql-size-large"
    @@ "5" :> "ql-size-xlarge" @@ "6" :> "ql-size-xxlarge"
PREVIEW_TO_QUILL_ALIGN ==
  "center" :> "ql-align-center" @@ "right" :> "ql-align-right" @@ "justify" :> "ql-align-justify"
SizeOf(class) == CHOOSE s \in DOMAIN PREVIEW_TO_QUILL_SIZE : PREVIEW_TO_QUILL_SIZE[s] = class
AlignOf(class) == CHOOSE x \in DOMAIN PREVIEW_TO_QUILL_ALIGN : PREVIEW_TO_QUILL_ALIGN[x] = class

-----------------------------------------------------------------------------
(* Rules: the tags and a condition on attributes, a handler, and whether   *)
(* the rules after it apply, too.                                          *)

Rule(tags, handler) == [tags |-> tags, attr |-> "", of |-> {}, handler |-> handler, goOn |-> FALSE]
RuleIf(tags, attr, of, handler, goOn) ==
  [tags |-> tags, attr |-> attr, of |-> of, handler |-> handler, goOn |-> goOn]

Text == {"text"}
Plain == {"b", "i", "u", "s", "sub", "sup", "pre"}
HtmlTags == ALLOWED_TAGS \cup {"p", "span", "strong", "em"}

CODE_TO_PREVIEW_RULES ==
  <<Rule(Text, "useTag"), Rule({"br"}, "useBrInPreview"), Rule(Plain, "useTagWithoutAttributes"),
    Rule({"a"}, "useHref"), Rule({"font"}, "useFontInPreview"), Rule({"img"}, "useImageInPreview"),
    RuleIf({"div"}, "align", {"center", "left", "right", "justify"}, "useAlign", FALSE),
    Rule({"formula"}, "useTagWithoutAttributes")>>

PREVIEW_TO_CODE_RULES ==
  <<Rule(Text, "useTag"), Rule({"br"}, "insertNewLine"), Rule({"img"}, "useImageInCode"),
    Rule({"div", "pre"}, "useDivInCode"), Rule(HtmlTags, "useTag")>>

PREVIEW_TO_QUILL_RULES ==
  <<Rule(Text, "useTextInQuill"), Rule({"br"} \cup Plain, "useTagWithoutAttributes"),
    Rule({"a"}, "useHref"), Rule({"img"}, "useSrc"), Rule({"font"}, "useFontInQuill"),
    RuleIf({"div"}, "align", {}, "useAlignInQuill", FALSE),
    Rule({"formula"}, "useFormulaInQuill")>>

QUILL_TO_CODE_RULES ==
  <<Rule(Text, "useTag"),
    RuleIf({"span"}, "class", ToSet(PREVIEW_TO_QUILL_SIZE), "wrapSize", TRUE),
    RuleIf({"p"}, "class", ToSet(PREVIEW_TO_QUILL_ALIGN), "wrapAlign", TRUE),
    RuleIf(HtmlTags, "style", {}, "useStyleInCode", TRUE),
    Rule({"u", "s", "sup", "sub"}, "useTagWithoutAttributes"),
    Rule({"strong"}, "wrapB"), Rule({"em"}, "wrapI"), Rule({"a"}, "useHref"),
    Rule({"img"}, "useImageInCode"), Rule({"pre"}, "useTagWithoutAttributes"),
    Rule({"p"}, "insertNewLine"), Rule({"formula"}, "useFormulaInCode")>>

IMAGE_UPDATE_RULES ==
  <<Rule(Text, "useTag"), Rule({"img"}, "useImageInPreview"), Rule(HtmlTags, "useTag")>>

\* matches
Fits(node, rule) ==
  /\ node.tag \in rule.tags
  /\ rule.attr # "" => rule.attr \in DOMAIN node.attrs
  /\ rule.of # {} => node.attrs[rule.attr] \in rule.of

-----------------------------------------------------------------------------
RECURSIVE InnerText(_)
InnerText(nodes) ==
  FlattenSeq([i \in DOMAIN nodes |->
    IF nodes[i].tag = "text" THEN <<nodes[i].attrs["data"]>> ELSE InnerText(nodes[i].kids)])

\* Fault: lines with an alignment are forgotten.
IsPre(nodes) == \E x \in ToSet(nodes) : x.tag = "pre"

\* isElementCreatingBr, of an element or of none.
IsElementCreatingBr(nodes) ==
  \E x \in ToSet(nodes) :
    x.tag \in {"div", "pre"} /\ ("class" \in DOMAIN x.attrs \/ ToSet(InnerText(x.kids)) \ {" "} # {})

\* What the handlers of the rules return.  before is the previous sibling; font is
\* the top of ctx.color and ctx.size; ids are the images that are known.
Handle(handler, node, before, kids, font, ids) ==
  CASE handler = "useTag" -> <<[node EXCEPT !.kids = kids]>>
    [] handler = "useTagWithoutAttributes" -> <<Node(node.tag, NoAttrs, kids)>>
    [] handler = "useHref" -> <<Node(node.tag, WithAttrs(node, {"href"}), kids)>>
    [] handler = "useAlign" -> <<Node(node.tag, WithAttrs(node, {"align"}), kids)>>
    [] handler = "useSrc" -> <<Node(node.tag, WithAttrs(node, {"src"}), kids)>>
    [] handler = "useBrInPreview" -> IF IsElementCreatingBr(before) THEN <<>> ELSE <<Br>>
    [] handler = "useDivInCode" ->
         <<[node EXCEPT !.kids = kids]>>
           \o (IF IsElementCreatingBr(<<node>>) THEN <<NewLine>> ELSE <<>>)
    [] handler = "useImageInPreview" ->
         IF node.attrs["src"][2] \in ids THEN <<Image("real", node.attrs["src"][2])>> ELSE <<>>
    [] handler = "useImageInCode" ->
         IF node.attrs["src"][2] \in ids THEN <<Image("fake", node.attrs["src"][2])>> ELSE <<>>
    [] handler = "useFontInPreview" ->
         <<Node("font",
                WithAttrs(node, {"color"}) @@
                  (IF Attr(node, "size", "") \in DOMAIN PREVIEW_TO_QUILL_SIZE
                   THEN "size" :> node.attrs["size"] ELSE NoAttrs), kids)>>
    [] handler = "useFontInQuill" -> kids
    [] handler = "useTextInQuill" ->
         IF font = [color |-> "black", size |-> "3"] THEN <<node>>
         ELSE <<Node("span",
                  (IF font.color # "black" THEN "style" :> font.color ELSE NoAttrs) @@
                    (IF font.size # "3" THEN "class" :> PREVIEW_TO_QUILL_SIZE[font.size]
                     ELSE NoAttrs), <<node>>)>>
    [] handler = "useAlignInQuill" ->
         <<Node("div", IF node.attrs["align"] \in DOMAIN PREVIEW_TO_QUILL_ALIGN
                       THEN "class" :> PREVIEW_TO_QUILL_ALIGN[node.attrs["align"]] ELSE NoAttrs, kids)>>
    [] handler = "wrapSize" -> <<Node("font", "size" :> SizeOf(node.attrs["class"]), kids)>>
    [] handler = "wrapAlign" -> <<Node("div", "align" :> AlignOf(node.attrs["class"]), kids)>>
    [] handler = "wrapB" -> <<Node("b", NoAttrs, kids)>>
    [] handler = "wrapI" -> <<Node("i", NoAttrs, kids)>>
    [] handler = "useStyleInCode" ->
         IF node.attrs["style"] = "black" THEN kids
         ELSE <<Node("font", "color" :> node.attrs["style"], kids)>>
    [] handler = "insertNewLine" -> Append(kids, NewLine)
    [] handler = "useFormulaInQuill" -> <<Node("formula", "value" :> InnerText(node.kids), <<>>)>>
    [] handler = "useFormulaInCode" ->
         <<Node("formula", NoAttrs, [i \in DOMAIN node.attrs["value"] |-> Char(node.attrs["value"][i])])>>

\* The in-handler of useFontInQuill.
FontIn(node, rules, font) ==
  IF \E rule \in ToSet(rules) : rule.handler = "useFontInQuill" /\ Fits(node, rule)
  THEN [color |-> Attr(node, "color", font.color), size |-> Attr(node, "size", font.size)]
  ELSE font

RECURSIVE Traverse(_, _, _, _)
Traverse(nodes, rules, font, ids) ==
  FlattenSeq([i \in DOMAIN nodes |->
    LET node == nodes[i]
        before == IF i = 1 THEN <<>> ELSE <<nodes[i - 1]>>
        Step(sofar, rule) ==
          IF sofar.done \/ ~Fits(node, rule) THEN sofar
          ELSE [done |-> ~rule.goOn,
                kids |-> Handle(rule.handler, node, before, sofar.kids, font, ids)]
        kids == Traverse(node.kids, rules, FontIn(node, rules, font), ids)
    IN Fold(Step, [done |-> FALSE, kids |-> kids], rules).kids])

NoFont == [color |-> "black", size |-> "3"]

-----------------------------------------------------------------------------
(* Code: "<" and ">", what may be a tag between them, and letters, of which *)
(* "&lt;" and "&gt;" are two.                                              *)

Letter(c) == [is |-> "letter", c |-> c]
Name(tag, attrs) == [attrs |-> attrs, is |-> "name", c |-> tag]
CloseName(tag) == [is |-> "close", c |-> tag]
Open(tag, attrs) == <<Letter("<"), Name(tag, attrs), Letter(">")>>
Close(tag) == <<Letter("<"), CloseName(tag), Letter(">")>>

IsBlank(x) == x.is = "letter" /\ x.c \in {" ", "\n"}
TrimEnd(s) == SubSeq(s, 1, Max({0} \cup {i \in DOMAIN s : ~IsBlank(s[i])}))
Trim(s) == Reverse(TrimEnd(Reverse(TrimEnd(s))))

\* The loop of codeToPreview: names of tags that are allowed remain, everything
\* else becomes letters.
Sanitized(data) ==
  LET IsTag(tag) ==
        Len(tag) = 1 /\ \/ tag[1].is = "close" /\ tag[1].c \in ALLOWED_CLOSE_TAGS
                        \/ tag[1].is = "name" /\ tag[1].c \in ALLOWED_TAGS
      Letters(tag) == [i \in DOMAIN tag |-> Letter(tag[i].c)]
      Step(s, x) ==
        CASE x = Letter("<") ->
               [open |-> TRUE, tag |-> <<>>,
                out |-> IF s.open THEN Append(s.out, Letter("&lt;")) \o Letters(s.tag) ELSE s.out]
          [] x = Letter(">") ->
               [open |-> FALSE, tag |-> <<>>,
                out |-> CASE ~s.open -> Append(s.out, Letter("&gt;"))
                          [] s.open /\ IsTag(s.tag) -> s.out \o s.tag
                          [] OTHER -> Append(s.out, Letter("&lt;")) \o Letters(s.tag)
                                        \o <<Letter("&gt;")>>]
          [] OTHER -> IF s.open THEN [s EXCEPT !.tag = Append(@, x)]
                      ELSE [s EXCEPT !.out = Append(@, Letter(x.c))]
  IN Fold(Step, [open |-> FALSE, tag |-> <<>>, out |-> <<>>], Append(data, Letter("<"))).out

\* The browser's parser: end tags without a start are left out, and what is not
\* closed is closed by an end tag around it.  Tags are properly nested otherwise.
Parsed(data) ==
  LET Put(stack, node) == [stack EXCEPT ![Len(stack)].kids = Append(@, node)]
      Closed(stack, n) ==  \* but for n elements
        Fold(LAMBDA s, i : Put(Front(s), Last(s)), stack, [i \in 1..Len(stack) - n |-> i])
      Step(stack, x) ==
        CASE x = Letter("\n") -> Put(stack, Br)
          [] x.is = "letter" /\ x.c # "\n" ->
               Put(stack, Char(CASE x.c = "&lt;" -> "<" [] x.c = "&gt;" -> ">" [] OTHER -> x.c))
          [] x.is = "name" -> IF x.c \in {"br", "img"} THEN Put(stack, Node(x.c, x.attrs, <<>>))
                              ELSE Append(stack, Node(x.c, x.attrs, <<>>))
          [] x.is = "close" ->
               LET open == {i \in 2..Len(stack) : stack[i].tag = x.c}
               IN IF open = {} THEN stack ELSE Closed(stack, Max(open) - 1)
  IN Closed(Fold(Step, <<Node("template", NoAttrs, <<>>)>>, data), 1)[1].kids

\* The browser's serializer.
RECURSIVE Written(_)
Written(nodes) ==
  FlattenSeq([i \in DOMAIN nodes |->
    LET x == nodes[i]
    IN CASE x.tag = "text" ->
              LET c == x.attrs["data"]
              IN <<Letter(CASE c = "<" -> "&lt;" [] c = ">" -> "&gt;" [] OTHER -> c)>>
         [] x.tag \in {"br", "img"} -> Open(x.tag, x.attrs)
         [] OTHER -> Open(x.tag, x.attrs) \o Written(x.kids) \o Close(x.tag)])

-----------------------------------------------------------------------------
codeToPreview(data, ids) ==
  Traverse(Parsed(Trim(Sanitized(data))), CODE_TO_PREVIEW_RULES, NoFont, ids)

previewToCode(data, ids) == Written(Traverse(data, PREVIEW_TO_CODE_RULES, NoFont, ids))
previewToQuill(data, ids) == Traverse(data, PREVIEW_TO_QUILL_RULES, NoFont, ids)
quillToCode(data, ids) == Written(Traverse(data, QUILL_TO_CODE_RULES, NoFont, ids))
updateImages(data, ids) == Traverse(data, IMAGE_UPDATE_RULES, NoFont, ids)
=============================================================================
