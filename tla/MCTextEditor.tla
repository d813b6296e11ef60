---------------------------- MODULE MCTextEditor ----------------------------
EXTENDS TextEditor

x == Unformatted(Char("x"))
bold == Leaf(Char("x"), TRUE, "", "")
red == Leaf(Char("y"), FALSE, "red", "ql-size-xlarge")
picture == Unformatted(Image("real", 1))

MCDocuments ==
  {<<Line("ql-align-center", <<x, bold, red>>), Line("", <<>>), Line("", <<x>>)>>,
   <<Line("", <<x>>), Line("ql-align-center", <<>>), Line("ql-align-center", <<picture>>),
     Line("", <<bold>>)>>}

InTag(tag, attrs, code) == Open(tag, attrs) \o code \o Close(tag)

MCCodes ==
  {InTag("div", "align" :> "center", <<Letter("x")>>) \o <<Letter("\n")>>
     \o InTag("font", "color" :> "red", <<Letter("y")>>) \o Open("img", "src" :> <<"fake", 3>>),
   <<Letter("\n"), Letter("<")>> \o Open("b", NoAttrs) \o <<Letter(">"), Letter(" ")>>
     \o Open("img", "src" :> <<"fake", 1>>) \o <<Letter("\n")>>}

Centered(kids) == Node("div", "align" :> "center", kids)

MCStored ==
  {<<>>,
   <<Centered(<<Image("real", 1), Char("y")>>), Char("x"), Br,
     Centered(<<Image("real", 1)>>), Br, Char("x")>>}
=============================================================================
