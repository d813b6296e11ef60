----------------------------- MODULE TextEditor -----------------------------
(***************************************************************************)
(* The text of a task and its images, edited on the page of the task: the  *)
(* editor with its three tabs (ui/src/components/text-editor.tsx and       *)
(* tab-select.tsx), the attachments (ui/src/pages/admin/tasks/edit.tsx),   *)
(* and the route that stores both (api/routes/tasks.cc).                   *)
(*                                                                         *)
(* Each tab shows the text as of some version.  What is typed is read from *)
(* a tab when it loses the focus, is left, or is flushed, and if it is not *)
(* what was last written or read there, it is the text from then on.  Rich *)
(* text is never what was written, so it is read at the first occasion.    *)
(*                                                                         *)
(* A save is one step, which may be at any time after the text or an       *)
(* attachment changed; that it may fail, or be overtaken by edits, is the  *)
(* matter of SyncController.                                               *)
(***************************************************************************)
EXTENDS Quill, FiniteSets

CONSTANTS Ids,        \* images that may be attached
          Codes,      \* what is typed in the tab of the code
          Documents,  \* what is typed in the rich editor
          Stored,     \* texts the task may have at first
          MaxEdits,   \* bound: edits of the text, uploads and removals
          MaxNodes    \* bound: length of a text that is opened again

ASSUME TextEditorAssumption == MaxEdits \in Nat /\ MaxNodes \in Nat

VARIABLES
  editor,   \* TextEditorComponent, and what its tabs show
  images,   \* state of each image on the page
  server,   \* the text and the attachments that are stored
  remote,   \* the text and the attachments the page knows to be stored
  edits,    \* edits that may still happen
  meant,    \* history: what the user typed last, or found
  unread,   \* history: tabs with edits that were not read
  hidden,   \* history: an image was ready when the rich editor was not shown
  early     \* history: images of saved texts whose contents were being read

vars == <<editor, images, server, remote, edits, meant, unread, hidden, early>>
history == <<meant, unread, hidden, early>>

Tabs == {"QUILL", "CODE", "PREVIEW"}

\* Fault: a removed image keeps its link.
KnownForever(states) == {i \in Ids : states[i] \in {"reading", "listed", "deleted"}}

\* The keys of realMap and fakeMap, which addFile adds before it reads the contents.
Known(states) == {i \in Ids : states[i] \in {"reading", "listed"}}

RECURSIVE ImagesIn(_)
ImagesIn(nodes) ==
  UNION {IF x.tag = "img" THEN {x.attrs["src"][2]} ELSE ImagesIn(x.kids) : x \in ToSet(nodes)}

TextOfCode(code, ids) == codeToPreview(code, ids)
CodeOfDocument(doc, ids) == TrimEnd(quillToCode(SemanticHTML(doc), ids))
TextOfDocument(doc, ids) == codeToPreview(CodeOfDocument(doc, ids), ids)

\* A text as it is after a visit to the rich editor.
Visited(text, ids) == TextOfDocument(Converted(previewToQuill(text, ids)), ids)

-----------------------------------------------------------------------------
\* A new version of the text, and its three forms.
NewVersion(e, text, html) ==
  [e EXCEPT !.textVersion = @ + 1, !.text = text, !.textHtml = html]
VersionOfPreview(e, preview, code, ids) ==
  NewVersion(e, preview,
    [PREVIEW |-> preview, QUILL |-> previewToQuill(preview, ids), CODE |-> code])
VersionOfQuill(e, quill, code, preview) ==
  NewVersion(e, preview, [QUILL |-> quill, CODE |-> code, PREVIEW |-> preview])

\* onTabSwitch: what it reads from the tab that is left.
ReadCode(e, code, ids) ==
  IF e.textHtml["CODE"] = code THEN e
  ELSE VersionOfPreview(e, codeToPreview(code, ids), code, ids)

ReadQuill(e, quill, ids) ==
  LET Of(code) == VersionOfQuill(e, quill, code, codeToPreview(code, ids))
  IN IF e.textHtml["QUILL"] = quill THEN e ELSE Of(TrimEnd(quillToCode(quill, ids)))

ReadUpTo(read, tab) == [read EXCEPT !.domVersions[tab] = read.textVersion]

Read(e, tab, ids) ==
  CASE tab = "CODE" -> ReadUpTo(ReadCode(e, e.dom["CODE"], ids), tab)
    [] tab = "QUILL" -> ReadUpTo(ReadQuill(e, SemanticHTML(e.dom["QUILL"]), ids), tab)
    [] tab = "PREVIEW" -> ReadUpTo(e, tab)
    [] OTHER -> e

\* Whether a tab is up to date.
UpToDate(e, tab) == e.domVersions[tab] = e.textVersion

\* onTabSwitch: what it writes to the tab that is shown.
Write(e, tab) ==
  IF tab \notin Tabs \/ UpToDate(e, tab) THEN e
  ELSE [e EXCEPT !.domVersions[tab] = e.textVersion,
                 !.dom[tab] = IF tab = "QUILL" THEN Converted(e.textHtml["QUILL"])
                              ELSE e.textHtml[tab]]

onTabSwitch(e, index, oldIndex, ids) == Write(Read(e, oldIndex, ids), index)

\* The constructor.
Constructed(text, ids) ==
  LET empty == [selected |-> "QUILL", textVersion |-> 0,
                domVersions |-> [t \in Tabs |-> 0],
                textHtml |-> [t \in Tabs |-> <<>>], text |-> text,
                dom |-> [QUILL |-> EmptyDocument, CODE |-> <<>>, PREVIEW |-> <<>>]]
  IN IF text = <<>> THEN empty
     ELSE Write([empty EXCEPT !.textVersion = 1,
                   !.textHtml = [PREVIEW |-> text, CODE |-> previewToCode(text, ids),
                                 QUILL |-> previewToQuill(text, ids)]], "QUILL")

\* The text without the images that are gone.
WithImages(e, curr, ids) ==
  IF curr = e.textHtml["PREVIEW"] THEN e
  ELSE VersionOfPreview(e, curr, previewToCode(curr, ids), ids)
Updated(e, ids) == WithImages(e, updateImages(e.textHtml["PREVIEW"], ids), ids)

\* Fault: what was typed is not read before.
RemovedUnread(e, ids) == Write(Updated(e, ids), e.selected)

\* onImageRemoval
onImageRemoval(e, ids) == Write(Updated(Read(e, e.selected, ids), ids), e.selected)

flush(e, ids) == onTabSwitch(e, e.selected, e.selected, ids)

-----------------------------------------------------------------------------
\* The page is opened on a task; its attachments are those its text has.
Init ==
  /\ \E text \in Stored :
       /\ images = [i \in Ids |-> IF i \in ImagesIn(text) THEN "listed" ELSE "none"]
       /\ editor = Constructed(text, ImagesIn(text))
       /\ server = [text |-> text, attachments |-> ImagesIn(text), deleted |-> {}]
       /\ remote = [text |-> text, attachments |-> ImagesIn(text)]
       /\ meant = [tab |-> "PREVIEW", contents |-> text]
  /\ edits = MaxEdits
  /\ unread = {} /\ hidden = FALSE /\ early = {}

Type(tab, contents) ==
  /\ editor.selected = tab /\ edits > 0 /\ contents # editor.dom[tab]
  /\ editor' = [editor EXCEPT !.dom[tab] = contents]
  /\ edits' = edits - 1
  /\ meant' = [tab |-> tab, contents |-> contents]
  /\ unread' = {tab}
  /\ UNCHANGED <<images, server, remote, hidden, early>>

\* A link that works only later, of an image that is still to come, is not typed.
TypeCode ==
  \E code \in Codes :
    /\ \A x \in ToSet(code) :
         x.is = "name" /\ x.c = "img" /\ x.attrs["src"][2] \in Ids
           => images[x.attrs["src"][2]] \notin {"none", "uploading"}
    /\ Type("CODE", code)
TypeDocument ==
  \E doc \in Documents :
    /\ \A line \in ToSet(doc) :
         ImagesIn([i \in DOMAIN line.leaves |-> line.leaves[i].node]) \subseteq Known(images)
    /\ Type("QUILL", doc)

FocusOut ==
  /\ editor' = onTabSwitch(editor, "none", editor.selected, Known(images))
  /\ unread' = unread \ {editor.selected}
  /\ UNCHANGED <<images, server, remote, edits, meant, hidden, early>>

\* selectTab
SelectTab(tab) ==
  /\ tab # editor.selected
  /\ editor' = onTabSwitch([editor EXCEPT !.selected = tab], tab, editor.selected, Known(images))
  /\ unread' = unread \ {editor.selected}
  /\ UNCHANGED <<images, server, remote, edits, meant, hidden, early>>

-----------------------------------------------------------------------------
\* uploadImage, with its call of dbId.
Upload(i) ==
  /\ images[i] = "none" /\ edits > 0
  /\ images' = [images EXCEPT ![i] = "uploading"] /\ edits' = edits - 1
  /\ UNCHANGED <<editor, server, remote, history>>

\* uploadImage returns; addFile is at the contents, and the image is put into the
\* document.  If that is not shown, there may be no selection, and an exception.
Insert(i) ==
  LET doc == editor.dom["QUILL"]
      inserted == [doc EXCEPT ![Len(doc)].leaves = Append(@, Unformatted(Image("real", i)))]
  IN /\ images[i] = "uploading"
     /\ images' = [images EXCEPT ![i] = "reading"]
     /\ IF editor.selected = "QUILL"
        THEN /\ editor' = [editor EXCEPT !.dom["QUILL"] = inserted]
             /\ meant' = [tab |-> "QUILL", contents |-> inserted]
             /\ unread' = {"QUILL"} /\ hidden' = hidden
        ELSE /\ editor' \in {editor, [editor EXCEPT !.dom["QUILL"] = inserted]}
             /\ hidden' = TRUE /\ UNCHANGED <<meant, unread>>
     /\ UNCHANGED <<server, remote, edits, early>>

\* The rest of addFile: now there is an attachment.
ContentsRead(i) ==
  /\ images[i] = "reading"
  /\ images' = [images EXCEPT ![i] = "listed"]
  /\ UNCHANGED <<editor, server, remote, edits, history>>

\* Attachment::delete, and the listener of lengthchange.
Delete(i) ==
  /\ images[i] = "listed" /\ edits > 0
  /\ images' = [images EXCEPT ![i] = "deleted"] /\ edits' = edits - 1
  /\ editor' = onImageRemoval(editor, Known(images'))
  /\ unread' = unread \ {editor.selected}
  /\ UNCHANGED <<server, remote, meant, hidden, early>>

-----------------------------------------------------------------------------
Listed == {i \in Ids : images[i] = "listed"}
Deleted == {i \in Ids : images[i] = "deleted"}
AllSaved == remote = [text |-> editor.text, attachments |-> Listed]

\* RULES_SANITIZE: an image that no attachment of the task has is left out.
RECURSIVE Sanitize(_, _)
Sanitize(nodes, ids) ==
  FlattenSeq([i \in DOMAIN nodes |->
    IF nodes[i].tag = "img" /\ nodes[i].attrs["src"][2] \notin ids THEN <<>>
    ELSE <<[nodes[i] EXCEPT !.kids = Sanitize(@, ids)]>>])

\* handle_update; the text is sent if it differs.
Save ==
  LET attachments == server.attachments \cup server.deleted \cup Listed
  IN /\ ~AllSaved
     /\ server' = [text |-> IF remote.text = editor.text THEN server.text
                            ELSE Sanitize(editor.text, attachments),
                   attachments |-> Listed, deleted |-> server.deleted \cup Deleted]
     /\ remote' = [text |-> editor.text, attachments |-> Listed]
     /\ early' = IF remote.text = editor.text THEN early
                 ELSE ImagesIn(editor.text) \ attachments
     /\ UNCHANGED <<editor, images, edits, meant, unread, hidden>>

\* The page is flushed and left when all is saved, and opened again.
Reopen ==
  LET stored == server.text
  IN /\ flush(editor, Known(images)) = editor /\ AllSaved /\ edits > 0 /\ Len(stored) <= MaxNodes
     /\ images' = [i \in Ids |-> CASE i \in server.attachments -> "listed"
                                   [] i \in server.deleted -> "deleted"
                                   [] OTHER -> "none"]
     /\ editor' = Constructed(stored, server.attachments)
     /\ remote' = [text |-> stored, attachments |-> server.attachments]
     /\ meant' = [tab |-> "PREVIEW", contents |-> stored]
     /\ unread' = {} /\ hidden' = FALSE /\ early' = {}
     /\ UNCHANGED <<server, edits>>

Next ==
  \/ TypeCode \/ TypeDocument \/ FocusOut
  \/ \E tab \in Tabs : SelectTab(tab)
  \/ \E i \in Ids : Upload(i) \/ Insert(i) \/ ContentsRead(i) \/ Delete(i)
  \/ Save \/ Reopen

Spec == Init /\ [][Next]_vars

-----------------------------------------------------------------------------
\* An aligned line without a letter, which the code takes for one that is empty.
Textless(x) == x.tag = "div" /\ ToSet(InnerText(x.kids)) \subseteq {" "}
HasTextless(text) == \E x \in ToSet(text) : Textless(x)
WithoutBreaks(text) == SelectSeq(text, LAMBDA x : x # Br)

\* What the user last typed or found is the text once it was read, as a visit to the
\* rich editor leaves it and without the images that were removed since.  Where it
\* has aligned lines without letters, the number of blank lines may be another one.
TypedIsText ==
  LET ids == Known(images)
      text == CASE meant.tab = "CODE" -> TextOfCode(meant.contents, ids)
                [] meant.tab = "QUILL" -> TextOfDocument(meant.contents, ids)
                [] OTHER -> updateImages(meant.contents, ids)
      once == Visited(editor.text, ids)
      expected == Visited(text, ids)
  IN unread = {} /\ ~hidden =>
       \/ editor.text = text
       \/ once = expected
       \/ HasTextless(text) /\ WithoutBreaks(once) = WithoutBreaks(expected)

\* A text with one more break after each aligned line without a letter but the last.
BreaksAdded(text) ==
  FlattenSeq([i \in DOMAIN text |->
    IF Textless(text[i]) /\ i < Len(text) THEN <<text[i], Br>> ELSE <<text[i]>>])

\* A visit without edits changes nothing in a text that a visit left, except that each
\* visit adds a blank line after every aligned line that shows images and no letter.
VisitsSettle ==
  LET ids == Known(images)
      visited == Visited(editor.text, ids)
  IN Visited(visited, ids) = BreaksAdded(visited)

\* The stored text has the images that the page shows, none of which was removed,
\* unless a text was saved while the contents of an image were being read.
ImagesAreStored ==
  AllSaved /\ unread = {} =>
    /\ ImagesIn(editor.text) \cap Deleted = {}
    /\ ImagesIn(server.text) = ImagesIn(editor.text) \ early
=============================================================================
