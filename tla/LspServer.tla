------------------------------- MODULE LspServer -------------------------------
(***************************************************************************)
(* compiler/lsp: the server's read-dispatch-write loop and its document    *)
(* store, with an editor at the other end of two pipes.  The server is     *)
(* single-threaded, so handling one message, its single answer included,   *)
(* is one action; the editor types, asks and reads while messages are on   *)
(* their way.  Diagnostics are a function of the text they were computed   *)
(* from and are represented by that text.                                  *)
(***************************************************************************)
EXTENDS LspText, FiniteSets

CONSTANTS Uris,         \* documents the editor has
          Letters,      \* characters it types
          MaxText,      \* longest text
          MaxSent,      \* messages the editor sends in all
          MaxGarbage    \* malformed messages among them

ASSUME LspServerAssumption ==
  Letters \subseteq Chars /\ MaxText \in Nat /\ MaxSent \in Nat /\ MaxGarbage \in Nat

VARIABLES editor,       \* editor[u]: the editor's buffer, Closed when not open
          shown,        \* shown[u]: the diagnostics it displays
          toServer,     \* stdin of the server
          toEditor,     \* stdout of the server
          docs,         \* s.docs: the text of each open document
          state,        \* Run: "running" | "exited" | "eof" | "failed"
          shutdown,     \* s.shutdown
          asked,        \* ids of the requests sent
          replies,      \* replies[i]: responses read for request i
          sent, garbage \* messages sent, malformed ones sent

lspVars == <<editor, shown, toServer, toEditor, docs, state, shutdown, asked, replies,
          sent, garbage>>
client == <<editor, shown, asked, replies, sent, garbage>>

Closed == [open |-> FALSE]
Open(t) == [open |-> TRUE, text |-> t]

\* What is displayed: nothing, or the diagnostics of a text.
NoMarkers == [of |-> "nothing"]
Markers(t) == [of |-> "text", text |-> t]

EditorTexts == UNION {[1 .. n -> Letters] : n \in 0 .. MaxText}

LspInit ==
  /\ editor = [u \in Uris |-> Closed]
  /\ shown = [u \in Uris |-> NoMarkers]
  /\ toServer = <<>> /\ toEditor = <<>>
  /\ docs = [u \in Uris |-> Closed]
  /\ state = "running" /\ shutdown = FALSE
  /\ asked = {}
  /\ replies = [i \in 1 .. MaxSent |-> 0]
  /\ sent = 0 /\ garbage = 0

-----------------------------------------------------------------------------
(* The editor (external): what it may send *)

Posts(m) ==
  /\ sent < MaxSent
  /\ toServer' = Append(toServer, m)
  /\ sent' = sent + 1
  /\ UNCHANGED <<toEditor, docs, state, shutdown, shown, replies>>

EditorOpens(u) ==
  \E t \in EditorTexts :
    /\ Posts([is |-> "didOpen", uri |-> u, text |-> t])
    /\ editor' = [editor EXCEPT ![u] = Open(t)]
    /\ UNCHANGED <<asked, garbage>>

\* The editor's position before character i + 1 of t.
EditorPos(t, i) ==
  LET bol == Sets!Max({0} \cup {j \in 1 .. i : t[j] = "nl"})
  IN  Pos(Newlines(Take(t, i)), UnitLen(SubSeq(t, bol + 1, i)))

\* The editor replaces a selection and tells the server so, as a range or as
\* the full new text.
EditorTypes(u) ==
  /\ editor[u].open
  /\ LET t == editor[u].text
     IN \E i \in 0 .. Len(t) : \E j \in i .. Len(t) :
        \E new \in {<<>>} \cup {<<c>> : c \in Letters} :
          LET result == Take(t, i) \o new \o Slice(t, j, Len(t))
              range == [start |-> EditorPos(t, i), end |-> EditorPos(t, j)]
          IN  /\ Len(result) <= MaxText /\ result # t
              /\ editor' = [editor EXCEPT ![u] = Open(result)]
              /\ \/ Posts([is |-> "didChange", uri |-> u, full |-> FALSE,
                          range |-> range, text |-> new])
                 \/ Posts([is |-> "didChange", uri |-> u, full |-> TRUE, text |-> result])
  /\ UNCHANGED <<asked, garbage>>

EditorCloses(u) ==
  /\ editor[u].open
  /\ editor' = [editor EXCEPT ![u] = Closed]
  /\ Posts([is |-> "didClose", uri |-> u])
  /\ UNCHANGED <<asked, garbage>>

\* Requests, one kind for each way through a handler: "document" stands for
\* completion, documentSymbol and semanticTokens/full, "workspace" for
\* workspace/symbol and codeAction.
Requests == {"initialize", "hover", "definition", "document", "workspace",
             "unknown", "nomethod", "shutdown"}

\* A request; its id is its number.  Its params are about a document, open or
\* not, or cannot be decoded.
EditorAsks ==
  /\ \E what \in Requests, d \in Uris \cup {"bad"} :
       Posts([is |-> what, id |-> sent + 1, on |-> d])
  /\ asked' = asked \cup {sent + 1}
  /\ UNCHANGED <<editor, garbage>>

\* initialized, didSave, unknown notifications; and exit.
EditorNotifies ==
  /\ \E what \in {"ignored", "exit"} : Posts([is |-> what])
  /\ UNCHANGED <<editor, asked, garbage>>

\* A body that is not JSON, or has neither method nor id; a notification whose
\* params cannot be decoded; a frame without a valid Content-Length header.
EditorSendsGarbage ==
  /\ garbage < MaxGarbage
  /\ garbage' = garbage + 1
  /\ \E what \in {"badjson", "anonymous", "badOpen", "badChange", "badClose", "badframe"} :
       Posts([is |-> what])
  /\ UNCHANGED <<editor, asked>>

\* The editor closes its end of the pipe.
EditorHangsUp ==
  /\ Posts([is |-> "eof"])
  /\ UNCHANGED <<editor, asked, garbage>>

\* It reads one message.  Diagnostics are a list in the protocol; anything else
\* is not displayed.
EditorReads ==
  /\ toEditor # <<>>
  /\ toEditor' = Tail(toEditor)
  /\ LET m == Head(toEditor)
     IN  /\ shown' = IF m.is = "publish" /\ m.list
                       THEN [shown EXCEPT ![m.uri] = m.diags] ELSE shown
         /\ replies' = IF m.is = "response" /\ m.id # 0
                         THEN [replies EXCEPT ![m.id] = @ + 1] ELSE replies
  /\ UNCHANGED <<editor, toServer, docs, state, shutdown, asked, sent, garbage>>

-----------------------------------------------------------------------------
(* The server *)

\* Run reads the next message; the loop ends before it reads when s.done.
Takes(kinds) ==
  /\ state = "running"
  /\ toServer # <<>>
  /\ Head(toServer).is \in kinds
  /\ toServer' = Tail(toServer)

Writes(m) == toEditor' = Append(toEditor, m)

\* json.Marshal turns a nil slice into null, so a nil result of
\* computeDiagnostics or of handleDidClose is no list.
Publish(u, diags, isList) ==
  [is |-> "publish", uri |-> u, diags |-> diags, list |-> isList]

\* writeResult and writeError; id 0 is the null id.  A nil result is omitted.
Response(i, outcome) == [is |-> "response", id |-> i, outcome |-> outcome]

\* One response, and nothing else changes.
Reply(i, outcome) ==
  Writes(Response(i, outcome)) /\ UNCHANGED <<client, docs, state, shutdown>>

HandleDidOpen ==
  \/ /\ Takes({"didOpen"})
     /\ LET m == Head(toServer)
        IN  /\ docs' = [docs EXCEPT ![m.uri] = Open(m.text)]
            /\ Writes(Publish(m.uri, Markers(m.text), TRUE))
     /\ UNCHANGED <<client, state, shutdown>>
  \/ Takes({"badOpen"}) /\ Reply(0, "error")

\* Mutation of HandleDidChange: the range of a change is ignored.
HandleDidChangeFull ==
  /\ Takes({"didChange"})
  /\ LET m == Head(toServer)
     IN  IF ~docs[m.uri].open THEN UNCHANGED <<docs, toEditor>>
         ELSE /\ docs' = [docs EXCEPT ![m.uri] = Open(m.text)]
              /\ Writes(Publish(m.uri, Markers(m.text), TRUE))
  /\ UNCHANGED <<client, state, shutdown>>

\* Mutation of HandleDidChange: diagnostics are computed before the change.
HandleDidChangeEarly ==
  /\ Takes({"didChange"})
  /\ LET m == Head(toServer)
     IN  IF ~docs[m.uri].open THEN UNCHANGED <<docs, toEditor>>
         ELSE /\ docs' = [docs EXCEPT ![m.uri] =
                   Open(IF m.full THEN m.text ELSE applyRangeEdit(@.text, m.range, m.text))]
              /\ Writes(Publish(m.uri, Markers(docs[m.uri].text), TRUE))
  /\ UNCHANGED <<client, state, shutdown>>

\* DocStore.Apply, then diagnostics of the new text; a change to a document
\* that is not open is dropped silently.
HandleDidChange ==
  \/ /\ Takes({"didChange"})
     /\ LET m == Head(toServer)
        IN  IF ~docs[m.uri].open THEN UNCHANGED <<docs, toEditor>>
            ELSE LET t == IF m.full THEN m.text
                          ELSE applyRangeEdit(docs[m.uri].text, m.range, m.text)
                 IN  /\ docs' = [docs EXCEPT ![m.uri] = Open(t)]
                     /\ Writes(Publish(m.uri, Markers(t), TRUE))
     /\ UNCHANGED <<client, state, shutdown>>
  \/ Takes({"badChange"}) /\ Reply(0, "error")

HandleDidClose ==
  \/ /\ Takes({"didClose"})
     /\ docs' = [docs EXCEPT ![Head(toServer).uri] = Closed]
     /\ Writes(Publish(Head(toServer).uri, NoMarkers, FALSE))
     /\ UNCHANGED <<client, state, shutdown>>
  \/ Takes({"badClose"}) /\ Reply(0, "error")

\* The client capabilities are read but not used, so no params are bad here.
HandleInitialize ==
  Takes({"initialize"}) /\ Reply(Head(toServer).id, "result")

\* Mutation of HandleHover: the return after ErrInvalidParams is missing, and no
\* document has the empty name.
HandleHoverTwice ==
  /\ Takes({"hover"})
  /\ LET m == Head(toServer)
     IN  toEditor' = toEditor \o
           (IF m.on = "bad" THEN <<Response(m.id, "error"), Response(m.id, "nil")>>
            ELSE <<Response(m.id, "result")>>)
  /\ UNCHANGED <<client, docs, state, shutdown>>

\* ErrInvalidParams; nil for a document that is not open, or without an
\* identifier at the cursor.  What identifierAt finds is left open here.
HandleHover ==
  /\ Takes({"hover"})
  /\ LET m == Head(toServer)
     IN  \/ m.on = "bad" /\ Reply(m.id, "error")
         \/ m.on # "bad" /\ ~docs[m.on].open /\ Reply(m.id, "nil")
         \/ /\ m.on # "bad" /\ docs[m.on].open
            /\ \E word \in BOOLEAN : Reply(m.id, IF word THEN "result" ELSE "nil")

\* As hover, and nil as well when findDefinition finds no declaration.
HandleDefinition ==
  /\ Takes({"definition"})
  /\ LET m == Head(toServer)
     IN  \/ m.on = "bad" /\ Reply(m.id, "error")
         \/ m.on # "bad" /\ ~docs[m.on].open /\ Reply(m.id, "nil")
         \/ /\ m.on # "bad" /\ docs[m.on].open
            /\ \E word, found \in BOOLEAN :
                 Reply(m.id, IF word /\ found THEN "result" ELSE "nil")

\* Completion, documentSymbol and semanticTokens/full: an empty list for a
\* document that is not open.
HandleDocumentRequest ==
  /\ Takes({"document"})
  /\ LET m == Head(toServer)
     IN  \/ m.on = "bad" /\ Reply(m.id, "error")
         \/ m.on # "bad" /\ Reply(m.id, IF docs[m.on].open THEN "result" ELSE "empty")

\* workspace/symbol and codeAction do not ask for an open document.
HandleWorkspaceRequest ==
  /\ Takes({"workspace"})
  /\ LET m == Head(toServer)
     IN  Reply(m.id, IF m.on = "bad" THEN "error" ELSE "result")

\* ErrMethodNotFound.
HandleUnknown ==
  Takes({"unknown"}) /\ Reply(Head(toServer).id, "error")

HandleShutdown ==
  /\ Takes({"shutdown"})
  /\ shutdown' = TRUE
  /\ Writes(Response(Head(toServer).id, "nil"))
  /\ UNCHANGED <<client, docs, state>>

\* Notifications that change nothing.
HandleIgnored ==
  /\ Takes({"ignored"})
  /\ UNCHANGED <<client, toEditor, docs, state, shutdown>>

\* Handle: a body it cannot parse is answered with an error under the null id,
\* one without a method under the id it has, if any.
HandleMalformed ==
  \/ Takes({"badjson", "anonymous"}) /\ Reply(0, "error")
  \/ Takes({"nomethod"}) /\ Reply(Head(toServer).id, "error")

\* Run returns: on exit, at the end of the input, and on a frame ReadMessage
\* cannot read.
RunEnds ==
  /\ Takes({"exit", "eof", "badframe"})
  /\ state' = CASE Head(toServer).is = "exit" -> "exited"
                [] Head(toServer).is = "eof" -> "eof"
                [] OTHER -> "failed"
  /\ UNCHANGED <<client, toEditor, docs, shutdown>>

Serve ==
  \/ HandleDidOpen \/ HandleDidChange \/ HandleDidClose
  \/ HandleInitialize \/ HandleHover \/ HandleDefinition \/ HandleDocumentRequest
  \/ HandleWorkspaceRequest \/ HandleUnknown \/ HandleShutdown \/ HandleIgnored
  \/ HandleMalformed \/ RunEnds

EditorSends ==
  \/ \E u \in Uris : EditorOpens(u) \/ EditorTypes(u) \/ EditorCloses(u)
  \/ EditorAsks \/ EditorNotifies \/ EditorSendsGarbage \/ EditorHangsUp

LspNext == EditorSends \/ EditorReads \/ Serve

LspSpec == LspInit /\ [][LspNext]_lspVars

-----------------------------------------------------------------------------
(* Properties *)

Drained == state = "running" /\ toServer = <<>>

\* Once the server has caught up it has exactly the editor's text of every
\* document, whatever mixture of full and range edits, re-opens and garbage
\* came before: an edit is never applied to another version than the one the
\* editor made it on.
DocumentsInSync == Drained => docs = editor

\* Once the editor has caught up as well, the markers it displays for an open
\* document are those of the text on the screen, not of an earlier one.
MarkersAreCurrent ==
  Drained /\ toEditor = <<>> =>
    \A u \in Uris : editor[u].open => shown[u] = Markers(editor[u].text)

\* Every request is answered exactly once, whichever way its handler returns
\* and whatever garbage came before it: at most once at any time, and once as
\* soon as the pipes are empty.
AnsweredOnce ==
  /\ \A i \in 1 .. MaxSent : replies[i] <= IF i \in asked THEN 1 ELSE 0
  /\ Drained /\ toEditor = <<>> => \A i \in asked : replies[i] = 1
=============================================================================
