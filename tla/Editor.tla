-------------------------------- MODULE Editor --------------------------------
(***************************************************************************)
(* The editor in the browser (src/frontend/src/App.tsx, historyState.ts):  *)
(* the draft with its bounded undo and redo stacks, the revision it was    *)
(* loaded from, and the requests in flight.  An edit, an undo or a redo    *)
(* may come between any two steps of a request; a request uses the draft   *)
(* and the revision of the render in which it was started.                 *)
(*                                                                         *)
(* A draft is abstracted to what the operations tell apart: the text that  *)
(* is edited in place, the prompt that an upload sets when it is done, and *)
(* whether the server holds a secret for the extension, which is filled in *)
(* by the server whatever the draft says.  Roles and the forms are left    *)
(* out: the user of this module is an admin.                               *)
(***************************************************************************)
EXTENDS Integers, Sequences

CONSTANTS
    Texts,          \* what may be typed
    Prompts,        \* the greetings there are
    Kinds,          \* the operations that are used, a subset of AllKinds
    Limit,          \* entries of an undo or redo stack
    MaxRevision     \* bound on the revisions the server makes

AllKinds == {"save", "deploy", "secret", "replace", "sound"}

ASSUME EditorAssumption ==
    /\ Texts # {} /\ Prompts # {} /\ Kinds \subseteq AllKinds
    /\ Limit \in Nat \ {0} /\ MaxRevision \in Nat \ {0}

VARIABLES
    store,          \* the server's revisions, the last one is current
    hasSecret,      \* the server holds a secret for the extension
    hist,           \* [value, past, future, saved]
    revision,       \* the revision the editor believes to be current
    busy,           \* operation.kind = 'busy': Save and Deploy are disabled
    request,        \* the request of each kind
    upload          \* the render a prompt's upload was started in

editorVars == <<store, hasSecret, hist, revision, busy, request, upload>>
server == <<store, hasSecret>>

Documents == [text : Texts, prompt : Prompts, secret : BOOLEAN]
Phases == {"persist", "deploy", "fetch", "sent", "answered", "refused"}
RequestStates == [phase : Phases, doc : Documents, base : Nat, rev : Nat]
NoRequest == [phase |-> "none"]
Uploads == [active : {TRUE}, text : Texts, prompt : Prompts]
NoUpload == [active |-> FALSE]
Histories == [value : Documents, past : Seq(Documents),
              future : Seq(Documents), saved : Documents]

Current == Len(store)
Dirty == hist.value # hist.saved

-----------------------------------------------------------------------------
(* historyState.ts *)

Loaded(doc) == [value |-> doc, past |-> <<>>, future |-> <<>>, saved |-> doc]

\* The newest entries win: [...entries, value].slice(-limit).
Push(entries, doc) ==
    IF Len(entries) < Limit THEN Append(entries, doc) ELSE Append(Tail(entries), doc)

Updated(h, doc) ==
    IF doc = h.value THEN h
    ELSE [h EXCEPT !.value = doc, !.past = Push(h.past, h.value), !.future = <<>>]

Undone(h) ==
    IF h.past = <<>> THEN h
    ELSE [h EXCEPT !.value = h.past[Len(h.past)],
                   !.past = SubSeq(h.past, 1, Len(h.past) - 1),
                   !.future = <<h.value>> \o
                       IF Len(h.future) < Limit THEN h.future
                       ELSE SubSeq(h.future, 1, Limit - 1)]

\* Mutant: redo does not remember what it replaces.
RedoneForgetting(h) ==
    IF h.future = <<>> THEN h
    ELSE [h EXCEPT !.value = Head(h.future), !.future = Tail(h.future)]
Redone(h) ==
    IF h.future = <<>> THEN h
    ELSE [h EXCEPT !.value = Head(h.future), !.future = Tail(h.future),
                   !.past = Push(h.past, h.value)]

AcceptSaved(h, doc) == [h EXCEPT !.value = doc, !.saved = doc]

-----------------------------------------------------------------------------
(* The server: a change is accepted on the current revision only, and the  *)
(* secret flag of a stored document is the server's own.                   *)

Stored(doc, withSecret) == [doc EXCEPT !.secret = withSecret]

Write(doc, withSecret) ==
    /\ store' = Append(store, Stored(doc, withSecret))
    /\ hasSecret' = withSecret

\* What the server makes of a request of each kind, when its base is current.
ServerChange(k, doc) ==
    CASE k = "secret"  -> Write(store[Current], TRUE)
      [] k = "sound"   -> \E p \in Prompts : Write([store[Current] EXCEPT !.prompt = p], hasSecret)
      [] k = "replace" -> \E new \in Documents : Write(new, hasSecret)
      [] OTHER         -> Write(doc, hasSecret)

AtServer(k) ==
    \/ request[k].phase = "persist"
    \/ request[k].phase = "sent" /\ k # "deploy"

\* The change is made; its answer arrives, or is lost and counts as refused.
Serve(k) ==
    /\ AtServer(k)
    /\ request[k].base = Current /\ Current < MaxRevision
    /\ ServerChange(k, request[k].doc)
    /\ LET next == IF request[k].phase = "sent" THEN "answered" ELSE "deploy" IN
       \E phase \in {next, "refused"} :
          request' = [request EXCEPT ![k].phase = phase, ![k].rev = Current + 1]
    /\ UNCHANGED <<hist, revision, busy, upload>>

\* The base is stale, the document invalid, or the request does not arrive.
Refuse(k) ==
    /\ AtServer(k)
    /\ request' = [request EXCEPT ![k].phase = "refused"]
    /\ UNCHANGED <<store, hasSecret, hist, revision, busy, upload>>

\* Another editor, or a command-line tool, makes a revision.
SavedElsewhere ==
    /\ Current < MaxRevision
    /\ \E doc \in Documents : Write(doc, hasSecret)
    /\ UNCHANGED <<hist, revision, busy, request, upload>>

-----------------------------------------------------------------------------
(* Editing *)

EditorOnly == UNCHANGED <<store, hasSecret, revision, busy, request>>

Edit ==
    /\ \E t \in Texts : hist' = Updated(hist, [hist.value EXCEPT !.text = t])
    /\ UNCHANGED upload /\ EditorOnly

Undo == hist.past # <<>> /\ hist' = Undone(hist) /\ UNCHANGED upload /\ EditorOnly
Redo == hist.future # <<>> /\ hist' = Redone(hist) /\ UNCHANGED upload /\ EditorOnly

\* A recording or a file is converted and uploaded; the form that started it
\* holds the node as it was rendered then, and writes all of it when done.
UploadBegins ==
    /\ ~upload.active
    /\ \E p \in Prompts : upload' = [active |-> TRUE, text |-> hist.value.text, prompt |-> p]
    /\ UNCHANGED hist /\ EditorOnly

UploadEnds ==
    /\ upload.active
    /\ upload' = NoUpload
    /\ \/ hist' = Updated(hist, [hist.value EXCEPT !.text = upload.text, !.prompt = upload.prompt])
       \/ UNCHANGED hist                \* the upload failed
    /\ EditorOnly

-----------------------------------------------------------------------------
(* Requests *)

Send(k, phase, rev) ==
    /\ k \in Kinds /\ request[k].phase = "none"
    /\ request' = [request EXCEPT ![k] =
                      [phase |-> phase, doc |-> hist.value, base |-> revision, rev |-> rev]]
    /\ UNCHANGED <<store, hasSecret, hist, revision, upload>>

Save == ~busy /\ busy' = TRUE /\ Send("save", "sent", revision)

\* Mutant: what is deployed is the stored revision even if there are changes.
DeployUnsaved == ~busy /\ busy' = TRUE /\ Send("deploy", "sent", revision)
Deploy ==
    /\ ~busy /\ busy' = TRUE
    /\ IF Dirty THEN Send("deploy", "persist", revision) ELSE Send("deploy", "sent", revision)

\* The new secret, the chosen revision or import, and the sound to be
\* replaced go with a request that does not carry the draft.
SendChange(k) ==
    /\ k \in {"secret", "replace", "sound"}
    /\ Send(k, "sent", revision)
    /\ \/ UNCHANGED busy
       \/ k = "replace" /\ busy' = TRUE       \* an import says so, a rollback does not

Close(k) == request' = [request EXCEPT ![k] = NoRequest]

Answered(k) == request[k].phase = "answered" /\ Close(k)

\* persist() and changeSecret() keep the history; so does the first half of
\* a deployment.
AcceptAnswer(k) ==
    /\ hist' = AcceptSaved(hist, store[request[k].rev])
    /\ revision' = request[k].rev
    /\ UNCHANGED <<store, hasSecret, upload>>

SaveAnswered == Answered("save") /\ AcceptAnswer("save") /\ busy' = FALSE
\* Mutant: only the revision is taken over, as the draft "did not change".
SecretAnsweredRevisionOnly ==
    /\ Answered("secret") /\ revision' = request["secret"].rev
    /\ UNCHANGED <<store, hasSecret, hist, busy, upload>>
SecretAnswered == Answered("secret") /\ AcceptAnswer("secret") /\ UNCHANGED busy

Persisted ==
    /\ request["deploy"].phase = "deploy"
    /\ request' = [request EXCEPT !["deploy"].phase = "sent"]
    /\ AcceptAnswer("deploy")
    /\ UNCHANGED busy

\* The deployment of a revision fails if that is stale, and may fail anyway.
DeployServed ==
    /\ request["deploy"].phase = "sent"
    /\ \E phase \in {"answered", "refused"} :
          /\ phase = "answered" => request["deploy"].rev = Current
          /\ request' = [request EXCEPT !["deploy"].phase = phase]
    /\ UNCHANGED <<store, hasSecret, hist, revision, busy, upload>>

DeployAnswered ==
    /\ Answered("deploy") /\ busy' = FALSE
    /\ UNCHANGED <<store, hasSecret, hist, revision, upload>>

Reset(rev) == hist' = Loaded(store[rev]) /\ revision' = rev

ReplaceAnswered ==
    /\ Answered("replace")
    /\ Reset(request["replace"].rev)
    /\ busy' = FALSE
    /\ UNCHANGED <<store, hasSecret, upload>>

\* A replaced sound made a revision, which is fetched: the answer is what is
\* current when the server reads it, applied once every other list is there.
SoundAnswered ==
    /\ request["sound"].phase = "answered"
    /\ request' = [request EXCEPT !["sound"].phase = "fetch", !["sound"].rev = Current]
    /\ UNCHANGED <<store, hasSecret, hist, revision, busy, upload>>

WorkspaceLoaded ==
    /\ request["sound"].phase = "fetch" /\ Close("sound")
    /\ Reset(request["sound"].rev)
    /\ UNCHANGED <<store, hasSecret, busy, upload>>

\* A refused request tells the user and changes nothing.
Refused(k) ==
    /\ request[k].phase = "refused" /\ Close(k)
    /\ busy' = (busy /\ k \in {"secret", "sound"})
    /\ UNCHANGED <<store, hasSecret, hist, revision, upload>>

-----------------------------------------------------------------------------
EditorInit ==
    /\ \E doc \in Documents :
         /\ store = <<doc>> /\ hasSecret = doc.secret /\ hist = Loaded(doc)
    /\ request = [k \in AllKinds |-> NoRequest] /\ upload = NoUpload
    /\ revision = 1 /\ busy = FALSE

EditorNext ==
    \/ Edit \/ Undo \/ Redo \/ UploadBegins \/ UploadEnds
    \/ Save \/ Deploy \/ \E k \in AllKinds : SendChange(k)
    \/ \E k \in AllKinds : Serve(k) \/ Refuse(k)
    \/ DeployServed \/ SavedElsewhere
    \/ SaveAnswered \/ SecretAnswered \/ Persisted \/ DeployAnswered
    \/ ReplaceAnswered \/ SoundAnswered \/ WorkspaceLoaded
    \/ \E k \in AllKinds : Refused(k)

EditorSpec == EditorInit /\ [][EditorNext]_editorVars

-----------------------------------------------------------------------------
\* Everything has its type and neither stack outgrows the limit.
EditorTypeOK ==
    /\ store \in Seq(Documents) /\ Current \in 1 .. MaxRevision
    /\ hasSecret \in BOOLEAN /\ busy \in BOOLEAN
    /\ hist \in Histories /\ Len(hist.past) <= Limit /\ Len(hist.future) <= Limit
    /\ revision \in 1 .. Current
    /\ request \in [AllKinds -> RequestStates \cup {NoRequest}]
    /\ upload \in Uploads \cup {NoUpload}

\* The baseline of "unsaved" is the revision the next request will name: the
\* If-Match of App.tsx never vouches for a document the editor has not seen,
\* whatever requests overlap and whatever answer comes last.
BaselineIsRevision == hist.saved = store[revision]

\* handleDeploy deploys the draft the user saw when the button was pressed,
\* saved before if need be, although edits, undo and other answers come
\* between its two requests.
SameDraft(left, right) == left.text = right.text /\ left.prompt = right.prompt

DeploysWhatWasShown ==
    request["deploy"].phase \in {"deploy", "sent", "answered"} =>
        SameDraft(store[request["deploy"].rev], request["deploy"].doc)

\* Whatever changes the draft without an answer of the server -- an edit, an
\* upload that writes back the form it was started in, undo, redo -- can be
\* taken back by one undo or one redo (historyState.ts), as long as the
\* limit keeps at least one entry.
OneStepBack ==
    [][request' = request /\ hist'.value # hist.value =>
         hist.value \in {Undone(hist').value, Redone(hist').value}]_editorVars

\* What historyState.ts says of saving: it moves the baseline and is not a
\* boundary of the history, so it takes no typed text away.
SavingKeepsEdits == [][SaveAnswered => hist'.value.text = hist.value.text]_editorVars
===============================================================================
